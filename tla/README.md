# Verification of pushfree in TLA+

pushfree is a self-hosted push notification service: a Go server with a
Pushover-compatible HTTP API, a desktop client in Rust, an Android app and a web
dashboard. This directory holds TLA+ models of the parts in which processes
interleave, time passes and things fail, the TLC configurations that check them
on small instances, and proofs of the main results for every instance.

Paths below are relative to the repository; `internal/` stands for
`server/internal/`.

## Contents

| module | what it is |
|---|---|
| `ReceiptLifecycle` | abstract specification: what the receipt state machine promises |
| `EmergencyRetry` | priority-2 sends: ingest, seeding, timer engine and retry handler, acknowledge, cancel, collection, crashes |
| `EmergencyRetryProofs`, `TimerRowProofs` | its theorems and their proofs, the second those that count timer rows |
| `CallbackWorker` | webhook callbacks: acknowledge hook, worker, receiver, collection, crashes |
| `CallbackWorkerProofs` | its theorems and their proofs |
| `Hub` | real-time delivery: publishers, hub, connection goroutines, desktop client |
| `HubProofs` | its theorems and their proofs |
| `Fetch` | what a browser tab does with requests: late, out of order, rejected, abandoned |
| `QuotaGate` | the monthly quota: gate, charge, month end; also what the dashboard implements |
| `AccountApi` | the handlers behind the session cookie, and what other programs do to the account meanwhile |
| `AppsPage`, `QuotaPage`, `QuietHoursPage`, `MessagesPage` | the pages of the web dashboard, the last with its event stream |
| `Dashboard` | the composition: router, login page, layout, pages, server, senders |
| `QuotaGateProofs`, `DashboardProofs`, `QuotaPanelProofs`, `PageProofs` | their theorems and proofs: the gate, what all pages rest on, the Quota page, the other pages |
| `MC*` | the instances TLC checks |

    Fetch, QuotaGate <- AccountApi <- AppsPage, QuotaPage, QuietHoursPage, MessagesPage
                                   <- Dashboard <- DashboardProofs <- QuotaPanelProofs, PageProofs
                                                <- MCDashboard
    EmergencyRetry <- EmergencyRetryProofs <- TimerRowProofs

Run a configuration with `tlc -config MCEmergencyRetry.cfg MCEmergencyRetry`, the
proofs with `tlapm EmergencyRetryProofs.tla` and the same for the other `*Proofs`
modules. `PROJECT.json` lists the runs, which
source lines each definition translates, the hazards, and for each property a
mutation of the model that breaks it (the operators marked "Mutant").

## Inventory

For each part: its state, its operations, whom it talks to, what is hard about it
and what makes it correct.

**Emergency receipts** (`internal/receipts`, `internal/timers`,
`internal/server/retry.go`, `internal/store/sqlite/{timer*,receipt_*,cancel}.go`).
State: the tables `receipts` and `timers`, and the engine goroutine's claimed batch.
Operations: ingest of a priority-2 send, `SeedRetry`, `Recover`, `ClaimDue`, the
retry handler (`Tick`, redeliver, `IncrementRetry`, `CreateTimer`, `Delete`),
acknowledge, cancel by id and by tag, `SweepReceipts`. The handler publishes
through the hub; the acknowledge handler calls the callback worker's hook. Hard:
each handler is several statements, not a transaction; acknowledge, cancel and
collection run between any two of them; a crash may separate any two; the claim is
durable and its owner is not; an error ends the engine. Correct when: no alert
loses its timer, a closed alert is not alerted again, attempts are counted and
paced, expiry is neither early nor forgotten, the state machine is obeyed, and no
row goes before its retention is over.

**Callback worker** (`internal/callbacks`, `store/sqlite/callback_worker.go`).
State: tables `callbacks` and `dlq`, `receipts.called_back_at`, one goroutine per
attempt, a semaphore per host. Operations: `OnAcknowledged`, `ProcessDue`,
`attempt`, `MarkDone`, `MarkFailed`, `RecordDLQ`. Hard: the POST and its record
are two steps; attempts of one host queue; the collector deletes rows under an
attempt. Correct when: done means accepted, duplicates only after a fault, retries
keep the interval, each failure has its dead letter, nothing is given up.

**Hub** (`internal/hub`). State: user -> set of mailboxes, each a bounded channel;
per connection `lastSent`. Operations: `Publish`, `subscribe`, `unsubscribe`, the
replay and live loop of `ServeWS`/`ServeSSE`, the delivery hook. Hard: messages
commit, publish and connections come and go in any order; a mailbox may be full; a
replay is one page. Correct when: a client that reconnects with its cursor gets
every message, once.

**Desktop client** (`desktop/src/ws.rs`, `desktop/src/notify/`). State: cursor in
memory and in a file; a log of shown messages; pending acknowledgements. Hard: the
cursor moves before the message is handed on; restarts; back-off and read timeout.
Correct when: the cursor never passes a message that was not shown, a message is
shown once, an acknowledgement is posted in the end.

**Message ingest** (`internal/api/messages.go`, `store/sqlite/ingest.go`).
Validation, recipient resolution (user, device, group), quota gate, one
transaction, live publication, seeding. Hard: the steps after the transaction may
each fail or never run.

**Quota** (`internal/quota`, `internal/api/quota.go`). Counter per user and month.
Gate before the send, charge after it. Hard: concurrent requests pass the gate
together, each at the cost of its recipients; the header and the body of one limits
answer are two reads of the counter, and each reads the clock twice, for the reset and
for the month of the counter; the month ends between any two of these. Correct when: a
month is charged at most the limit and what was underway, and what is shown as
exhausted is.

**Web dashboard** (`web/app`, `web/lib/api.ts`). A static export that runs in the
browser. State: the `useState` values of the login page, of the layout that guards
`/dashboard`, and of the pages Apps, Quota, Quiet hours and Live messages; the last
holds an `EventSource` in a ref. Operations: the mount effects, the handlers of the
buttons, and every continuation after an `await`. It talks to the server with `fetch`
and the session cookie, and reads the event stream of one device. Hard: handlers keep
values they captured before an await; two handlers of one page overlap; answers come
late, in another order, never, or to a page that is gone; a rejected `fetch` skips the
reset of `busy`; the login probe is not canceled and moves the router; the browser
reopens a lost stream by itself and without a cursor. Correct when: for a user who
waits, what is shown is what the server has; a button that is busy has a request to
wait for; a card is about what was asked; the form says "saved" of what is stored; there
is one stream, and the dot, the order and the top of the list are true of it; the tab
comes to rest.

**Retention and TTL** (`internal/retention`, `store/sqlite/retention.go`). Three
passes per cycle over messages, attachments and expired TTLs. Hard: it races the
delivery stamp; one failing pass ends the cycle.

**Quiet hours** (`internal/quiethours`). A window over the wall clock, a hold and
a release. Not wired into the server. Hard: overnight windows, equal bounds,
daylight saving.

**Accounts, sessions, apps, devices** (`internal/api`, `internal/hub/{http,auth}.go`).
Rows and bearer tokens. Hard: two registrations racing to be the first account,
token rotation.

**Groups and subscriptions** (`internal/api/{groups,subscriptions}.go`). Sets of
users an address resolves to. Hard: membership changing while a send is fanned out.

**UnifiedPush, FCM** (`internal/up`, `internal/fcm`). An endpoint that turns a push
into a message; a token registry. The FCM client is constructed and nothing sends
through it.

**Android app** (`android/`). The same WebSocket protocol, UnifiedPush, and an
outbox that posts acknowledgements with retries. Hard: an acknowledgement queued
offline is posted after the receipt expired.

**Store** (`internal/store/{sqlite,postgres}`). The repositories all parts share.
SQLite: `buildDSN` calls `url.Values.Set("_pragma", ..)` once per pragma, so the last
one replaces the others and foreign keys are not enforced; Postgres enforces them.
The difference is the constant `ForeignKeys`.

Left aside: configuration, metrics, logging and the embedded web files (no shared
state), the SSRF predicate (its verdict is a free choice), end-to-end encryption
(pure cryptography), the Android user interface, deployment and CI.

## EmergencyRetry

One action is one database statement or transaction. Between two of them any other
actor may run, the clock may tick, and the process may die.

| variable | in the program |
|---|---|
| `receipts` | table `receipts`; `closed_at` is `acknowledged_at`, `expired_at` or `canceled_at`, the state tells which. "swept" marks a deleted row |
| `timers` | table `timers`; `claimed` is `claimed_at IS NOT NULL` |
| `request` | where the POST that creates the receipt stands: before the insert, before the seed, after |
| `pc`, `batch`, `current`, `attempt`, `tick_now` | the engine goroutine: its position, the claimed timers still to fire, the one in hand, and the locals of the handler |
| `cancelling` | cancels that committed and have still to delete the timers |
| `sweeping` | ids the collector selected and has still to delete |
| `published`, `late`, `crashes`, `errors` | history only |

| action | code |
|---|---|
| `Ingest`, `SeedRetry`, `SeedRetryFails` | `messagesHandler`, `RetrySeeder.SeedRetry` |
| `Recover`, `Claim`, `FireDone` | `Engine.Recover`, `TimerRepo.ClaimDue`, `Engine.Fire` |
| `TickDone`, `TickExpire`, `TickEarly`, `TickRetry` | the four outcomes of `Scheduler.Tick` |
| `SetExpired`, `Redeliver`, `IncrementRetry`, `Recheck`, `ScheduleNext`, `DeleteFired` | the statements that follow, in the order of `NewRetryHandler` and `Engine.Fire` |
| `EngineError`, `EngineMissesReceipt` | `Engine.Run` returns on any error |
| `Acknowledge`, `CancelPending`, `DeleteTimers`, `DeleteTimersFails` | `ReceiptRepo.Acknowledge`, `receipts.Cancel` |
| `SelectEligible`, `DeleteSelected` | `SweepReceipts`: the select is outside the transaction that deletes |
| `Crash`, `Restart`, `ClockTick` | the environment |

`ReceiptLifecycle` says what all of this amounts to for a reader of the receipts:
a receipt is created pending, counts at most `MaxAttempts` attempts while it is
open, makes one legal transition, and is deleted in the end. `ImplementsLifecycle`
is the refinement: `Lifecycle` maps rows to states and counts.

Left out: jitter (the server passes none), timers of other kinds (no handler is
registered), the cancel broadcast (none is wired), the credentials a handler checks.
Time between two polls is not bounded: the server passes the sweeper's interval, an
hour by default, where `timers/engine.go` speaks of about a second. So nothing is
said about how late an attempt may be; safety holds at every interval.

## CallbackWorker

`handler` is an acknowledge request between its `UPDATE` and the end of its hook;
`job` is a goroutine of `ProcessDue` and carries the count `ListDue` read; `callbacks`,
`dlq` and `receipts` are the tables. A row id is given once. `LoadBody`, `Post*`,
`MarkDone`, `MarkFailed`, `RecordDLQ` are the steps of `attempt` and `fail`; the receiver
may accept, refuse, or accept with its answer lost. The SSRF gate resolves anew at
every attempt, so its verdict is open: at enqueue `EnqueueNothing`, at the POST
`PostRefused`. Receipts start open. The collector selects those closed for a retention,
and open ones that are overdue: `expires_at` is not in the model, so once a retention has
passed any open receipt may be. Such a receipt may be acknowledged, and its callback
enqueued, between its selection and its deletion.

## Hub

One user, whose messages are the ids `1..last_id`, given in commit order: that is SQLite,
which has one writer. A Postgres sequence gives an id before its transaction commits, so a
lower id may become visible after a higher one; nothing is claimed about `Hub` on
Postgres. `sender` is a
goroutine that committed (or is redelivering) a message and has still to publish it:
first it copies the set of mailboxes (`Snapshot`), then it offers the message to each
(`Offer`), the lock released. `conn` is a connection goroutine with its mailbox,
`lastSent` and the rest of its replay page; `wire` holds frames on their way; `link`,
`cursor` and `stored` belong to the client. `ServeSSE` without a cursor is in
`MessagesPage`. `missed` is a history variable: for each device the ids the
server passed over, for one of these reasons: the page was cut at its limit, the page
could not be read, the mailbox was full, a higher id was offered first.

A connection whose client has left stays until it notices, so a device may hold two
connections at once: `Conns` bounds them. Keepalives, graceful shutdown and
`last_delivered_at` of the receipt are not modelled. The engine may redeliver any
stored message; which ones are emergencies is left open.

## Web dashboard

A handler of a page is an async function. What it does between two awaits is one
action; a request in flight names the handler that awaits it and carries what that
handler has captured, so the continuation reads stale values exactly where the code
does. Answers are delivered by `Settle`, in any order.

**`Fetch`** (`lib/api.ts` and the browser). `net` holds the requests in flight, with the
cookie they left with and the answer once there is one; `cookie` says whether the
browser's is valid; `faults` counts rejected fetches, failed handlers, lost
connections, failed replays, failed charges and expiries of the session. When a page unmounts (`Abandon`), its
reads are forgotten, its writes are still handled ("gone"), and the login page's answers
still move the router ("left"). The layout's probe is canceled by its effect's cleanup.

**`QuotaGate`** (`quota/`, `api/messages.go`). `sender` is where each request goroutine
stands: past the gate, or sent and not charged. `Gate` reads, `Ingest` stores, `Charge`
increments in the month it runs in; each may fail. `MonthEnds` starts a counter at
zero. A send costs its number of recipients, at most `MaxRecipients`; one that resolves to
nobody (an empty group) is neither gated nor charged, and left out.

**`AccountApi`** (`api/{accounts,apps,quota,applimit,security}.go`). `tokens`, `made` and
`used` are the table `apps`, its last id, and the apps rows of `sends` refer to; `log` is the
last message id; `window` the quiet hours. A handler is one action, at the statement that
decides its answer. A limits request is four: `HeaderReset` and `HeaderCount` write the
header (`applimit.go:62`, `:66`), `LimitsReset` and `Limits` the body (`quota.go:133`, `:135`).
Of each pair the first takes the reset from the clock, the second the counter of the month
the clock says by then, so a month may end between any two of the four, and a reset may
stand beside the count of the month after its own. The token is looked up with the
reading of the clock that follows it. The second reading of the clock and the counter's
`SELECT` are one step, as are the reading of the clock and the `UPDATE` in `Charge`: a
statement that reaches the old month's row after the month has ended works on a row
that nothing else of the new month touches, and such statements keep their order when
all of them are placed just before the end.
`OtherClientSaves`, `Send*` and `SessionExpires` are what happens to the account outside
the tab. Names, keys and error texts are left out.

**`AppsPage`, `QuotaPage`, `QuietHoursPage`.** Each has one variable, the record of the
component's `useState` values; messages that are only shown are left out. History fields:
`waited` (the user has started nothing while something was underway), `asked` (the token
last submitted), `edited`, `seen`, `foreign` (the form was edited; what it was filled from;
another client saved meanwhile). The parts of handlers between awaits are named after
them: `onCreate` is `OnCreate`, `Created`, `CreatedListed`, `CreatedFound`, `CreatedShown`. Clear
sends empty bounds with the time zone of the form, so from a malformed form it may be
refused (`Sent`).

**`MessagesPage`.** `source` holds the `EventSource` objects, each with the goroutine of
`ServeSSE` that serves it: its phase, `lastSent`, its subscription, its inbox and the
frames on their way. `posting` is a sender between commit and `Publish`. `LoseConnection` is
the browser's reconnection. Its callbacks belong to every source the page made that is
not closed, which is why `OneStream` is worth having. `fresh` and `whole` are history: how
many events came over the open connection, and whether its replay read everything.

**`Dashboard`.** `route` is the path, `layout` the guard's state, `Page` what is on screen.
`Navigate` unmounts and mounts with the mount effects; the layout stays mounted under
`/dashboard`. The browser stores the session cookie when the login's answer arrives, before
the promise resolves, so `CookieStored` and `LoginAnswered` are two actions. `visit` bounds what one behaviour combines, and is fixed in it.

## Runs

| run | instance | what it shows |
|---|---|---|
| `emergency_retry` | one receipt, 2 attempts, window of 3 intervals, one crash and one failed call, SQLite | type, all safety properties, the refinement, and that a seeded alert ends |
| `emergency_batch` | two receipts claimed in one batch, one crash, Postgres | `AlertKeepsTimer`, `ClaimsHeld`, and that no timer outlives its receipt |
| `callback_worker` | three callbacks of one receipt on one host, semaphore of 1, `ListDue` limited to 2, one refusal, one fault | all properties of the worker, and that each callback settles |
| `hub_delivery` | two publishers, two connections, page, mailbox and wire of 1, any two faults (lost connection, client restart, failed call, crash), one redelivery | `ReceivedOnce`, `GapsAreExplained`, `EveryMessageArrives` |
| `dashboard_quota` | two requests in flight, one fault, two senders of one recipient or two, two apps, limit 2, one month end, references enforced (Postgres) | `OvershootBounded`, `HeadersNotAhead`, `BusyIsBacked`, `WaitingUserSeesServer`, `ShowsTokenAsked`, `ExhaustedIsFinal` |
| `dashboard_live` | two requests in flight, one fault, one sender, two event sources, page and inbox of 1, two events on screen, references not enforced (SQLite) | type, `FlashIsTrue`, `OneStream`, `DotIsTrue`, `StreamInOrder`, `LatestOnTop`, `OverwritesOnlyWhatWasShown`, `EventuallySettled` |
| `requested_expire` and the five other runs under "Disagreements" | without faults, or with one | disagreements between code and documentation |

Why these bounds are enough: the hazards listed need at most one
interleaving point between two writes of one actor, one other actor in it, and one
fault (two for a repeated message: a cursor file not written and a restart from
it). With two attempts the cap, the window and the retry in between are all
reached; a window longer than cap times interval makes expiry by cap and by window
both occur. `LastSend` and `MaxTime` leave time for the retention to pass after
the last attempt. `TimerIds` is larger than the number of timers that
exist at once (`TimersBounded`), so an insert never waits for an id. For the
hub, capacity 1 makes a full mailbox, a cut page and a full wire all happen with
two messages, and two publishers are what overtaking needs. With `MaxCallbacks` 3 two
listed rows compete for one slot and the third does not fit the list. `CHECK_DEADLOCK` is off since time stops at
`MaxTime` and clients owe nothing.

For the dashboard, two requests in flight are what overlapping handlers, a probe
that outlives its page and an answer to a page that is gone need, and one fault is
what a stuck button needs. Pages share nothing but the router and the server, so a
behaviour visits one of them (or Apps and Quota) with the actors that matter to
it: Apps with one sender and one message (which makes a token irrevocable where
references are enforced), Quota with two messages to one recipient or two and a month's
end, sends alone with two senders that pass the gate together and three such messages
(one recipient and then two reach the highest overshoot); Live messages with a
sender of two messages, which a page of one cuts, an inbox of one overflows and a
replay races with; Quiet hours beside another client; Apps and Quota with nobody.
Two event sources show that no second one exists; two events are what an order
needs. With one sender and a limit of 1 the second of those messages takes a charge that
fails, so `StreamInOrder` and `LatestOnTop` are checked without two publications at once;
their theorems are about any number of senders and any limit. A tab may rest for ever, so
`CHECK_DEADLOCK` is off.

### Properties

`EmergencyRetry`: `AlertKeepsTimer`, `ClaimsHeld`, `TimersBounded` (a crash leaves two
timers for one alert: chains never multiply), `AtMostOneLateRedelivery` (a tick that
read the receipt open may still publish; none after it does), `RedeliveriesCounted`,
`PaceKept`, `NoEarlyExpiry`, `SweptAfterRetention` (over the gap between select and
delete), `ImplementsLifecycle`, `TimersReferenceReceipts`, `AlertEventuallyCloses`.

`CallbackWorker`: `DoneWasAccepted`, `DuplicatesNeedFaults`, `RetryPaced`, `AttemptsLogged`,
`CallbackSettles`.

`Hub`: `ReceivedOnce`, `GapsAreExplained`, `EveryMessageArrives`.

`QuotaGate`: `OvershootBounded` (concurrent requests pass the gate together: with `k`
goroutines at most `Limit + (k - 1) * MaxRecipients` are charged to a month).

Dashboard: `WaitingUserSeesServer` (without a fault, a user who waits sees the table's
apps, usable buttons, and a quota panel of the app selected); `HeadersNotAhead` (while the
month that header and body both name still runs, the header counts no more than the body,
wherever sends are charged and a month ends between the four reads); `ShowsTokenAsked` and
`ExhaustedIsFinal` (a card that ages); `BusyIsBacked` (after a fault it may be stuck,
otherwise never; the login page never); `FlashIsTrue` and `OverwritesOnlyWhatWasShown` (edits,
other clients and failed loads around a save); `OneStream`, `DotIsTrue`, `StreamInOrder`,
`LatestOnTop` (reconnections, replays and publications in any order); `EventuallySettled` (the
two redirects between login page and layout do not chase each other).

Some of these exclude what the code is known to get wrong, and show that nothing else does:
`BusyIsBacked` a failed request, after which a button stays busy; `WaitingUserSeesServer`
faults and the impatient user, who can see one app's quota under another's name;
`OverwritesOnlyWhatWasShown` a failed load and another client's save, after which a save
overwrites what its user never saw; `HeadersNotAhead` a month that is over, see below.

### Fairness

The engine, the worker, publishers and connections are goroutines that the runtime
schedules: weak fairness of their own steps. Time passes. A dead process is
restarted: `deploy/docker-compose.yml` restarts it. The desktop client
reconnects without end. No fairness is assumed of senders, recipients, the
collector or faults; faults are bounded in number.

In the dashboard: the server answers every request that reaches it (`Served`), and the
browser delivers answers and runs effects (`Settle`, `HomeReplaced`). Users, senders,
streams and faults owe nothing; `EventuallySettled` is about behaviours in which the user
stops at some time.

What the liveness properties do not say: `AlertEventuallyCloses` is checked with one
receipt and excuses a failed call, because any error ends the engine until the next
restart; with more receipts, one whose row is collected while its timer is in hand
would stop the engine for all (see `engine_stops`). `CallbackSettles` is about rows whose
receipt is there: a row inserted after its receipt was collected is retried for ever
and fails each time. `EveryMessageArrives` excuses messages in `missed` and devices on a
connection whose mailbox was full once.

## Disagreements between code and documentation

Each has a run that TLC ends with a violation of one property, which states what the
documentation says.

| run | what happens |
|---|---|
| `requested_expire` | the request's `retry` and `expire` are computed into a policy that is only logged; the engine always uses the default, so an alert is retried after the expiry its sender asked for |
| `unseeded_alert` | when the first timer is not written, `Recover` does not write it later: it resets claims of existing rows, and the alert is never retried |
| `engine_stops` | one error of a handler ends the engine's goroutine until a restart; the collector alone can cause it, with no failing call |
| `callback_unacknowledged` | the acknowledge hook runs after a no-op too: a callback is sent for a receipt that expired or was canceled |
| `hub_none_lost` | two requests commit in one order and publish in the other; the live loop takes the lower id for a duplicate and the client's cursor passes it |
| `hub_full_inbox` | on a full mailbox the connection is taken out of the map and not closed: the client stays on it and gets nothing more |

Met while modelling, and without a run of their own:

- A token that has sent cannot be revoked on Postgres: rows of `sends` refer to it
  (`store/postgres/migrations/0001_init.up.sql:46`), so `DELETE /v1/apps/{token}` answers
  500 where `docs/api.md:90` says it revokes. `DeleteApp` models it.
- Quiet hours are stored and never enforced: nothing in the server calls
  `internal/quiethours`, while `docs/api.md:72` and `web/app/dashboard/quiet-hours/page.tsx:86`
  say messages are held.
- `web/app/dashboard/layout.tsx:12` takes any answer but 200 for a missing session: a
  failing database sends a user with a valid session to the login page.
- The Live messages page says it is reconnecting after any `onerror`; after a 401 the
  browser has closed the source for good (`Refused`).
- `internal/hub/http.go:111` says `since=0` returns the latest page; the query is
  oldest first, and so is the replay of a stream without a cursor (`Replay`): with more
  than one page stored, the newest messages are not replayed.
- Header and body of one limits answer may name the same old month and count backwards: the
  header is read before a month ends, the body takes its reset before (`quota.go:133`) and its
  counter after (`:135`), and pairs the old reset with the new month's count. The card
  then says too much is left until the reset it names, which has passed. The model has this
  behaviour, and `HeadersNotAhead` and `ExhaustedIsFinal` speak of months that still run.
- `docs/api.md:135-138` says a send that would exceed the limit is answered 429 before
  anything is stored. Gate and charge are two steps (`messages.go:283`, `:390`), so requests
  that pass the gate together are all stored; `OvershootBounded` says by how much at most.
- A user who does not wait can see the quota of one app under the name of another, or
  of a revoked one: `showLimits` and `onDelete` do not compare with the selection at the
  time of the answer. `WaitingUserSeesServer` is false without its hypothesis `waited`.

## Proofs

`EmergencyRetryProofs` proves, for any sets of receipts and timer ids, any bounds and
either setting of `ForeignKeys`, from `RetryAssumption` alone:

- `TypeCorrect`: `Spec => []TypeOK`;
- `Inductive`: `Spec => []IInv`;
- from `IInv`: `AlertsKeepTimers`, `ClaimsAreHeld`, `LateAtMostOnce`,
  `RedeliveriesAreCounted`, `PaceIsKept`, `ExpiryNotEarly`, `SweepsAreDue`;
- `Implementation`: every behaviour of `EmergencyRetry` is one of `ReceiptLifecycle`.

`IInv` is `TypeOK` with three groups of conjuncts, needed because the properties
speak of moments between the statements:

- about timers: the engine's copies agree with the rows or the rows are gone
  (`RowsAgree`), timers belong to receipts that were created, a receipt being
  canceled is closed, an alert keeps a timer other than the fired one once its
  successor is written (`OtherTimer`), and a claimed row is held;
- about the attempt in hand: when the handler is past its tick, the instant it read
  justifies what it is about to do (`AttemptDue`, `ExpireDecided`), and a receipt
  closed since the tick is published to at most once (`LateOnce`), which with the
  counts gives `RedeliveriesCounted` and `PaceKept`;
- `SweepDecided`: what the collector selected is still eligible, as nothing moves a
  closing instant and time only advances.

Each conjunct has a lemma "*Step" that shows what preserves it, by actor; `NextInv`
combines them. The refinement goes by the row steps: an action leaves a row alone,
counts an attempt, closes it or deletes it.

`TimerRowProofs`, on top of it:

- `TimersAreBounded` (`TimersBounded`): from `BoundInv`. A receipt has one row and at most
  one more for each crash and each error, and one more while the fired row, replaced,
  waits for its deletion (`RowsWithin`). For that the deletion has to find its row: an id
  names one row in the table, the claimed batch and the engine's hand
  (`RowIdsDistinct`), and a claimed timer of an open receipt is still in the table
  (`BatchHasRow`, `HandHasRow`);
- `TimersHaveReceipts` (`TimersReferenceReceipts`): under `ForeignKeys`, that is in
  Postgres, which states the reference in the schema; SQLite runs without.

`CallbackWorkerProofs`, for any non-empty set of receipts, any bounds and any delays:
`CallbackTypeCorrect`, `CallbackInvariant`, and from it `DoneIsAccepted`
(`DoneWasAccepted`), `DuplicatesBounded` (`DuplicatesNeedFaults`), `RetriesPaced`
(`RetryPaced`) and `AttemptsAreLogged` (`AttemptsLogged`). `CallbackInv` says what the
statements of an attempt leave true between them:

- what a goroutine holds agrees with its row or the row is gone, what was due when it
  was listed is due when it is posted, and after a failure the row waits for the
  interval (`JobHasRow`, `CountHeld`, `StillDue`, `NextAfterFailure`);
- a row is marked done only after its POST was accepted (`MarkWasAccepted`);
- every acceptance but one is accounted for by a fault between a POST and its record;
  the one is about to be recorded, or was (`FaultsAccount`);
- a failure counted in the row has its dead letter, up to faults and the letter
  underway (`LettersFollow`).

`HubProofs`, for any set of messages and devices, any inbox size, page size and bounds:
`HubTypeCorrect`, `HubInvariant`, `ObservedOnce` (`ReceivedOnce`) and `NoOtherGap`
(`GapsAreExplained`). `HubInv` places every committed message:

- past the page of the replay it is in the inbox, underway to it, or passed over, unless
  the connection is no longer registered (`Promised`);
- what the inbox skips was passed over (`InboxOrdered`), frames on the wire ascend
  (`WireInv`), and up to the last frame a message was observed, is on the wire, or was
  passed over (`FollowInv`);
- the file holding the cursor is behind the cursor only after a write that failed
  (`CursorInv`).

`QuotaGateProofs`, for any finite set of goroutines, any limit, any number of recipients and
any number of months: `QuotaTypeCorrect`, and `OvershootIsBounded`. The invariant counts the
requests past the gate as charged already: one of them at what it costs, the others at the
most a send can cost, and there is room for one highest cost more, which is the one in the
bound (`ChargesBounded`). The one is the request that passed last, whose own gate saw the counter
with its cost within the limit; when it is charged, another takes its place. The lemmas
`Within*` are the arithmetic of that, and the rest needs the finite-set facts of one element
more or less, as `Uncharged` gains or loses the goroutine that moves.

`DashboardProofs`, for any number of requests, sources, apps, faults and visits:

- `ImplementsQuotaGate`: every behaviour of `Dashboard` is one of `QuotaGate`, and so
  `DashboardOvershootBounded`;
- `AnswersReachTheirPage` (`Owned`): whatever is in flight belongs to the page on screen, to
  the layout, or is marked as left behind; the layout has one probe at most, and only
  while it is loading. Without it no invariant about a page is inductive, since any
  answer could reach any page;
- `OneStreamAlways`, `DotIsAlwaysTrue`: from `StreamInv`, the ref and the states of the sources
  kept in step (`StreamShape`, `StreamHeld`): the only source there may be is the one in
  the ref, its state is what `conn` says, and off the page there is none.

`QuotaPanelProofs`, on top of `Owned`:

- `ReadingsArePast` (`LimitsPast`): what an answer in flight or a panel says of the counter is
  a lower bound of it while the month it names runs, and so is a header of its body. It
  holds of two readings of the clock because a reset is never newer than the count beside
  it (`Past`), and it is said of an answer as far as it has been written, reset before
  count and header before body (`SaysPast`). With it `HeadersAreNotAhead` and
  `ExhaustedStaysFinal`, as the counter only grows in a month;
- `CardIsOfTokenAsked`, from `LimitsAsked`: one limits request of the Quota page is in flight
  at most, the page is busy while it is, and it is about the token last submitted.

`PageProofs`, on top of `Owned`, for the other pages:

- `ListIsInOrder` (`StreamInOrder`) and `LatestIsOnTop` (`LatestOnTop`): frames on their way
  ascend up to `lastSent` whatever the order in the inbox, and lie above `events[1]`
  (`ListInv`); every stored message was sent on the source, waits in its inbox or is
  still to be published, and a sender publishes before it charges. `LatestOnTop` is
  about a connection whose replay read everything and whose inbox did not overflow;
- `FlashIsAlwaysTrue` (`FlashIsTrue`): from `QuietInv`. The page has one request at most and
  shows no message meanwhile, an answered setting is the stored one unless another
  client saved, and the page off screen is as if it had just been made;
- `NothingUnseenIsOverwritten` (`OverwritesOnlyWhatWasShown`): without a fault the stored
  setting was shown or is about to be (`SeenInv`). It needs that requests made while the
  layout has let the page in carry the cookie, up to an expiry, which is a fault;
- `BusyIsAlwaysBacked` (`BusyIsBacked`): a page that shows it is busy has the request it waits
  for (`BusyInv`); on the login page exactly one, always; on the others as long as no
  handler failed;
- `WaitingUserSeesTruth` (`WaitingUserSeesServer`): from `AppsInv`. For a user who waits there
  is at most one operation underway (`Listing`, `ReadingLimits`, `Creating`, `Deleting`), its
  kind says what on the page is stale, and it is not one from an earlier visit;
- `DashboardTypeCorrect` (`TypeOK`): from `TypeInv` and the invariants above. What a page
  shows it has from an answer, so answers in flight have to fit their operations
  (`AnswerFits`); and an answered list is of apps that exist, for which the creates
  underway are counted against the ids left (`AccountFits`).

All of them rest on the named assumptions of the modules on their constants, and
`TimersHaveReceipts` on `ForeignKeys`; on nothing else.

So every invariant and every action property of the passing runs is the subject of a
theorem. Model-checked only: liveness, which is out of the proof system's reach, with
`ENABLED`. Induction over data and `RECURSIVE` operators are out of its reach as well, so
modules to be proved about use recursive functions or none.

## Not modelled

- **Retention and message TTL**: deletes rows by age, one statement per pass. `Hub` keeps
  every row, so its properties say nothing of a message past its TTL.
- **Quiet hours package**: no running code calls it; how the setting is stored and edited
  is modelled.
- **Registration, the first account's role, CSRF and security headers**: the dashboard
  does not use the first two, and the others are predicates on one request.
- **Groups, subscriptions, recipient resolution, validation**: `QuotaGate` has the cost of a
  send to several recipients; which they are, and the messages each of them gets, are not
  covered.
- **UnifiedPush, FCM**: another way into the same ingest; a client nothing sends through.
- **Desktop notification pipeline, delays of back-off and read timeout**: a reconnect may
  happen at any time, which covers every delay; the platform's notifications are a log of
  ids.
- **Android app**: the protocol modelled in `Hub`, and an outbox whose scheduling is the
  platform's. The server side of a late acknowledgement is in `EmergencyRetry` and
  `CallbackWorker`.
- **SSRF gate, end-to-end encryption**: functions of their input; the gate's verdict is a
  free choice.
- **Migrations, configuration, metrics, logging, web mount, deployment**: run before
  anything is served, or share no state with the rest.
- Of the dashboard: styles, formatting, labels of priorities, error texts, names.

## Plan

Done: `ReceiptLifecycle`, `EmergencyRetry`, `CallbackWorker`, `Hub`, `QuotaGate`, `AccountApi`,
the dashboard, costs of sends to several recipients, and proofs of the safety properties of
all of them.

1. `Mailbox`, an abstract specification of delivery to a device (each message once,
   or passed over), which `Hub` implements; the same for callbacks.
2. `Retention`, extending `Hub`'s rows: the TTL sweep against commit, publication,
   replay and the delivery stamp.
3. Sends to several recipients beyond their cost: one publication per recipient.
4. `DesktopClient`: cursor, notification log, acknowledgement retries; then `AckOutbox` for
   Android against the same server side.
5. `QuietHours` and recipient resolution as pure operators, checked against reference
   definitions over bounded inputs.
6. Registration and the first account; UnifiedPush registration.
