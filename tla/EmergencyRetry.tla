--------------------------- MODULE EmergencyRetry ---------------------------
(***************************************************************************)
(* The life of priority-2 (emergency) receipts in the push server:         *)
(*                                                                         *)
(*   - the request handler that ingests a send with its receipt and then,  *)
(*     in a second database call, seeds the first retry timer;             *)
(*   - the timer engine goroutine (Recover, then Claim and Fire for ever), *)
(*     whose "retry" handler runs one scheduler tick per timer: read the   *)
(*     receipt, expire it or redeliver it and count the attempt, schedule  *)
(*     the next timer, and only then delete the fired one;                 *)
(*   - the handlers that acknowledge and cancel a receipt;                 *)
(*   - the receipt garbage collector, which selects ids and then deletes   *)
(*     them in a later transaction;                                        *)
(*   - the wall clock, transient database errors and process crashes.      *)
(*                                                                         *)
(* One action is one database statement or transaction: between two of     *)
(* them any other actor may run, the clock may advance and the process may *)
(* die.  The order in which a claimed batch is fired is left open, as      *)
(* UPDATE ... RETURNING promises none.                                     *)
(***************************************************************************)
EXTENDS Naturals, FiniteSets

CONSTANTS
    Receipts,       \* ids of the emergency receipts the clients send
    TimerIds,       \* bound: timer row ids (AUTOINCREMENT in the program)
    RequestedExpires, \* values of the request's expire parameter; 0 = not given
    Interval,       \* receipts.RetryPolicy.RetryInterval (30s)
    Expire,         \* receipts.RetryPolicy.Expire (3h)
    MaxAttempts,    \* receipts.RetryPolicy.MaxAttempts (50)
    Retention,      \* receipt GC window (7 days)
    Batch,          \* timers.DefaultBatch: rows claimed by one poll (100)
    ForeignKeys,    \* does the database enforce timers.receipt_id REFERENCES
                    \* receipts?  Postgres yes; SQLite as opened by buildDSN no
    LastSend,       \* bound: last instant at which a send is made
    MaxTime,        \* bound: last instant of the clock
    MaxCrashes,     \* bound: process crashes
    MaxErrors       \* bound: failed database calls

ASSUME RetryAssumption ==
    /\ "none" \notin TimerIds    \* the id of NoTimer
    /\ Interval \in Nat \ {0}
    /\ Expire \in Nat \ {0}
    /\ MaxAttempts \in Nat \ {0}
    /\ Retention \in Nat
    /\ Batch \in Nat \ {0}
    /\ RequestedExpires \subseteq Nat
    /\ ForeignKeys \in BOOLEAN
    /\ LastSend \in Nat /\ MaxTime \in Nat
    /\ MaxCrashes \in Nat /\ MaxErrors \in Nat

VARIABLES
    now,            \* the clock
    receipts,       \* table receipts, one row record per id
    timers,         \* table timers, a set of rows
    request,        \* per receipt: progress of the POST that creates it
    pc,             \* program counter of the engine goroutine
    batch,          \* engine: claimed timers not fired yet
    current,        \* engine: the timer being fired
    attempt,        \* engine: attempt number, or count read by the recheck
    tick_now,       \* engine: the instant read by Tick, stamped by SetExpired
    cancelling,     \* cancels committed whose DeleteTimers is still to run
    sweeping,       \* ids the receipt GC has selected and not deleted yet
    crashes, errors,\* history: faults so far
    published,      \* history: redeliveries made, per receipt
    late            \* history: redeliveries made after the receipt closed

engineVars  == <<pc, batch, current, attempt, tick_now>>
historyVars == <<published, late>>
faultVars   == <<crashes, errors>>
vars == <<now, receipts, timers, request, engineVars, cancelling, sweeping,
          faultVars, historyVars>>

-----------------------------------------------------------------------------
(* Rows.                                                                   *)

OpenStates     == {"pending", "delivered"}
TerminalStates == {"acknowledged", "expired", "canceled"}
States         == OpenStates \cup TerminalStates

NoReceipt == [state |-> "absent", retry_count |-> 0, created_at |-> 0,
              expires_at |-> 0, closed_at |-> 0]

\* closed_at stands for the column of the terminal state: acknowledged_at,
\* expired_at or canceled_at.  expires_at = 0 stands for NULL (a send made at
\* instant 0 still expires at 1 or later).
ReceiptRow == [state: States \cup {"absent", "swept"}, retry_count: Nat,
               created_at: Nat, expires_at: Nat, closed_at: Nat]

TimerRow == [id: TimerIds, receipt: Receipts, fire_at: Nat, claimed: BOOLEAN]

\* "No timer in hand": the engine is between two timers.
NoTimer == [id |-> "none"]

Exists(r)   == receipts[r].state \in States
Open(r)     == receipts[r].state \in OpenStates
Terminal(r) == receipts[r].state \in TerminalStates

\* The table after receipt r has moved to the terminal state s at an instant.
Closed(r, s, at) == 
    [receipts EXCEPT ![r] = [@ EXCEPT !.state = s, !.closed_at = at]]

Up == pc # "down"

\* A row id no row bears and the engine does not hold (AUTOINCREMENT never
\* reuses one).
FreshIds == {i \in TimerIds : /\ \A t \in timers \cup batch : t.id # i
                              /\ current.id # i}

\* Mutant: the constraint is declared but the connection does not enforce it.
CanInsertTimerUnchecked(r) == TRUE

\* INSERT INTO timers; with foreign keys enforced it fails without its receipt.
CanInsertTimer(r) == ForeignKeys => Exists(r)

InsertTimer(r, at) ==
    /\ FreshIds # {}
    /\ timers' = timers \cup {[id |-> CHOOSE i \in FreshIds : TRUE,
                               receipt |-> r, fire_at |-> at, claimed |-> FALSE]}

SetClaimed(rows, c) == {[t EXCEPT !.claimed = c] : t \in rows}

NextRetryAt(r, count) == receipts[r].created_at + count * Interval

\* Mutant: the cap is reached one attempt early.
ExpiredAtCapMinusOne(r) ==
    \/ receipts[r].retry_count + 1 >= MaxAttempts
    \/ now >= receipts[r].created_at + Expire

ExpiredAt(r) ==
    \/ receipts[r].retry_count >= MaxAttempts
    \/ now >= receipts[r].created_at + Expire

-----------------------------------------------------------------------------
(* The sender's request: POST /1/messages.json with priority=2.            *)

\* One transaction inserts send, messages and receipt.  expire is optional.
Ingest(r, expire) ==
    /\ Up /\ now <= LastSend
    /\ request[r] = "new"
    /\ receipts' = [receipts EXCEPT ![r] =
            [state |-> "pending", retry_count |-> 0, created_at |-> now,
             expires_at |-> IF expire > 0 THEN now + expire ELSE 0,
             closed_at |-> 0]]
    /\ request' = [request EXCEPT ![r] = "ingested"]
    /\ UNCHANGED <<now, timers, engineVars, cancelling, sweeping, faultVars,
                   historyVars>>

\* The first timer is due at the creation instant.  The requested retry and
\* expire are computed into a policy that is only logged.
SeedRetry(r) ==
    /\ request[r] = "ingested"
    /\ CanInsertTimer(r)
    /\ InsertTimer(r, receipts[r].created_at)
    /\ request' = [request EXCEPT ![r] = "seeded"]
    /\ UNCHANGED <<now, receipts, engineVars, cancelling, sweeping, faultVars,
                   historyVars>>

\* A failed seed is logged; the request still answers 200.
SeedRetryFails(r) ==
    /\ request[r] = "ingested"
    /\ \/ CanInsertTimer(r) /\ errors < MaxErrors /\ errors' = errors + 1
       \/ ~CanInsertTimer(r) /\ UNCHANGED errors
    /\ request' = [request EXCEPT ![r] = "unseeded"]
    /\ UNCHANGED <<now, receipts, timers, engineVars, cancelling, sweeping,
                   crashes, historyVars>>

-----------------------------------------------------------------------------
(* The timer engine: Run = Recover, then Poll = Claim ; Fire, repeatedly.   *)

Goto(label) == pc' = label

\* Mutant: the fired timer is not let go.
ReleasedHoldsTimer == /\ UNCHANGED current
                      /\ attempt' = 0
                      /\ tick_now' = 0

\* The state of the engine when it holds no timer.
Released == /\ current' = NoTimer
            /\ attempt' = 0
            /\ tick_now' = 0

\* Mutant: the startup scan does not reset the claims of the dead process.
RecoverKeepsClaims ==
    /\ pc = "recover"
    /\ Goto("poll")
    /\ UNCHANGED <<now, receipts, timers, request, batch, current, attempt,
                   tick_now, cancelling, sweeping, faultVars, historyVars>>

Recover ==
    /\ pc = "recover"
    /\ timers' = SetClaimed(timers, FALSE)
    /\ Goto("poll")
    /\ UNCHANGED <<now, receipts, request, batch, current, attempt, tick_now,
                   cancelling, sweeping, faultVars, historyVars>>

Due == {t \in timers : ~t.claimed /\ t.fire_at <= now}

\* One UPDATE ... RETURNING over at most Batch due rows.
Claim ==
    /\ pc = "poll"
    /\ \E C \in SUBSET Due :
        /\ C # {}
        /\ Cardinality(C) <= Batch
        /\ C = Due \/ Cardinality(C) = Batch
        /\ batch' = SetClaimed(C, TRUE)
        /\ timers' = (timers \ C) \cup SetClaimed(C, TRUE)
    /\ Goto("fire")
    /\ UNCHANGED <<now, receipts, request, current, attempt, tick_now,
                   cancelling, sweeping, faultVars, historyVars>>

FireDone ==
    /\ pc = "fire" /\ batch = {}
    /\ Goto("poll")
    /\ UNCHANGED <<now, receipts, timers, request, batch, current, attempt,
                   tick_now, cancelling, sweeping, faultVars, historyVars>>

\* Fire takes the next claimed timer and the handler's Tick reads its receipt.
Take(t) ==
    /\ pc = "fire" /\ t \in batch
    /\ batch' = batch \ {t}
    /\ UNCHANGED <<now, receipts, timers, request, cancelling, sweeping,
                   faultVars, historyVars>>

TickDone(t) ==
    /\ Take(t)
    /\ Terminal(t.receipt)
    /\ Goto("delete")
    /\ current' = t
    /\ UNCHANGED <<attempt, tick_now>>

TickExpire(t) ==
    /\ Take(t)
    /\ Open(t.receipt) /\ ExpiredAt(t.receipt)
    /\ Goto("expire")
    /\ current' = t /\ tick_now' = now
    /\ UNCHANGED attempt

TickEarly(t) ==
    /\ Take(t)
    /\ Open(t.receipt) /\ ~ExpiredAt(t.receipt)
    /\ now < NextRetryAt(t.receipt, receipts[t.receipt].retry_count)
    /\ Goto("recheck")
    /\ current' = t
    /\ UNCHANGED <<attempt, tick_now>>

\* Mutant: the tick does not check that the attempt is due.
TickRetryAnyTime(t) ==
    /\ Take(t)
    /\ Open(t.receipt) /\ ~ExpiredAt(t.receipt)
    /\ Goto("redeliver")
    /\ current' = t
    /\ attempt' = receipts[t.receipt].retry_count + 1
    /\ UNCHANGED tick_now

\* Mutant: the tick does not look at the receipt's state.
TickRetryAnyState(t) ==
    /\ Take(t)
    /\ Exists(t.receipt) /\ ~ExpiredAt(t.receipt)
    /\ now >= NextRetryAt(t.receipt, receipts[t.receipt].retry_count)
    /\ Goto("redeliver")
    /\ current' = t
    /\ attempt' = receipts[t.receipt].retry_count + 1
    /\ UNCHANGED tick_now

TickRetry(t) ==
    /\ Take(t)
    /\ Open(t.receipt) /\ ~ExpiredAt(t.receipt)
    /\ now >= NextRetryAt(t.receipt, receipts[t.receipt].retry_count)
    /\ Goto("redeliver")
    /\ current' = t
    /\ attempt' = receipts[t.receipt].retry_count + 1
    /\ UNCHANGED tick_now

Tick == \E t \in batch : \/ TickDone(t) \/ TickExpire(t)
                         \/ TickEarly(t) \/ TickRetry(t)

SetExpired ==
    /\ pc = "expire"
    /\ receipts' = IF Open(current.receipt)
                   THEN Closed(current.receipt, "expired", tick_now)
                   ELSE receipts
    /\ Goto("delete")
    /\ UNCHANGED <<now, timers, request, batch, current, attempt, tick_now,
                   cancelling, sweeping, faultVars, historyVars>>

\* The redeliver callback loads receipt, send and messages, then publishes.
Redeliver ==
    LET r == current.receipt IN
    /\ pc = "redeliver"
    /\ Exists(r)
    /\ published' = [published EXCEPT ![r] = @ + 1]
    /\ late' = IF Terminal(r) THEN [late EXCEPT ![r] = @ + 1] ELSE late
    /\ Goto("increment")
    /\ UNCHANGED <<now, receipts, timers, request, batch, current, attempt,
                   tick_now, cancelling, sweeping, faultVars>>

\* Mutant: the UPDATE has no condition on the state.
IncrementRetryAnyState ==
    /\ pc = "increment"
    /\ receipts' = [receipts EXCEPT ![current.receipt].retry_count = @ + 1]
    /\ Goto("schedule")
    /\ UNCHANGED <<now, timers, request, batch, current, attempt, tick_now,
                   cancelling, sweeping, faultVars, historyVars>>

\* Mutant: the UPDATE only counts attempts on delivered receipts.
IncrementRetryDelivered ==
    /\ pc = "increment"
    /\ receipts' = IF receipts[current.receipt].state = "delivered"
                   THEN [receipts EXCEPT ![current.receipt].retry_count = @ + 1]
                   ELSE receipts
    /\ Goto("schedule")
    /\ UNCHANGED <<now, timers, request, batch, current, attempt, tick_now,
                   cancelling, sweeping, faultVars, historyVars>>

IncrementRetry ==
    /\ pc = "increment"
    /\ receipts' = IF Open(current.receipt)
                   THEN [receipts EXCEPT ![current.receipt].retry_count = @ + 1]
                   ELSE receipts
    /\ Goto("schedule")
    /\ UNCHANGED <<now, timers, request, batch, current, attempt, tick_now,
                   cancelling, sweeping, faultVars, historyVars>>

\* Mutant: EventNone ends the handler without a next timer.
RecheckDropsChain ==
    /\ pc = "recheck"
    /\ Goto("delete")
    /\ UNCHANGED <<now, receipts, timers, request, batch, current, attempt,
                   tick_now, cancelling, sweeping, faultVars, historyVars>>

\* EventNone: the handler reads the receipt again to place the next timer.
Recheck ==
    /\ pc = "recheck"
    /\ Exists(current.receipt)
    /\ attempt' = receipts[current.receipt].retry_count
    /\ Goto("schedule")
    /\ UNCHANGED <<now, receipts, timers, request, batch, current, tick_now,
                   cancelling, sweeping, faultVars, historyVars>>

\* CreateTimer for the next attempt; jitter is off in the server.
ScheduleNext ==
    LET r == current.receipt IN
    /\ pc = "schedule"
    /\ CanInsertTimer(r)
    /\ InsertTimer(r, NextRetryAt(r, attempt))
    /\ Goto("delete")
    /\ UNCHANGED <<now, receipts, request, batch, current, attempt, tick_now,
                   cancelling, sweeping, faultVars, historyVars>>

\* Mutant: the fired row is only released, not deleted.
DeleteFiredKeepsRow ==
    /\ pc = "delete"
    /\ timers' = {IF t.id = current.id THEN [t EXCEPT !.claimed = FALSE] ELSE t :
                     t \in timers}
    /\ Goto("fire") /\ Released
    /\ UNCHANGED <<now, receipts, request, batch, cancelling, sweeping,
                   faultVars, historyVars>>

\* Mutant: the fired row is deleted by its receipt instead of its id.
DeleteFiredByReceipt ==
    /\ pc = "delete"
    /\ timers' = {t \in timers : t.receipt # current.receipt}
    /\ Goto("fire") /\ Released
    /\ UNCHANGED <<now, receipts, request, batch, cancelling, sweeping,
                   faultVars, historyVars>>

DeleteFired ==
    /\ pc = "delete"
    /\ timers' = {t \in timers : t.id # current.id}
    /\ Goto("fire") /\ Released
    /\ UNCHANGED <<now, receipts, request, batch, cancelling, sweeping,
                   faultVars, historyVars>>

\* Any error a handler or the store returns ends Run: the goroutine is gone
\* until the process restarts, the rows it had claimed stay claimed.
EngineStops ==
    /\ Goto("dead")
    /\ batch' = {}
    /\ Released
    /\ UNCHANGED <<now, receipts, timers, request, cancelling, sweeping,
                   crashes, historyVars>>

\* The receipt's row is gone when the handler reads it, or refers to it.
ReceiptGone ==
    \/ pc = "fire" /\ \E t \in batch : ~Exists(t.receipt)
    \/ pc \in {"redeliver", "recheck"} /\ ~Exists(current.receipt)
    \/ pc = "schedule" /\ ~CanInsertTimer(current.receipt)

\* Mutant: the error is logged and the loop goes on to the next poll.
EnginePollsOn ==
    /\ ReceiptGone
    /\ Goto("poll") /\ Released
    /\ batch' = {}
    /\ UNCHANGED <<now, receipts, timers, request, cancelling, sweeping,
                   faultVars, historyVars>>

EngineMissesReceipt ==
    /\ ReceiptGone
    /\ EngineStops
    /\ UNCHANGED errors

\* A database call fails.
EngineError ==
    /\ pc \notin {"down", "dead"}
    /\ errors < MaxErrors
    /\ errors' = errors + 1
    /\ EngineStops

-----------------------------------------------------------------------------
(* The recipients and the owning application.                              *)

\* POST acknowledge.json: a conditional UPDATE; on a closed receipt a no-op.
Acknowledge(r) ==
    /\ Up /\ Open(r)
    /\ receipts' = Closed(r, "acknowledged", now)
    /\ UNCHANGED <<now, timers, request, engineVars, cancelling, sweeping,
                   faultVars, historyVars>>

\* POST cancel.json, and each id of cancel_by_tag.json: a conditional UPDATE ...
CancelPending(r) ==
    /\ Up /\ receipts[r].state = "pending"
    /\ receipts' = Closed(r, "canceled", now)
    /\ cancelling' = cancelling \cup {r}
    /\ UNCHANGED <<now, timers, request, engineVars, sweeping, faultVars,
                   historyVars>>

\* ... then the receipt's timers are deleted, in a second statement ...
DeleteTimers(r) ==
    /\ r \in cancelling
    /\ timers' = {t \in timers : t.receipt # r}
    /\ cancelling' = cancelling \ {r}
    /\ UNCHANGED <<now, receipts, request, engineVars, sweeping, faultVars,
                   historyVars>>

\* ... whose failure is swallowed.
DeleteTimersFails(r) ==
    /\ r \in cancelling
    /\ errors < MaxErrors
    /\ errors' = errors + 1
    /\ cancelling' = cancelling \ {r}
    /\ UNCHANGED <<now, receipts, timers, request, engineVars, sweeping,
                   crashes, historyVars>>

-----------------------------------------------------------------------------
(* Receipt garbage collection.                                             *)

\* Mutant: a receipt that is still open goes as soon as it has expired.
EligibleAtExpiry(r) ==
    \/ Terminal(r) /\ receipts[r].closed_at + Retention <= now
    \/ /\ Open(r) /\ receipts[r].expires_at > 0
       /\ receipts[r].expires_at <= now

\* The closing instant, or for a receipt still open its requested expiry, is
\* at least Retention old.
Eligible(r) ==
    \/ Terminal(r) /\ receipts[r].closed_at + Retention <= now
    \/ /\ Open(r) /\ receipts[r].expires_at > 0
       /\ receipts[r].expires_at + Retention <= now

SelectEligible ==
    /\ Up /\ sweeping = {}
    /\ \E r \in Receipts : Eligible(r)
    /\ sweeping' = {r \in Receipts : Eligible(r)}
    /\ UNCHANGED <<now, receipts, timers, request, engineVars, cancelling,
                   faultVars, historyVars>>

\* One transaction deletes the selected ids: timers first, then the receipts.
DeleteSelected ==
    /\ sweeping # {}
    /\ timers' = {t \in timers : t.receipt \notin sweeping}
    /\ receipts' = [r \in Receipts |-> IF r \in sweeping
                                       THEN [receipts[r] EXCEPT !.state = "swept"]
                                       ELSE receipts[r]]
    /\ sweeping' = {}
    /\ UNCHANGED <<now, request, engineVars, cancelling, faultVars, historyVars>>

-----------------------------------------------------------------------------
(* The environment.                                                        *)

ClockTick ==
    /\ now < MaxTime
    /\ now' = now + 1
    /\ UNCHANGED <<receipts, timers, request, engineVars, cancelling, sweeping,
                   faultVars, historyVars>>

\* kill -9: every goroutine is lost, the tables stay.
Crash ==
    /\ Up /\ crashes < MaxCrashes
    /\ crashes' = crashes + 1
    /\ Goto("down") /\ Released
    /\ batch' = {}
    /\ request' = [r \in Receipts |-> IF request[r] = "ingested" THEN "unseeded"
                                      ELSE request[r]]
    /\ cancelling' = {} /\ sweeping' = {}
    /\ UNCHANGED <<now, receipts, timers, errors, historyVars>>

Restart ==
    /\ pc = "down"
    /\ Goto("recover")
    /\ UNCHANGED <<now, receipts, timers, request, batch, current, attempt,
                   tick_now, cancelling, sweeping, faultVars, historyVars>>

-----------------------------------------------------------------------------
Init ==
    /\ now = 0
    /\ receipts = [r \in Receipts |-> NoReceipt]
    /\ timers = {}
    /\ request = [r \in Receipts |-> "new"]
    /\ pc = "recover" /\ batch = {} /\ current = NoTimer
    /\ attempt = 0 /\ tick_now = 0
    /\ cancelling = {} /\ sweeping = {}
    /\ crashes = 0 /\ errors = 0
    /\ published = [r \in Receipts |-> 0]
    /\ late = [r \in Receipts |-> 0]

EngineStep ==
    \/ Recover \/ Claim \/ FireDone \/ Tick
    \/ SetExpired \/ Redeliver \/ IncrementRetry \/ Recheck \/ ScheduleNext
    \/ DeleteFired \/ EngineMissesReceipt

Next ==
    \/ \E r \in Receipts, e \in RequestedExpires : Ingest(r, e)
    \/ \E r \in Receipts : \/ SeedRetry(r) \/ SeedRetryFails(r)
                           \/ Acknowledge(r) \/ CancelPending(r)
                           \/ DeleteTimers(r) \/ DeleteTimersFails(r)
    \/ EngineStep \/ EngineError
    \/ SelectEligible \/ DeleteSelected
    \/ ClockTick \/ Crash \/ Restart

Spec == Init /\ [][Next]_vars

\* The goroutine is scheduled, time goes on, and a dead process is restarted
\* (the deployment's supervisor does).  Clients owe nothing.
Fairness == WF_vars(EngineStep) /\ WF_vars(ClockTick) /\ WF_vars(Restart)

FairSpec == Spec /\ Fairness

-----------------------------------------------------------------------------
(* Properties.                                                             *)

Handling == {"expire", "redeliver", "increment", "recheck", "schedule", "delete"}
Running  == pc \notin {"down", "dead", "recover"}

\* Every variable has its type; the engine has a timer in hand exactly while
\* it handles one (Fire and the retry handler of timers/).
TypeOK ==
    /\ now \in Nat
    /\ receipts \in [Receipts -> ReceiptRow]
    /\ timers \subseteq TimerRow
    /\ request \in [Receipts -> {"new", "ingested", "seeded", "unseeded"}]
    /\ pc \in {"down", "recover", "poll", "fire", "dead"} \cup Handling
    /\ batch \subseteq TimerRow
    /\ current \in TimerRow \cup {NoTimer}
    /\ pc \in Handling <=> current \in TimerRow
    /\ attempt \in Nat /\ tick_now \in Nat
    /\ cancelling \subseteq Receipts /\ sweeping \subseteq Receipts
    /\ crashes \in Nat /\ errors \in Nat
    /\ published \in [Receipts -> Nat] /\ late \in [Receipts -> Nat]

\* The receipts behave as the state machine of internal/receipts promises, and
\* at most MaxAttempts attempts are ever counted, whatever the interleaving of
\* engine, acknowledgement, cancel, garbage collection and crashes.
Lifecycle == INSTANCE ReceiptLifecycle WITH
    state       <- [r \in Receipts |-> receipts[r].state],
    retry_count <- [r \in Receipts |-> receipts[r].retry_count]

ImplementsLifecycle == Lifecycle!Spec

\* No alert is lost by the engine: an open receipt whose first timer was seeded
\* always has a timer row, through every claim, crash, failed call and cancel
\* (timers/retry.go: the next row is written before the fired one goes).
AlertKeepsTimer ==
    \A r \in Receipts :
        request[r] = "seeded" /\ Open(r) => \E t \in timers : t.receipt = r

\* While the engine runs, a claimed row is one it is about to fire or firing:
\* nothing waits for the next restart (timers/engine.go Fire, Poll, Run).
ClaimsHeld ==
    Running => \A t \in timers :
        t.claimed => \/ \E b \in batch : b.id = t.id
                     \/ current.id = t.id

\* A receipt has one timer row, one more while the fired row waits for its
\* deletion, and at most one more for each crash or failed call: the chains a
\* crash between the two writes leaves never multiply (timers/retry.go).
TimersBounded ==
    \A r \in Receipts :
        Cardinality({t \in timers : t.receipt = r}) <= 1 + crashes + errors
            + (IF pc = "delete" /\ current.receipt = r THEN 1 ELSE 0)

\* With foreign keys enforced no timer outlives its receipt: the collector and
\* the engine cannot leave an orphan between them (migrations/0001_init.up.sql).
TimersReferenceReceipts == \A t \in timers : Exists(t.receipt)

\* A closed receipt is redelivered at most once more: the tick that read it
\* open may still publish, no later one does (receipts/scheduler.go Tick).
AtMostOneLateRedelivery == \A r \in Receipts : late[r] <= 1

\* Redeliveries of an open receipt exceed the counted attempts only by one per
\* crash or failed call, and by the one in progress (publish before count).
RedeliveriesCounted ==
    \A r \in Receipts : Open(r) =>
        published[r] <= receipts[r].retry_count + crashes + errors
            + (IF pc = "increment" /\ current.receipt = r THEN 1 ELSE 0)

\* The attempts never run ahead of the retry interval, even when a crash has
\* left two timers for one receipt (receipts/scheduler.go NextRetryAt).
PaceKept ==
    \A r \in Receipts : receipts[r].retry_count > 0 =>
        now >= NextRetryAt(r, receipts[r].retry_count - 1)

\* An alert is expired only after its window or its last attempt, although the
\* decision and its UPDATE are separate steps (receipts/scheduler.go ExpiredAt).
NoEarlyExpiry ==
    \A r \in Receipts : receipts[r].state = "expired" =>
        \/ receipts[r].retry_count >= MaxAttempts
        \/ receipts[r].closed_at >= receipts[r].created_at + Expire

\* A receipt row goes only when its closing instant or its requested expiry is
\* Retention old, although the ids were selected in an earlier step and the
\* receipt may have changed since (store/sqlite/receipt_gc.go).
SweptAfterRetention ==
    [][\A r \in Receipts : Exists(r) /\ receipts'[r].state = "swept" =>
        \/ Terminal(r) /\ receipts[r].closed_at + Retention <= now
        \/ /\ receipts[r].expires_at > 0
           /\ receipts[r].expires_at + Retention <= now]_vars

\* Every seeded alert ends: acknowledged, canceled, expired or swept, across
\* crashes, unless a database call fails (timers/engine.go Run, retry.go).
AlertEventuallyCloses ==
    \A r \in Receipts : request[r] = "seeded" /\ Open(r) ~> ~Open(r) \/ errors > 0

-----------------------------------------------------------------------------
(* What the documentation says and the program does not do.                *)

\* api/messages.go: expires_at "is set so the retry scheduler ... know[s] when
\* to expire it": no attempt is started at or after the requested expiry.
RequestedExpireObeyed ==
    [][\A t \in batch : TickRetry(t) /\ receipts[t.receipt].expires_at > 0 =>
        now < receipts[t.receipt].expires_at]_vars

\* api/messages.go: when seeding fails "the receipt row exists and the timer
\* engine's Recover scan ... will pick it up": once the engine has recovered, an
\* open receipt whose request is over has a timer.
RecoverPicksUpUnseeded ==
    pc = "poll" => \A r \in Receipts :
        Open(r) /\ request[r] # "ingested" => \E t \in timers : t.receipt = r

\* timers/engine.go Run: "Recover once at startup, then Poll every interval until
\* ctx is cancelled": with no failing call the goroutine never ends.
EngineKeepsPolling == pc # "dead"
=============================================================================
