--------------------------- MODULE CallbackWorker ---------------------------
(***************************************************************************)
(* Webhook callbacks for emergency receipts: the acknowledge handlers that *)
(* enqueue a callback, the worker goroutine that lists the due ones and    *)
(* attempts each in a goroutine of its own, the receiver, and the receipt  *)
(* collector that deletes callbacks with their receipt.                    *)
(*                                                                         *)
(* One action is one database statement or transaction, one HTTP exchange, *)
(* or one semaphore acquisition.                                           *)
(***************************************************************************)
EXTENDS Naturals, FiniteSets

CONSTANTS
    Receipts,       \* receipt ids
    Handlers,       \* concurrent acknowledge requests
    NoHost,         \* "the send has no callback_url"
    HostOf,         \* per receipt: host:port of its send's callback_url
    HostConcurrency, \* Options.HostConcurrency (4)
    DueLimit,       \* Options.DueLimit (100)
    RetryInterval,  \* Options.RetryInterval (60s)
    Retention,      \* receipt GC window (7 days)
    MaxCallbacks,   \* bound: callback rows ever inserted
    MaxTime,        \* bound: last instant of the clock
    MaxFaults,      \* bound: crashes, failed database calls and lost answers
    MaxRefusals     \* bound: attempts the receiver does not answer with 2xx

ASSUME CallbackAssumption ==
    /\ Receipts # {}
    /\ HostConcurrency \in Nat \ {0}
    /\ DueLimit \in Nat \ {0}
    /\ RetryInterval \in Nat \ {0}
    /\ Retention \in Nat
    /\ MaxCallbacks \in Nat /\ MaxTime \in Nat
    /\ MaxFaults \in Nat /\ MaxRefusals \in Nat

CallbackIds == 1..MaxCallbacks

VARIABLES
    now,            \* the clock
    receipts,       \* table receipts: state, closing instant, called_back_at set
    handler,        \* acknowledge requests: where each is, and its receipt
    callbacks,      \* table callbacks, one record per id ever given
    dlq,            \* table dlq: rows per callback id
    job,            \* the worker's goroutines: one per callback being attempted
    up,             \* the server process is running
    sweeping,       \* receipts the collector selected and did not delete yet
    faults, refusals, \* history: faults so far
    accepted,       \* history: POSTs the receiver took with 2xx, per callback
    failed_at       \* history: instant of the last recorded failure

historyVars == <<accepted, failed_at>>
vars == <<now, receipts, handler, callbacks, dlq, job, up, sweeping, faults,
          refusals, historyVars>>

-----------------------------------------------------------------------------
Closed == {"acknowledged", "expired", "canceled"}

ReceiptRow == [state: {"open", "swept"} \cup Closed, closed_at: Nat,
               called_back: BOOLEAN]

\* "none": no row was given this id yet; "deleted": swept with its receipt.
CallbackRow == [state: {"none", "pending", "failed", "done", "deleted"},
                receipt: Receipts, next_attempt_at: Nat, attempts: Nat]

\* attempts is the value ListDue read.
JobState == [step: {"none", "wait", "load", "post", "mark", "fail", "log"},
             attempts: Nat]

HandlerState == [step: {"idle", "enqueue", "insert"}, receipt: Receipts]

NoJob == [step |-> "none", attempts |-> 0]

Exists(r)  == receipts[r].state # "swept"
Stored(i)  == callbacks[i].state \in {"pending", "failed", "done"}
HostAt(i)  == HostOf[callbacks[i].receipt]
Running(i) == job[i].step \notin {"none", "wait"}
InFlight(host) == {i \in CallbackIds : Running(i) /\ HostAt(i) = host}

Goto(i, step) == job' = [job EXCEPT ![i].step = step]
Finish(i)     == job' = [job EXCEPT ![i] = NoJob]

Fault == faults < MaxFaults /\ faults' = faults + 1

-----------------------------------------------------------------------------
(* POST acknowledge.json: a conditional UPDATE, then the callback hook.    *)

\* On a closed receipt the UPDATE changes nothing; the hook is called anyway.
Acknowledge(h, r) ==
    /\ up /\ handler[h].step = "idle" /\ Exists(r)
    /\ receipts' = IF receipts[r].state = "open"
                   THEN [receipts EXCEPT ![r].state = "acknowledged",
                                         ![r].closed_at = now]
                   ELSE receipts
    /\ handler' = [handler EXCEPT ![h] = [step |-> "enqueue", receipt |-> r]]
    /\ UNCHANGED <<now, callbacks, dlq, job, up, sweeping, faults, refusals,
                   historyVars>>

Leave(h) == handler' = [handler EXCEPT ![h].step = "idle"]

\* OnAcknowledged: no receipt, no callback_url or a url the SSRF gate refuses
\* (it resolves the name anew, so the verdict may differ each time): no row.
\* A failed read or insert is logged and ends the hook too.
EnqueueNothing(h) ==
    /\ handler[h].step # "idle"
    /\ Leave(h)
    /\ UNCHANGED <<now, receipts, callbacks, dlq, job, up, sweeping, faults,
                   refusals, historyVars>>

LoadTarget(h) ==
    /\ handler[h].step = "enqueue"
    /\ Exists(handler[h].receipt) /\ HostOf[handler[h].receipt] # NoHost
    /\ handler' = [handler EXCEPT ![h].step = "insert"]
    /\ UNCHANGED <<now, receipts, callbacks, dlq, job, up, sweeping, faults,
                   refusals, historyVars>>

\* INSERT INTO callbacks, due at once; ids are given in order and never again.
CreateCallback(h) ==
    /\ handler[h].step = "insert"
    /\ \E i \in CallbackIds :
        /\ \A j \in CallbackIds : callbacks[j].state = "none" <=> j >= i
        /\ callbacks' = [callbacks EXCEPT ![i] =
                [state |-> "pending", receipt |-> handler[h].receipt,
                 next_attempt_at |-> now, attempts |-> 0]]
    /\ Leave(h)
    /\ UNCHANGED <<now, receipts, dlq, job, up, sweeping, faults, refusals,
                   historyVars>>

\* The retry engine or a cancel closes the receipt.
Close(r, s) ==
    /\ up /\ receipts[r].state = "open"
    /\ receipts' = [receipts EXCEPT ![r].state = s, ![r].closed_at = now]
    /\ UNCHANGED <<now, handler, callbacks, dlq, job, up, sweeping, faults,
                   refusals, historyVars>>

-----------------------------------------------------------------------------
(* The worker: Run = ProcessDue on every tick, one at a time.              *)

Idle == \A i \in CallbackIds : job[i].step = "none"

\* Mutant: only rows never attempted are listed.
DueNeverTried == {i \in CallbackIds : /\ callbacks[i].state = "pending"
                                      /\ callbacks[i].next_attempt_at <= now}

\* Mutant: the query asks for nothing but the date.
DueInAnyState == {i \in CallbackIds : callbacks[i].next_attempt_at <= now}

Due == {i \in CallbackIds : /\ callbacks[i].state \in {"pending", "failed"}
                            /\ callbacks[i].next_attempt_at <= now}

Earlier(i, j) ==
    \/ callbacks[i].next_attempt_at < callbacks[j].next_attempt_at
    \/ callbacks[i].next_attempt_at = callbacks[j].next_attempt_at /\ i < j

\* ListDue: the first DueLimit due rows, each given a goroutine.
ListDue ==
    /\ up /\ Idle
    /\ \E C \in SUBSET Due :
        /\ C # {}
        /\ Cardinality(C) <= DueLimit
        /\ C = Due \/ Cardinality(C) = DueLimit
        /\ \A i \in C, j \in Due \ C : Earlier(i, j)
        /\ job' = [i \in CallbackIds |->
                     IF i \in C THEN [step |-> "wait",
                                      attempts |-> callbacks[i].attempts]
                     ELSE NoJob]
    /\ UNCHANGED <<now, receipts, handler, callbacks, dlq, up, sweeping, faults,
                   refusals, historyVars>>

\* The per-host semaphore.
Acquire(i) ==
    /\ job[i].step = "wait"
    /\ Cardinality(InFlight(HostAt(i))) < HostConcurrency
    /\ Goto(i, "load")
    /\ UNCHANGED <<now, receipts, handler, callbacks, dlq, up, sweeping, faults,
                   refusals, historyVars>>

\* attempt reads the receipt for the body; a receipt that is gone is a failure.
LoadBody(i) ==
    /\ job[i].step = "load"
    /\ Goto(i, IF Exists(callbacks[i].receipt) THEN "post" ELSE "fail")
    /\ UNCHANGED <<now, receipts, handler, callbacks, dlq, up, sweeping, faults,
                   refusals, historyVars>>

LoadBodyFails(i) ==
    /\ job[i].step = "load"
    /\ Fault
    /\ Goto(i, "fail")
    /\ UNCHANGED <<now, receipts, handler, callbacks, dlq, up, sweeping, refusals,
                   historyVars>>

PostAccepted(i) ==
    /\ job[i].step = "post"
    /\ accepted' = [accepted EXCEPT ![i] = @ + 1]
    /\ Goto(i, "mark")
    /\ UNCHANGED <<now, receipts, handler, callbacks, dlq, up, sweeping, faults,
                   refusals, failed_at>>

\* The receiver took the POST, its answer did not come within RequestTimeout.
PostAnswerLost(i) ==
    /\ job[i].step = "post"
    /\ Fault
    /\ accepted' = [accepted EXCEPT ![i] = @ + 1]
    /\ Goto(i, "fail")
    /\ UNCHANGED <<now, receipts, handler, callbacks, dlq, up, sweeping, refusals,
                   failed_at>>

\* Non-2xx, transport error or a redirect the SSRF gate blocks.
PostRefused(i) ==
    /\ job[i].step = "post"
    /\ refusals < MaxRefusals /\ refusals' = refusals + 1
    /\ Goto(i, "fail")
    /\ UNCHANGED <<now, receipts, handler, callbacks, dlq, up, sweeping, faults,
                   historyVars>>

\* Mutant: called_back_at is left to a later write.
MarkDoneForgetsReceipt(i) ==
    /\ job[i].step = "mark"
    /\ callbacks' = IF Stored(i) THEN [callbacks EXCEPT ![i].state = "done"]
                    ELSE callbacks
    /\ Finish(i)
    /\ UNCHANGED <<now, receipts, handler, dlq, up, sweeping, faults, refusals,
                   historyVars>>

\* Mutant: the row keeps its state and stays due.
MarkDoneKeepsRow(i) ==
    /\ job[i].step = "mark"
    /\ receipts' = IF Exists(callbacks[i].receipt)
                   THEN [receipts EXCEPT ![callbacks[i].receipt].called_back = TRUE]
                   ELSE receipts
    /\ Finish(i)
    /\ UNCHANGED <<now, callbacks, handler, dlq, up, sweeping, faults, refusals,
                   historyVars>>

\* One transaction over both tables; on rows that are gone it changes nothing.
MarkDone(i) ==
    /\ job[i].step = "mark"
    /\ callbacks' = IF Stored(i) THEN [callbacks EXCEPT ![i].state = "done"]
                    ELSE callbacks
    /\ receipts' = IF Exists(callbacks[i].receipt)
                   THEN [receipts EXCEPT ![callbacks[i].receipt].called_back = TRUE]
                   ELSE receipts
    /\ Finish(i)
    /\ UNCHANGED <<now, handler, dlq, up, sweeping, faults, refusals, historyVars>>

\* Mutant: the next attempt is due at once.
MarkFailedDueNow(i) ==
    /\ job[i].step = "fail"
    /\ callbacks' = IF Stored(i)
                    THEN [callbacks EXCEPT ![i].state = "failed",
                                           ![i].attempts = job[i].attempts + 1,
                                           ![i].next_attempt_at = now]
                    ELSE callbacks
    /\ failed_at' = [failed_at EXCEPT ![i] = now]
    /\ Goto(i, "log")
    /\ UNCHANGED <<now, receipts, handler, dlq, up, sweeping, faults, refusals,
                   accepted>>

\* Mutant: the attempt is not counted.
MarkFailedUncounted(i) ==
    /\ job[i].step = "fail"
    /\ callbacks' = IF Stored(i)
                    THEN [callbacks EXCEPT ![i].state = "failed",
                                    ![i].next_attempt_at = now + RetryInterval]
                    ELSE callbacks
    /\ failed_at' = [failed_at EXCEPT ![i] = now]
    /\ Goto(i, "log")
    /\ UNCHANGED <<now, receipts, handler, dlq, up, sweeping, faults, refusals,
                   accepted>>

\* The count is the one ListDue read, plus one.
MarkFailed(i) ==
    /\ job[i].step = "fail"
    /\ callbacks' = IF Stored(i)
                    THEN [callbacks EXCEPT ![i].state = "failed",
                                    ![i].attempts = job[i].attempts + 1,
                                    ![i].next_attempt_at = now + RetryInterval]
                    ELSE callbacks
    /\ failed_at' = [failed_at EXCEPT ![i] = now]
    /\ Goto(i, "log")
    /\ UNCHANGED <<now, receipts, handler, dlq, up, sweeping, faults, refusals,
                   accepted>>

RecordDLQ(i) ==
    /\ job[i].step = "log"
    /\ dlq' = [dlq EXCEPT ![i] = @ + 1]
    /\ Finish(i)
    /\ UNCHANGED <<now, receipts, handler, callbacks, up, sweeping, faults,
                   refusals, historyVars>>

\* A write fails: it is logged and the goroutine ends.
RecordFails(i) ==
    /\ job[i].step \in {"mark", "fail", "log"}
    /\ Fault
    /\ Finish(i)
    /\ UNCHANGED <<now, receipts, handler, callbacks, dlq, up, sweeping, refusals,
                   historyVars>>

-----------------------------------------------------------------------------
(* Receipt collection, the clock, crashes.                                 *)

\* Closed for a retention, or still open that long after expires_at, which is
\* not modelled: any open receipt may be past it.  Its acknowledgement may come
\* between selection and deletion.
SelectEligible ==
    \E overdue \in SUBSET {r \in Receipts : /\ receipts[r].state = "open"
                                            /\ Retention <= now} :
        /\ up /\ sweeping = {}
        /\ sweeping' = overdue \cup {r \in Receipts :
                           /\ receipts[r].state \in Closed
                           /\ receipts[r].closed_at + Retention <= now}
        /\ sweeping' # {}
        /\ UNCHANGED <<now, receipts, handler, callbacks, dlq, job, up, faults,
                       refusals, historyVars>>

\* One transaction: dlq, callbacks, then receipts.
DeleteSelected ==
    LET gone == {i \in CallbackIds : /\ Stored(i)
                                     /\ callbacks[i].receipt \in sweeping}
    IN  /\ sweeping # {}
        /\ dlq' = [i \in CallbackIds |-> IF i \in gone THEN 0 ELSE dlq[i]]
        /\ callbacks' = [i \in CallbackIds |->
                           IF i \in gone
                           THEN [callbacks[i] EXCEPT !.state = "deleted"]
                           ELSE callbacks[i]]
        /\ receipts' = [r \in Receipts |->
                          IF r \in sweeping
                          THEN [receipts[r] EXCEPT !.state = "swept"]
                          ELSE receipts[r]]
        /\ sweeping' = {}
        /\ UNCHANGED <<now, handler, job, up, faults, refusals, historyVars>>

ClockTick ==
    /\ now < MaxTime
    /\ now' = now + 1
    /\ UNCHANGED <<receipts, handler, callbacks, dlq, job, up, sweeping, faults,
                   refusals, historyVars>>

Crash ==
    /\ up /\ Fault
    /\ up' = FALSE
    /\ handler' = [h \in Handlers |-> [handler[h] EXCEPT !.step = "idle"]]
    /\ job' = [i \in CallbackIds |-> NoJob]
    /\ sweeping' = {}
    /\ UNCHANGED <<now, receipts, callbacks, dlq, refusals, historyVars>>

Restart ==
    /\ ~up /\ up' = TRUE
    /\ UNCHANGED <<now, receipts, handler, callbacks, dlq, job, sweeping, faults,
                   refusals, historyVars>>

-----------------------------------------------------------------------------
AnyReceipt == CHOOSE r \in Receipts : TRUE

Init ==
    /\ now = 0
    /\ receipts = [r \in Receipts |-> [state |-> "open", closed_at |-> 0,
                                       called_back |-> FALSE]]
    /\ handler = [h \in Handlers |-> [step |-> "idle", receipt |-> AnyReceipt]]
    /\ callbacks = [i \in CallbackIds |->
                      [state |-> "none", receipt |-> AnyReceipt,
                       next_attempt_at |-> 0, attempts |-> 0]]
    /\ dlq = [i \in CallbackIds |-> 0]
    /\ job = [i \in CallbackIds |-> NoJob]
    /\ up = TRUE
    /\ sweeping = {}
    /\ faults = 0 /\ refusals = 0
    /\ accepted = [i \in CallbackIds |-> 0]
    /\ failed_at = [i \in CallbackIds |-> 0]

\* What the worker does of its own accord when nothing fails.
WorkerStep ==
    \/ ListDue
    \/ \E i \in CallbackIds : \/ Acquire(i) \/ LoadBody(i) \/ PostAccepted(i)
                              \/ MarkDone(i) \/ MarkFailed(i) \/ RecordDLQ(i)

Next ==
    \/ \E h \in Handlers, r \in Receipts : Acknowledge(h, r)
    \/ \E h \in Handlers : EnqueueNothing(h) \/ LoadTarget(h) \/ CreateCallback(h)
    \/ \E r \in Receipts, s \in {"expired", "canceled"} : Close(r, s)
    \/ WorkerStep
    \/ \E i \in CallbackIds : \/ LoadBodyFails(i) \/ PostAnswerLost(i)
                              \/ PostRefused(i) \/ RecordFails(i)
    \/ SelectEligible \/ DeleteSelected
    \/ ClockTick \/ Crash \/ Restart

Spec == Init /\ [][Next]_vars

\* The goroutines run, time passes, a dead process is restarted.
FairSpec == Spec /\ WF_vars(WorkerStep) /\ WF_vars(ClockTick) /\ WF_vars(Restart)

-----------------------------------------------------------------------------
(* Properties.                                                             *)

\* Every variable has its type; only a row that was given can be attempted or
\* accepted (callbacks/worker.go attempts rows ListDue returned).
TypeOK ==
    /\ now \in Nat
    /\ receipts \in [Receipts -> ReceiptRow]
    /\ handler \in [Handlers -> HandlerState]
    /\ callbacks \in [CallbackIds -> CallbackRow]
    /\ dlq \in [CallbackIds -> Nat]
    /\ job \in [CallbackIds -> JobState]
    /\ up \in BOOLEAN
    /\ sweeping \subseteq Receipts
    /\ faults \in Nat /\ refusals \in Nat
    /\ accepted \in [CallbackIds -> Nat] /\ failed_at \in [CallbackIds -> Nat]
    /\ \A i \in CallbackIds : callbacks[i].state = "none" =>
            job[i] = NoJob /\ accepted[i] = 0 /\ dlq[i] = 0

\* A callback is done, and its receipt reports called_back, only when a POST was
\* accepted, and both are told together (store/sqlite/callback_worker.go MarkDone).
DoneWasAccepted ==
    /\ \A i \in CallbackIds : callbacks[i].state = "done" =>
            /\ accepted[i] > 0
            /\ Exists(callbacks[i].receipt) => receipts[callbacks[i].receipt].called_back
    /\ \A r \in Receipts : receipts[r].called_back =>
            \E i \in CallbackIds : callbacks[i].receipt = r /\ accepted[i] > 0

\* The receiver gets a callback again only after a crash, a failed write or an
\* answer that was lost: once each (callbacks/worker.go attempt).
DuplicatesNeedFaults == \A i \in CallbackIds : accepted[i] <= 1 + faults

\* While a callback that failed is attempted again, at least RetryInterval has
\* gone by since, over crashes and the wait for the semaphore (worker.go fail).
RetryPaced ==
    \A i \in CallbackIds :
        job[i].step \in {"wait", "load", "post"} /\ callbacks[i].state = "failed" =>
            now >= failed_at[i] + RetryInterval

\* The attempts a row counts and its dead letters differ by the faults and the
\* letter still to be written (worker.go fail: MarkFailed, then RecordDLQ).
AttemptsLogged ==
    \A i \in CallbackIds : Stored(i) =>
        /\ dlq[i] <= callbacks[i].attempts
        /\ callbacks[i].attempts <= dlq[i] + faults
               + (IF job[i].step = "log" THEN 1 ELSE 0)

\* Every callback of a receipt that is still there is delivered in the end, or
\* goes with its receipt: retry is never given up (worker.go attempt).  The
\* refusals and faults are bounded; an attempt put off beyond MaxTime is not
\* waited for.
CallbackSettles ==
    \A i \in CallbackIds :
        /\ callbacks[i].state \in {"pending", "failed"}
        /\ Exists(callbacks[i].receipt)
        /\ callbacks[i].next_attempt_at <= MaxTime
        ~> \/ callbacks[i].state \in {"done", "deleted"}
           \/ callbacks[i].next_attempt_at > MaxTime

-----------------------------------------------------------------------------
(* What the documentation says and the program does not do.                *)

\* api/receipts.go: the hook "is invoked after a receipt transitions to
\* acknowledged": a callback row belongs to a receipt that was acknowledged.
CallbackOnlyForAcknowledged ==
    \A i \in CallbackIds : Stored(i) =>
        receipts[callbacks[i].receipt].state \in {"acknowledged", "swept"}
=============================================================================
