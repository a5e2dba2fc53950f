------------------------ MODULE CallbackWorkerProofs ------------------------
(***************************************************************************)
(* Theorems about CallbackWorker, for every value of its constants.        *)
(***************************************************************************)
EXTENDS CallbackWorker, TLAPS

-----------------------------------------------------------------------------
(* Typing.                                                                 *)

\* The initial state is well typed.
LEMMA InitType == Init => TypeOK
<1>1. AnyReceipt \in Receipts
  BY CallbackAssumption DEF AnyReceipt
<1> QED
  BY <1>1 DEF Init, TypeOK, ReceiptRow, HandlerState, CallbackRow, JobState, NoJob

\* A step of a goroutine moves the job to a step of the list.
LEMMA GotoType ==
    ASSUME TypeOK, NEW i \in CallbackIds, NEW step, Goto(i, step),
           step \in {"none", "wait", "load", "post", "mark", "fail", "log"}
    PROVE  /\ job' \in [CallbackIds -> JobState]
           /\ job' = [job EXCEPT ![i] = job'[i]]
           /\ job'[i].step = step /\ job'[i].attempts = job[i].attempts
  BY DEF TypeOK, Goto, JobState

\* A goroutine that ends leaves no job.
LEMMA FinishType ==
    ASSUME TypeOK, NEW i \in CallbackIds, Finish(i)
    PROVE  /\ job' \in [CallbackIds -> JobState]
           /\ job' = [job EXCEPT ![i] = job'[i]]
           /\ job'[i] = NoJob
  BY DEF TypeOK, Finish, JobState, NoJob

\* What MarkFailed makes of a row that is there.
LEMMA FailedRow ==
    ASSUME TypeOK, NEW i \in CallbackIds, MarkFailed(i)
    PROVE  /\ callbacks' \in [CallbackIds -> CallbackRow]
           /\ \A j \in CallbackIds :
                /\ callbacks'[j].receipt = callbacks[j].receipt
                /\ j # i \/ ~Stored(i) => callbacks'[j] = callbacks[j]
           /\ Stored(i) =>
                /\ callbacks'[i].state = "failed"
                /\ callbacks'[i].attempts = job[i].attempts + 1
                /\ callbacks'[i].next_attempt_at = now + RetryInterval
<1> DEFINE row == [callbacks[i] EXCEPT !.state = "failed",
                                       !.attempts = job[i].attempts + 1,
                                       !.next_attempt_at = now + RetryInterval]
<1>1. callbacks \in [CallbackIds -> CallbackRow] /\ callbacks[i] \in CallbackRow
  BY DEF TypeOK
<1>2. job[i].attempts + 1 \in Nat /\ now + RetryInterval \in Nat
  BY CallbackAssumption DEF TypeOK, JobState
<1>3. /\ row \in CallbackRow
      /\ row.state = "failed" /\ row.receipt = callbacks[i].receipt
      /\ row.attempts = job[i].attempts + 1
      /\ row.next_attempt_at = now + RetryInterval
  BY <1>1, <1>2 DEF CallbackRow
<1>4. callbacks' = IF Stored(i) THEN [callbacks EXCEPT ![i] = row] ELSE callbacks
  BY DEF MarkFailed
<1> HIDE DEF row
<1> QED
  BY <1>1, <1>3, <1>4

\* Every step keeps the types.
LEMMA NextType == TypeOK /\ [Next]_vars => TypeOK'
<1> SUFFICES ASSUME TypeOK, [Next]_vars PROVE TypeOK'
  OBVIOUS
<1> USE CallbackAssumption DEF TypeOK, historyVars
<1>1. ASSUME NEW h \in Handlers, NEW r \in Receipts, Acknowledge(h, r)
      PROVE  TypeOK'
  <2>1. receipts' \in [Receipts -> ReceiptRow]
    <3>1. receipts' = receipts \/ receipts' = [receipts EXCEPT ![r] =
             [receipts[r] EXCEPT !.state = "acknowledged", !.closed_at = now]]
      BY <1>1 DEF Acknowledge
    <3>2. [receipts[r] EXCEPT !.state = "acknowledged", !.closed_at = now] \in ReceiptRow
      BY DEF ReceiptRow, Closed
    <3> QED
      BY <3>1, <3>2
  <2>2. handler' \in [Handlers -> HandlerState]
    BY <1>1 DEF Acknowledge, HandlerState
  <2> QED
    BY <1>1, <2>1, <2>2 DEF Acknowledge
<1>2. ASSUME NEW h \in Handlers, EnqueueNothing(h) \/ LoadTarget(h)
      PROVE  TypeOK'
  BY <1>2 DEF EnqueueNothing, LoadTarget, Leave, HandlerState
<1>3. ASSUME NEW h \in Handlers, CreateCallback(h) PROVE TypeOK'
  <2>1. handler[h].receipt \in Receipts
    BY DEF HandlerState
  <2>2. handler' \in [Handlers -> HandlerState]
    BY <1>3 DEF CreateCallback, Leave, HandlerState
  <2>3. PICK i \in CallbackIds :
           callbacks' = [callbacks EXCEPT ![i] =
                [state |-> "pending", receipt |-> handler[h].receipt,
                 next_attempt_at |-> now, attempts |-> 0]]
    BY <1>3 DEF CreateCallback
  <2>4. callbacks' \in [CallbackIds -> CallbackRow]
    BY <2>1, <2>3 DEF CallbackRow
  <2>5. \A j \in CallbackIds : callbacks'[j].state = "none" =>
            callbacks[j].state = "none"
    BY <2>3
  <2> QED
    BY <1>3, <2>2, <2>4, <2>5 DEF CreateCallback
<1>4. ASSUME NEW r \in Receipts, NEW s \in {"expired", "canceled"}, Close(r, s)
      PROVE  TypeOK'
  <2>1. [receipts[r] EXCEPT !.state = s, !.closed_at = now] \in ReceiptRow
    BY <1>4 DEF ReceiptRow, Closed
  <2>2. receipts' \in [Receipts -> ReceiptRow]
    BY <1>4, <2>1 DEF Close
  <2> QED
    BY <1>4, <2>2 DEF Close
<1>5. CASE ListDue
  <2>1. PICK C \in SUBSET Due :
           job' = [i \in CallbackIds |->
                     IF i \in C THEN [step |-> "wait",
                                      attempts |-> callbacks[i].attempts]
                     ELSE NoJob]
    BY <1>5 DEF ListDue
  <2>2. job' \in [CallbackIds -> JobState]
    BY <2>1 DEF JobState, NoJob, CallbackRow
  <2>3. \A i \in CallbackIds : callbacks[i].state = "none" => job'[i] = NoJob
    BY <2>1 DEF Due
  <2> QED
    BY <1>5, <2>2, <2>3 DEF ListDue
<1>6. ASSUME NEW i \in CallbackIds, Acquire(i) \/ LoadBody(i)
      PROVE  TypeOK'
  <2>1. job[i].step # "none" /\ job' \in [CallbackIds -> JobState]
        /\ job' = [job EXCEPT ![i] = job'[i]]
    BY <1>6, GotoType DEF Acquire, LoadBody
  <2> QED
    BY <1>6, <2>1 DEF Acquire, LoadBody, NoJob
<1>7. ASSUME NEW i \in CallbackIds,
             PostAccepted(i) \/ PostAnswerLost(i) \/ PostRefused(i) \/ LoadBodyFails(i)
      PROVE  TypeOK'
  <2>1. job[i].step # "none" /\ job' \in [CallbackIds -> JobState]
        /\ job' = [job EXCEPT ![i] = job'[i]]
    BY <1>7, GotoType DEF PostAccepted, PostAnswerLost, PostRefused, LoadBodyFails
  <2> QED
    BY <1>7, <2>1 DEF PostAccepted, PostAnswerLost, PostRefused, LoadBodyFails,
                      Fault, NoJob
<1>8. ASSUME NEW i \in CallbackIds, MarkDone(i) PROVE TypeOK'
  <2>1. job[i].step # "none" /\ job' \in [CallbackIds -> JobState]
        /\ job' = [job EXCEPT ![i] = NoJob]
    BY <1>8, FinishType DEF MarkDone
  <2>2. callbacks[i].receipt \in Receipts
    BY DEF CallbackRow
  <2>3. receipts' \in [Receipts -> ReceiptRow]
    BY <1>8, <2>2 DEF MarkDone, ReceiptRow
  <2>4. /\ callbacks' \in [CallbackIds -> CallbackRow]
        /\ \A j \in CallbackIds : callbacks'[j].state = "none" =>
              callbacks[j].state = "none"
    BY <1>8 DEF MarkDone, CallbackRow
  <2>5. UNCHANGED <<now, handler, dlq, up, sweeping, faults, refusals, historyVars>>
    BY <1>8 DEF MarkDone
  <2> QED
    BY <2>1, <2>3, <2>4, <2>5 DEF NoJob
<1>9. ASSUME NEW i \in CallbackIds, MarkFailed(i) PROVE TypeOK'
  <2>1. job[i].step # "none" /\ job' \in [CallbackIds -> JobState]
        /\ job' = [job EXCEPT ![i] = job'[i]]
    BY <1>9, GotoType DEF MarkFailed
  <2>3. /\ callbacks' \in [CallbackIds -> CallbackRow]
        /\ \A j \in CallbackIds : callbacks'[j].state = "none" =>
              callbacks[j].state = "none"
    BY <1>9, FailedRow
  <2>4. failed_at' \in [CallbackIds -> Nat]
    BY <1>9 DEF MarkFailed
  <2>5. UNCHANGED <<now, receipts, handler, dlq, up, sweeping, faults, refusals,
                    accepted>>
    BY <1>9 DEF MarkFailed
  <2>6. \A j \in CallbackIds : callbacks'[j].state = "none" =>
            job'[j] = NoJob /\ accepted'[j] = 0 /\ dlq'[j] = 0
    BY <2>1, <2>3, <2>5 DEF NoJob
  <2> QED
    BY <2>1, <2>3, <2>4, <2>5, <2>6
<1>10. ASSUME NEW i \in CallbackIds, RecordDLQ(i) \/ RecordFails(i)
       PROVE  TypeOK'
  <2>1. job[i].step # "none" /\ job' \in [CallbackIds -> JobState]
        /\ job' = [job EXCEPT ![i] = NoJob]
    BY <1>10, FinishType DEF RecordDLQ, RecordFails
  <2> QED
    BY <1>10, <2>1 DEF RecordDLQ, RecordFails, Fault, NoJob
<1>11. CASE SelectEligible
  BY <1>11 DEF SelectEligible
<1>12. CASE DeleteSelected
  <2>1. receipts' \in [Receipts -> ReceiptRow]
    BY <1>12 DEF DeleteSelected, ReceiptRow
  <2>2. /\ callbacks' \in [CallbackIds -> CallbackRow]
        /\ \A j \in CallbackIds : callbacks'[j].state = "none" =>
              callbacks[j].state = "none"
    BY <1>12 DEF DeleteSelected, CallbackRow
  <2>3. dlq' \in [CallbackIds -> Nat]
        /\ \A j \in CallbackIds : dlq[j] = 0 => dlq'[j] = 0
    BY <1>12 DEF DeleteSelected
  <2> QED
    BY <1>12, <2>1, <2>2, <2>3 DEF DeleteSelected
<1>13. CASE ClockTick
  BY <1>13 DEF ClockTick
<1>14. CASE Crash
  <2>1. handler' \in [Handlers -> HandlerState]
    BY <1>14 DEF Crash, HandlerState
  <2>2. /\ job' \in [CallbackIds -> JobState]
        /\ \A i \in CallbackIds : job'[i] = NoJob
    BY <1>14 DEF Crash, NoJob, JobState
  <2>3. /\ UNCHANGED <<now, receipts, callbacks, dlq, refusals, historyVars>>
        /\ up' \in BOOLEAN /\ sweeping' = {}
    BY <1>14, Zenon DEF Crash
  <2>4. faults' \in Nat
    BY <1>14 DEF Crash, Fault
  <2> QED
    BY <2>1, <2>2, <2>3, <2>4
<1>15. CASE Restart
  BY <1>15 DEF Restart
<1>16. CASE UNCHANGED vars
  BY <1>16 DEF vars
<1> QED
  BY <1>1, <1>2, <1>3, <1>4, <1>5, <1>6, <1>7, <1>8, <1>9, <1>10, <1>11, <1>12,
     <1>13, <1>14, <1>15, <1>16 DEF Next, WorkerStep

\* Every reachable state is well typed, and no row that was never inserted is
\* attempted, accepted or recorded as a dead letter (callbacks/worker.go).
THEOREM CallbackTypeCorrect == Spec => []TypeOK
<1>1. Init => TypeOK
  BY InitType
<1>2. TypeOK /\ [Next]_vars => TypeOK'
  BY NextType
<1> QED
  BY <1>1, <1>2, PTL DEF Spec

-----------------------------------------------------------------------------
(* The inductive invariant, per callback.  The first four say that what a  *)
(* goroutine holds still agrees with its row, or that the row is gone.     *)

Attempting(i) == job[i].step \in {"wait", "load", "post"}

\* A goroutine has a row that was listed: never one that is done.
JobHasRow(i) ==
    job[i].step # "none" => callbacks[i].state \in {"pending", "failed", "deleted"}

\* The count ListDue read is the row's until the attempt is recorded.
CountHeld(i) ==
    Attempting(i) \/ job[i].step \in {"mark", "fail"} =>
        job[i].attempts = callbacks[i].attempts

\* What was due when it was listed is due.
StillDue(i) == Attempting(i) => callbacks[i].next_attempt_at <= now

\* After a failure the row waits for RetryInterval.
NextAfterFailure(i) ==
    callbacks[i].state = "failed" =>
        callbacks[i].next_attempt_at >= failed_at[i] + RetryInterval

\* A POST that is about to be marked done was accepted.
MarkWasAccepted(i) == job[i].step = "mark" => accepted[i] > 0

\* Between an accepted POST and its record, or after it, there is one acceptance
\* that no fault accounts for.
Accounted(i) == \/ job[i].step = "mark"
                \/ job[i].step = "none" /\ callbacks[i].state \in {"done", "deleted"}

FaultsAccount(i) == accepted[i] <= faults + (IF Accounted(i) THEN 1 ELSE 0)

\* Each failure has its letter, up to faults and the letter underway.
LettersFollow(i) ==
    Stored(i) =>
        /\ dlq[i] + (IF job[i].step = "log" THEN 1 ELSE 0) <= callbacks[i].attempts
        /\ callbacks[i].attempts <= dlq[i] + faults
               + (IF job[i].step = "log" THEN 1 ELSE 0)

RowInv(i) == /\ JobHasRow(i) /\ CountHeld(i) /\ StillDue(i) /\ NextAfterFailure(i)
             /\ MarkWasAccepted(i) /\ FaultsAccount(i) /\ LettersFollow(i)

RowsInv == \A i \in CallbackIds : RowInv(i)
CallbackInv == TypeOK /\ RowsInv /\ DoneWasAccepted

\* The invariant holds initially.
LEMMA InitInv == Init => CallbackInv
<1> SUFFICES ASSUME Init PROVE RowsInv /\ DoneWasAccepted
  BY InitType DEF CallbackInv
<1>1. RowsInv
  BY DEF Init, RowsInv, RowInv, JobHasRow, CountHeld, StillDue, NextAfterFailure,
         MarkWasAccepted, FaultsAccount, LettersFollow, Attempting, Accounted,
         Stored, NoJob
<1>2. DoneWasAccepted
  BY DEF Init, DoneWasAccepted
<1> QED
  BY <1>1, <1>2

-----------------------------------------------------------------------------
(* What a step leaves alone.                                               *)

\* The job and the row of callback i, and what is known of them.
Same(i) == /\ job'[i].step = job[i].step
           /\ job'[i] = job[i] \/ job[i].step = "none"
           /\ callbacks'[i] = callbacks[i]
           /\ dlq'[i] = dlq[i] /\ accepted'[i] = accepted[i]
           /\ failed_at'[i] = failed_at[i]

\* Faults and instants only grow.
Advance == now' \in Nat /\ now' >= now /\ faults' \in Nat /\ faults' >= faults

\* Time passes and faults happen without harm to a callback that rests.
LEMMA SameKeepsRow ==
    ASSUME TypeOK, NEW i \in CallbackIds, RowInv(i), Same(i), Advance
    PROVE  RowInv(i)'
<1>1. /\ job[i] \in JobState /\ callbacks[i] \in CallbackRow
      /\ dlq[i] \in Nat /\ accepted[i] \in Nat /\ failed_at[i] \in Nat
      /\ now \in Nat /\ faults \in Nat
  BY DEF TypeOK
<1>2. JobHasRow(i)' /\ CountHeld(i)' /\ NextAfterFailure(i)' /\ MarkWasAccepted(i)'
  BY DEF RowInv, Same, JobHasRow, CountHeld, NextAfterFailure, MarkWasAccepted,
         Attempting
<1>3. StillDue(i)'
  BY <1>1 DEF RowInv, Same, Advance, StillDue, Attempting, CallbackRow
<1>4. FaultsAccount(i)'
  BY <1>1 DEF RowInv, Same, Advance, FaultsAccount, Accounted
<1>5. LettersFollow(i)'
  BY <1>1 DEF RowInv, Same, Advance, LettersFollow, Stored, CallbackRow
<1> QED
  BY <1>2, <1>3, <1>4, <1>5 DEF RowInv

\* A step of goroutine i leaves the other callbacks alone.
LEMMA OthersSame ==
    ASSUME TypeOK, NEW i \in CallbackIds, NEW j \in CallbackIds, i # j,
           \/ Acquire(i) \/ LoadBody(i) \/ LoadBodyFails(i)
           \/ PostAccepted(i) \/ PostAnswerLost(i) \/ PostRefused(i)
           \/ MarkDone(i) \/ MarkFailed(i) \/ RecordDLQ(i) \/ RecordFails(i)
    PROVE  Same(j) /\ Advance
<1> USE CallbackAssumption
<1>1. now \in Nat /\ faults \in Nat
  BY DEF TypeOK
<1>2. job'[j] = job[j]
  BY DEF TypeOK, Acquire, LoadBody, LoadBodyFails, PostAccepted, PostAnswerLost,
         PostRefused, MarkDone, MarkFailed, RecordDLQ, RecordFails, Goto, Finish
<1>3. callbacks'[j] = callbacks[j]
  <2>1. CASE MarkFailed(i)
    BY <2>1, FailedRow
  <2>2. CASE MarkDone(i)
    BY <2>2 DEF MarkDone, TypeOK
  <2> QED
    BY <2>1, <2>2 DEF Acquire, LoadBody, LoadBodyFails, PostAccepted,
       PostAnswerLost, PostRefused, RecordDLQ, RecordFails
<1>4. dlq'[j] = dlq[j] /\ accepted'[j] = accepted[j] /\ failed_at'[j] = failed_at[j]
  BY DEF TypeOK, historyVars, Acquire, LoadBody, LoadBodyFails, PostAccepted,
         PostAnswerLost, PostRefused, MarkDone, MarkFailed, RecordDLQ, RecordFails
<1>5. Advance
  BY <1>1 DEF Advance, Fault, Acquire, LoadBody, LoadBodyFails, PostAccepted,
              PostAnswerLost, PostRefused, MarkDone, MarkFailed, RecordDLQ,
              RecordFails
<1> QED
  BY <1>2, <1>3, <1>4, <1>5 DEF Same

\* The steps that take an attempt to its POST, or end it there.
LEMMA AttemptStep ==
    ASSUME TypeOK, NEW i \in CallbackIds, RowInv(i),
           \/ Acquire(i) \/ LoadBody(i) \/ LoadBodyFails(i)
           \/ PostAccepted(i) \/ PostAnswerLost(i) \/ PostRefused(i)
    PROVE  RowInv(i)'
<1> USE DEF Attempting, Accounted, Stored
<1>1. /\ job[i] \in JobState /\ callbacks[i] \in CallbackRow
      /\ dlq[i] \in Nat /\ accepted[i] \in Nat /\ failed_at[i] \in Nat
      /\ now \in Nat /\ faults \in Nat
  BY DEF TypeOK
<1>2. /\ job[i].step \in {"wait", "load", "post"}
      /\ job'[i].step \in {"load", "post", "mark", "fail"}
      /\ job'[i].attempts = job[i].attempts
  BY GotoType DEF Acquire, LoadBody, LoadBodyFails, PostAccepted, PostAnswerLost,
                  PostRefused
<1>3. UNCHANGED <<now, callbacks, dlq, failed_at>>
  BY DEF Acquire, LoadBody, LoadBodyFails, PostAccepted, PostAnswerLost, PostRefused,
         historyVars
<1>4. /\ faults' \in Nat /\ accepted'[i] \in Nat /\ faults' >= faults
      /\ \/ accepted'[i] = accepted[i] /\ job'[i].step # "mark"
         \/ accepted'[i] = accepted[i] + 1 /\ job'[i].step = "mark"
         \/ accepted'[i] = accepted[i] + 1 /\ faults' = faults + 1
                /\ job'[i].step # "mark"
  BY <1>1, GotoType DEF TypeOK, Acquire, LoadBody, LoadBodyFails, PostAccepted,
     PostAnswerLost, PostRefused, Fault, historyVars
<1>5. JobHasRow(i)' /\ NextAfterFailure(i)'
  BY <1>2, <1>3 DEF RowInv, JobHasRow, NextAfterFailure
<1>6. CountHeld(i)' /\ StillDue(i)'
  BY <1>1, <1>2, <1>3 DEF RowInv, CountHeld, StillDue
<1>7. MarkWasAccepted(i)' /\ FaultsAccount(i)'
  BY <1>1, <1>2, <1>4 DEF RowInv, MarkWasAccepted, FaultsAccount
<1>8. LettersFollow(i)'
  BY <1>1, <1>2, <1>3, <1>4 DEF RowInv, LettersFollow, CallbackRow
<1> QED
  BY <1>5, <1>6, <1>7, <1>8 DEF RowInv

\* The steps that record what came of it.
LEMMA RecordStep ==
    ASSUME TypeOK, NEW i \in CallbackIds, RowInv(i),
           MarkDone(i) \/ MarkFailed(i) \/ RecordDLQ(i) \/ RecordFails(i)
    PROVE  RowInv(i)'
<1> USE CallbackAssumption DEF Attempting, Accounted, Stored
<1>1. /\ job[i] \in JobState /\ callbacks[i] \in CallbackRow
      /\ dlq[i] \in Nat /\ accepted[i] \in Nat /\ failed_at[i] \in Nat
      /\ now \in Nat /\ faults \in Nat
  BY DEF TypeOK
<1>2. CASE MarkDone(i)
  <2>1. /\ job[i].step = "mark" /\ job'[i] = NoJob
        /\ UNCHANGED <<now, dlq, faults, accepted, failed_at>>
    BY <1>2, FinishType DEF MarkDone, historyVars
  <2>2. /\ callbacks'[i].state = IF callbacks[i].state = "deleted" THEN "deleted"
                                 ELSE "done"
        /\ callbacks'[i].attempts = callbacks[i].attempts
    BY <1>1, <1>2, <2>1 DEF TypeOK, MarkDone, RowInv, JobHasRow, CallbackRow
  <2>3. JobHasRow(i)' /\ CountHeld(i)' /\ StillDue(i)' /\ NextAfterFailure(i)'
        /\ MarkWasAccepted(i)'
    BY <2>1, <2>2 DEF NoJob, JobHasRow, CountHeld, StillDue, NextAfterFailure,
                      MarkWasAccepted
  <2>4. FaultsAccount(i)'
    BY <1>1, <2>1, <2>2 DEF RowInv, FaultsAccount, NoJob
  <2>5. LettersFollow(i)'
    BY <1>1, <2>1, <2>2 DEF RowInv, JobHasRow, LettersFollow, CallbackRow, NoJob
  <2> QED
    BY <2>3, <2>4, <2>5 DEF RowInv
<1>3. CASE MarkFailed(i)
  <2>1. /\ job[i].step = "fail" /\ job'[i].step = "log"
        /\ failed_at'[i] = now
        /\ UNCHANGED <<now, dlq, faults, accepted>>
    BY <1>3, GotoType DEF MarkFailed, TypeOK
  <2>2. /\ Stored(i)' <=> Stored(i)
        /\ ~Stored(i) => callbacks'[i] = callbacks[i]
        /\ Stored(i) => /\ callbacks'[i].state = "failed"
                        /\ callbacks'[i].attempts = callbacks[i].attempts + 1
                        /\ callbacks'[i].next_attempt_at = now + RetryInterval
    BY <1>3, <2>1, FailedRow DEF RowInv, CountHeld
  <2>3. JobHasRow(i)' /\ CountHeld(i)' /\ StillDue(i)' /\ MarkWasAccepted(i)'
    BY <2>1, <2>2 DEF RowInv, JobHasRow, CountHeld, StillDue, MarkWasAccepted
  <2>4. NextAfterFailure(i)' /\ FaultsAccount(i)'
    BY <1>1, <2>1, <2>2 DEF RowInv, NextAfterFailure, FaultsAccount
  <2>5. LettersFollow(i)'
    BY <1>1, <2>1, <2>2 DEF RowInv, LettersFollow, CallbackRow
  <2> QED
    BY <2>3, <2>4, <2>5 DEF RowInv
<1>4. CASE RecordDLQ(i)
  <2>1. /\ job[i].step = "log" /\ job'[i] = NoJob /\ dlq'[i] = dlq[i] + 1
        /\ UNCHANGED <<now, callbacks, faults, accepted, failed_at>>
    BY <1>4, FinishType DEF RecordDLQ, historyVars, TypeOK
  <2>2. JobHasRow(i)' /\ CountHeld(i)' /\ StillDue(i)' /\ NextAfterFailure(i)'
        /\ MarkWasAccepted(i)'
    BY <2>1 DEF NoJob, RowInv, JobHasRow, CountHeld, StillDue, NextAfterFailure,
                MarkWasAccepted
  <2>3. FaultsAccount(i)' /\ LettersFollow(i)'
    BY <1>1, <2>1 DEF RowInv, JobHasRow, FaultsAccount, LettersFollow, CallbackRow, NoJob
  <2> QED
    BY <2>2, <2>3 DEF RowInv
<1>5. CASE RecordFails(i)
  <2>1. /\ job[i].step \in {"mark", "fail", "log"} /\ job'[i] = NoJob
        /\ faults' = faults + 1
        /\ UNCHANGED <<now, callbacks, dlq, accepted, failed_at>>
    BY <1>5, FinishType DEF RecordFails, Fault, historyVars
  <2>2. JobHasRow(i)' /\ CountHeld(i)' /\ StillDue(i)' /\ NextAfterFailure(i)'
        /\ MarkWasAccepted(i)'
    BY <2>1 DEF NoJob, RowInv, JobHasRow, CountHeld, StillDue, NextAfterFailure,
                MarkWasAccepted
  <2>3. FaultsAccount(i)' /\ LettersFollow(i)'
    BY <1>1, <2>1 DEF RowInv, JobHasRow, FaultsAccount, LettersFollow, CallbackRow, NoJob
  <2> QED
    BY <2>2, <2>3 DEF RowInv
<1> QED
  BY <1>2, <1>3, <1>4, <1>5

\* The steps that touch no callback.
LEMMA QuietStep ==
    ASSUME TypeOK,
           \/ \E h \in Handlers, r \in Receipts : Acknowledge(h, r)
           \/ \E h \in Handlers : EnqueueNothing(h) \/ LoadTarget(h)
           \/ \E r \in Receipts, s \in {"expired", "canceled"} : Close(r, s)
           \/ SelectEligible \/ ClockTick \/ Restart \/ UNCHANGED vars
    PROVE  /\ \A i \in CallbackIds : Same(i)
           /\ Advance
           /\ UNCHANGED <<callbacks, accepted>>
<1>1. UNCHANGED <<callbacks, dlq, job, accepted, failed_at, faults>>
  BY Zenon DEF Acknowledge, EnqueueNothing, LoadTarget, Close, SelectEligible,
     ClockTick, Restart, vars, historyVars
<1>2. now' = now \/ now' = now + 1
  BY DEF Acknowledge, EnqueueNothing, LoadTarget, Close, SelectEligible,
     ClockTick, Restart, vars
<1> QED
  BY <1>1, <1>2 DEF TypeOK, Same, Advance

\* The row CreateCallback inserts has an id never given before.
LEMMA FreshRow ==
    ASSUME NEW h \in Handlers, CreateCallback(h)
    PROVE  \E i \in CallbackIds :
             /\ callbacks[i].state = "none"
             /\ callbacks' = [callbacks EXCEPT ![i] =
                    [state |-> "pending", receipt |-> handler[h].receipt,
                     next_attempt_at |-> now, attempts |-> 0]]
<1>1. PICK i \in CallbackIds :
         /\ \A j \in CallbackIds : callbacks[j].state = "none" <=> j >= i
         /\ callbacks' = [callbacks EXCEPT ![i] =
                [state |-> "pending", receipt |-> handler[h].receipt,
                 next_attempt_at |-> now, attempts |-> 0]]
  BY Zenon DEF CreateCallback
<1>2. i \in Nat
  BY CallbackAssumption DEF CallbackIds
<1>3. i >= i
  BY <1>2
<1> QED
  BY <1>1, <1>3

\* A new row is the first that was never given: nothing is known of it yet.
LEMMA CreateStep ==
    ASSUME TypeOK, RowsInv, NEW h \in Handlers, CreateCallback(h)
    PROVE  RowsInv'
<1>1. PICK i \in CallbackIds :
         /\ callbacks[i].state = "none"
         /\ callbacks' = [callbacks EXCEPT ![i] =
                [state |-> "pending", receipt |-> handler[h].receipt,
                 next_attempt_at |-> now, attempts |-> 0]]
  BY FreshRow
<1>2. UNCHANGED <<now, dlq, job, faults, accepted, failed_at>>
  BY DEF CreateCallback, historyVars
<1>3. ASSUME NEW j \in CallbackIds, j # i PROVE RowInv(j)'
  <2>1. Same(j) /\ Advance
    BY <1>1, <1>2, <1>3 DEF TypeOK, Same, Advance
  <2> QED
    BY <2>1, SameKeepsRow DEF RowsInv
<1>4. /\ job'[i] = NoJob /\ accepted'[i] = 0 /\ dlq'[i] = 0 /\ faults' \in Nat
      /\ callbacks'[i].state = "pending" /\ callbacks'[i].attempts = 0
  BY <1>1, <1>2 DEF TypeOK
<1>5. JobHasRow(i)' /\ CountHeld(i)' /\ StillDue(i)' /\ NextAfterFailure(i)'
      /\ MarkWasAccepted(i)'
  BY <1>4 DEF JobHasRow, CountHeld, StillDue, NextAfterFailure, MarkWasAccepted,
     Attempting, NoJob
<1>6. FaultsAccount(i)'
  <2>1. accepted'[i] \in Nat /\ faults' \in Nat /\ accepted'[i] <= faults'
    BY <1>4
  <2>2. (IF Accounted(i)' THEN 1 ELSE 0) \in Nat
    OBVIOUS
  <2> QED
    BY <2>1, <2>2 DEF FaultsAccount
<1>7. LettersFollow(i)'
  <2>1. job'[i].step # "log"
    BY <1>4 DEF NoJob
  <2>2. /\ dlq'[i] \in Nat /\ callbacks'[i].attempts \in Nat /\ faults' \in Nat
        /\ dlq'[i] <= callbacks'[i].attempts /\ callbacks'[i].attempts <= dlq'[i]
    BY <1>4
  <2> QED
    BY <2>1, <2>2 DEF LettersFollow
<1> QED
  BY <1>3, <1>5, <1>6, <1>7 DEF RowsInv, RowInv

\* A callback is listed only when no goroutine is left of the last tick.
LEMMA ListStep ==
    ASSUME TypeOK, RowsInv, ListDue PROVE RowsInv'
<1>1. PICK C \in SUBSET Due :
         job' = [i \in CallbackIds |->
                   IF i \in C THEN [step |-> "wait",
                                    attempts |-> callbacks[i].attempts]
                   ELSE NoJob]
  BY DEF ListDue
<1>2. UNCHANGED <<now, callbacks, dlq, faults, accepted, failed_at>>
  BY DEF ListDue, historyVars
<1> SUFFICES ASSUME NEW i \in CallbackIds PROVE RowInv(i)'
  BY DEF RowsInv
<1>3. job[i].step = "none" /\ RowInv(i)
  BY DEF ListDue, Idle, RowsInv
<1>4. CASE i \notin C
  <2>1. Same(i) /\ Advance
    BY <1>1, <1>2, <1>3, <1>4 DEF TypeOK, Same, Advance, NoJob
  <2> QED
    BY <1>3, <2>1, SameKeepsRow
<1>5. CASE i \in C
  <2>1. /\ job'[i].step = "wait" /\ job'[i].attempts = callbacks[i].attempts
        /\ callbacks[i].state \in {"pending", "failed"}
        /\ callbacks[i].next_attempt_at <= now
    BY <1>1, <1>5 DEF Due
  <2> QED
    BY <1>2, <1>3, <2>1 DEF RowInv, JobHasRow, CountHeld, StillDue,
       NextAfterFailure, MarkWasAccepted, FaultsAccount, LettersFollow,
       Attempting, Accounted, Stored
<1> QED
  BY <1>4, <1>5

\* A row may be swept under the goroutine that attempts it.
LEMMA SweepStep ==
    ASSUME TypeOK, RowsInv, DeleteSelected PROVE RowsInv'
<1> SUFFICES ASSUME NEW i \in CallbackIds PROVE RowInv(i)'
  BY DEF RowsInv
<1>1. UNCHANGED <<now, job, faults, accepted, failed_at>>
  BY DEF DeleteSelected, historyVars
<1>2. RowInv(i) /\ callbacks[i] \in CallbackRow /\ accepted[i] \in Nat /\ faults \in Nat
  BY DEF TypeOK, RowsInv
<1>3. CASE callbacks'[i] = callbacks[i] /\ dlq'[i] = dlq[i]
  <2>1. Same(i) /\ Advance
    BY <1>1, <1>3 DEF TypeOK, Same, Advance
  <2> QED
    BY <1>2, <2>1, SameKeepsRow
<1>4. CASE /\ callbacks'[i].state = "deleted"
           /\ callbacks'[i].attempts = callbacks[i].attempts
           /\ callbacks'[i].next_attempt_at = callbacks[i].next_attempt_at
  BY <1>1, <1>2, <1>4 DEF RowInv, JobHasRow, CountHeld, StillDue, NextAfterFailure,
     MarkWasAccepted, FaultsAccount, LettersFollow, Attempting, Accounted, Stored
<1> QED
  BY <1>2, <1>3, <1>4 DEF DeleteSelected, CallbackRow

\* A crash ends every attempt, and is the fault that accounts for it.
LEMMA CrashStep ==
    ASSUME TypeOK, RowsInv, Crash PROVE RowsInv'
<1> SUFFICES ASSUME NEW i \in CallbackIds PROVE RowInv(i)'
  BY DEF RowsInv
<1>1. /\ job'[i].step = "none" /\ faults' = faults + 1
      /\ UNCHANGED <<now, callbacks, dlq, accepted, failed_at>>
  BY DEF Crash, NoJob, Fault, historyVars
<1>2. /\ RowInv(i) /\ callbacks[i] \in CallbackRow /\ accepted[i] \in Nat
      /\ faults \in Nat /\ dlq[i] \in Nat
  BY DEF TypeOK, RowsInv
<1> QED
  BY <1>1, <1>2 DEF RowInv, JobHasRow, CountHeld, StillDue, NextAfterFailure,
     MarkWasAccepted, FaultsAccount, LettersFollow, Attempting, Accounted, Stored,
     CallbackRow

\* Every step keeps what is known of the callbacks.
LEMMA NextRows == TypeOK /\ RowsInv /\ [Next]_vars => RowsInv'
<1> SUFFICES ASSUME TypeOK, RowsInv, [Next]_vars PROVE RowsInv'
  OBVIOUS
<1>1. ASSUME \A i \in CallbackIds : Same(i), Advance PROVE RowsInv'
  BY <1>1, SameKeepsRow DEF RowsInv
<1>2. ASSUME NEW i \in CallbackIds,
             \/ Acquire(i) \/ LoadBody(i) \/ LoadBodyFails(i)
             \/ PostAccepted(i) \/ PostAnswerLost(i) \/ PostRefused(i)
             \/ MarkDone(i) \/ MarkFailed(i) \/ RecordDLQ(i) \/ RecordFails(i)
      PROVE  RowsInv'
  <2>1. RowInv(i)'
    BY <1>2, AttemptStep, RecordStep DEF RowsInv
  <2>2. ASSUME NEW j \in CallbackIds, j # i PROVE RowInv(j)'
    <3>1. Same(j) /\ Advance
      BY <1>2, <2>2, OthersSame
    <3> QED
      BY <3>1, SameKeepsRow DEF RowsInv
  <2> QED
    BY <2>1, <2>2 DEF RowsInv
<1> QED
  BY <1>1, <1>2, QuietStep, CreateStep, ListStep, SweepStep, CrashStep
     DEF Next, WorkerStep

-----------------------------------------------------------------------------
(* Two tables that tell the same.                                          *)

\* What a step may do to the rows DoneWasAccepted speaks of: nothing is turned
\* done, no acceptance is forgotten, no receipt comes back.
Keeps ==
    /\ \A i \in CallbackIds :
         /\ callbacks'[i].state = "done" => callbacks'[i] = callbacks[i]
         /\ accepted'[i] \in Nat /\ accepted'[i] >= accepted[i]
         /\ accepted[i] > 0 => callbacks'[i].receipt = callbacks[i].receipt
    /\ \A r \in Receipts :
         /\ receipts'[r].called_back = receipts[r].called_back
         /\ receipts'[r].state # "swept" => receipts[r].state # "swept"

\* Such a step keeps the two tables together.
LEMMA KeepsDone ==
    ASSUME TypeOK, DoneWasAccepted, Keeps PROVE DoneWasAccepted'
<1>1. ASSUME NEW i \in CallbackIds, callbacks'[i].state = "done"
      PROVE  /\ accepted'[i] > 0
             /\ Exists(callbacks[i].receipt)' =>
                    receipts'[callbacks'[i].receipt].called_back
  <2>1. callbacks'[i] = callbacks[i] /\ callbacks[i].state = "done"
        /\ callbacks[i].receipt \in Receipts
    BY <1>1 DEF Keeps, TypeOK, CallbackRow
  <2>2. accepted[i] \in Nat /\ accepted[i] > 0 /\ accepted'[i] >= accepted[i]
        /\ accepted'[i] \in Nat
    BY <2>1 DEF Keeps, TypeOK, DoneWasAccepted
  <2> QED
    BY <2>1, <2>2 DEF Keeps, DoneWasAccepted, Exists
<1>2. ASSUME NEW r \in Receipts, receipts'[r].called_back
      PROVE  \E i \in CallbackIds : callbacks'[i].receipt = r /\ accepted'[i] > 0
  <2>1. PICK i \in CallbackIds : callbacks[i].receipt = r /\ accepted[i] > 0
    BY <1>2 DEF Keeps, DoneWasAccepted
  <2> QED
    BY <2>1 DEF Keeps, TypeOK
<1> QED
  BY <1>1, <1>2 DEF DoneWasAccepted

\* Every step keeps the two tables together.
LEMMA NextDone == TypeOK /\ RowsInv /\ DoneWasAccepted /\ [Next]_vars => DoneWasAccepted'
<1> SUFFICES ASSUME TypeOK, RowsInv, DoneWasAccepted, [Next]_vars
             PROVE  DoneWasAccepted'
  OBVIOUS
<1>0. /\ callbacks \in [CallbackIds -> CallbackRow] /\ receipts \in [Receipts -> ReceiptRow]
      /\ accepted \in [CallbackIds -> Nat]
  BY DEF TypeOK
<1>1. ASSUME NEW i \in CallbackIds, MarkDone(i) PROVE DoneWasAccepted'
  <2>1. /\ accepted' = accepted /\ accepted[i] > 0
        /\ callbacks[i].receipt \in Receipts
    BY <1>0, <1>1 DEF MarkDone, historyVars, RowsInv, RowInv, MarkWasAccepted, CallbackRow
  <2>2. \A j \in CallbackIds :
           /\ callbacks'[j].receipt = callbacks[j].receipt
           /\ j # i => callbacks'[j].state = callbacks[j].state
    BY <1>0, <1>1 DEF MarkDone, CallbackRow
  <2>3. \A r \in Receipts :
           /\ receipts'[r].state = receipts[r].state
           /\ r # callbacks[i].receipt =>
                  receipts'[r].called_back = receipts[r].called_back
           /\ receipts[r].called_back => receipts'[r].called_back
    BY <1>0, <1>1, <2>1 DEF MarkDone, ReceiptRow
  <2>4. Exists(callbacks[i].receipt) => receipts'[callbacks[i].receipt].called_back
    BY <1>0, <1>1, <2>1 DEF MarkDone, ReceiptRow
  <2>5. \A j \in CallbackIds : callbacks[j].receipt \in Receipts
    BY <1>0 DEF CallbackRow
  <2>6. ASSUME NEW j \in CallbackIds, callbacks'[j].state = "done"
        PROVE  /\ accepted'[j] > 0
               /\ Exists(callbacks[j].receipt)' =>
                      receipts'[callbacks'[j].receipt].called_back
    BY <2>1, <2>2, <2>3, <2>4, <2>5, <2>6 DEF DoneWasAccepted, Exists
  <2>7. ASSUME NEW r \in Receipts, receipts'[r].called_back
        PROVE  \E j \in CallbackIds : callbacks'[j].receipt = r /\ accepted'[j] > 0
    BY <2>1, <2>2, <2>3, <2>7 DEF DoneWasAccepted
  <2> QED
    BY <2>6, <2>7 DEF DoneWasAccepted
<1>2. ASSUME NEW i \in CallbackIds, MarkFailed(i) PROVE Keeps
  <2>1. UNCHANGED <<receipts, accepted>>
    BY <1>2 DEF MarkFailed
  <2>2. \A j \in CallbackIds :
           /\ callbacks'[j].receipt = callbacks[j].receipt
           /\ callbacks'[j].state = "done" => callbacks'[j] = callbacks[j]
    BY <1>2, FailedRow
  <2> QED
    BY <1>0, <2>1, <2>2 DEF Keeps
<1>3. ASSUME NEW i \in CallbackIds,
             \/ Acquire(i) \/ LoadBody(i) \/ LoadBodyFails(i) \/ PostAccepted(i)
             \/ PostAnswerLost(i) \/ PostRefused(i) \/ RecordDLQ(i) \/ RecordFails(i)
      PROVE  Keeps
  <2>1. UNCHANGED <<receipts, callbacks>>
    BY <1>3 DEF Acquire, LoadBody, LoadBodyFails, PostAccepted, PostAnswerLost,
       PostRefused, RecordDLQ, RecordFails
  <2>2. accepted' = accepted \/ accepted' = [accepted EXCEPT ![i] = @ + 1]
    BY <1>3 DEF Acquire, LoadBody, LoadBodyFails, PostAccepted, PostAnswerLost,
       PostRefused, RecordDLQ, RecordFails, historyVars
  <2> QED
    BY <1>0, <2>1, <2>2 DEF Keeps
<1>4. ASSUME NEW h \in Handlers, CreateCallback(h) PROVE Keeps
  <2>1. PICK i \in CallbackIds :
           /\ callbacks[i].state = "none"
           /\ callbacks' = [callbacks EXCEPT ![i] =
                  [state |-> "pending", receipt |-> handler[h].receipt,
                   next_attempt_at |-> now, attempts |-> 0]]
    BY <1>4, FreshRow
  <2>2. accepted[i] = 0 /\ UNCHANGED <<receipts, accepted>>
    BY <1>4, <2>1 DEF TypeOK, CreateCallback, historyVars
  <2> QED
    BY <1>0, <2>1, <2>2 DEF Keeps
<1>5. ASSUME NEW h \in Handlers, NEW r \in Receipts, Acknowledge(h, r) PROVE Keeps
  BY <1>0, <1>5 DEF Acknowledge, Keeps, historyVars, ReceiptRow
<1>6. ASSUME NEW r \in Receipts, NEW s \in {"expired", "canceled"}, Close(r, s)
      PROVE  Keeps
  BY <1>0, <1>6 DEF Close, Keeps, historyVars, ReceiptRow
<1>7. ASSUME DeleteSelected PROVE Keeps
  <2>1. accepted' = accepted
    BY <1>7 DEF DeleteSelected, historyVars
  <2>2. \A i \in CallbackIds :
           /\ callbacks'[i].receipt = callbacks[i].receipt
           /\ callbacks'[i].state = "done" => callbacks'[i] = callbacks[i]
    BY <1>0, <1>7 DEF DeleteSelected, CallbackRow
  <2>3. \A r \in Receipts :
           /\ receipts'[r].called_back = receipts[r].called_back
           /\ receipts'[r].state # "swept" => receipts[r].state # "swept"
    BY <1>0, <1>7 DEF DeleteSelected, ReceiptRow
  <2> QED
    BY <1>0, <2>1, <2>2, <2>3 DEF Keeps
<1>8. ASSUME \/ \E h \in Handlers : EnqueueNothing(h) \/ LoadTarget(h)
             \/ ListDue \/ SelectEligible \/ ClockTick \/ Crash \/ Restart
             \/ UNCHANGED vars
      PROVE  Keeps
  <2>1. UNCHANGED <<receipts, callbacks, accepted>>
    BY <1>8, Zenon DEF EnqueueNothing, LoadTarget, ListDue, SelectEligible,
       ClockTick, Crash, Restart, vars, historyVars
  <2> QED
    BY <1>0, <2>1 DEF Keeps
<1>9. Keeps => DoneWasAccepted'
  BY KeepsDone
<1> HIDE DEF Keeps
<1> QED
  BY <1>1, <1>2, <1>3, <1>4, <1>5, <1>6, <1>7, <1>8, <1>9 DEF Next, WorkerStep

-----------------------------------------------------------------------------
(* The theorems.                                                           *)

\* The inductive invariant holds in every reachable state: what a goroutine of
\* the worker still knows of its callback agrees with the row, whatever the
\* collector, a crash or another handler did since ListDue (callbacks/worker.go).
THEOREM CallbackInvariant == Spec => []CallbackInv
<1>1. Init => CallbackInv
  BY InitInv
<1>2. CallbackInv /\ [Next]_vars => CallbackInv'
  BY NextType, NextRows, NextDone DEF CallbackInv
<1> QED
  BY <1>1, <1>2, PTL DEF Spec

\* A callback is done, and its receipt reports called_back, only when a POST was
\* accepted, and both are told together (store/sqlite/callback_worker.go MarkDone).
THEOREM DoneIsAccepted == Spec => []DoneWasAccepted
<1>1. CallbackInv => DoneWasAccepted
  BY DEF CallbackInv
<1> QED
  BY <1>1, CallbackInvariant, PTL

\* A receiver gets a callback again only after a crash, a failed write or a lost
\* answer, once for each (callbacks/worker.go attempt).
THEOREM DuplicatesBounded == Spec => []DuplicatesNeedFaults
<1>1. ASSUME CallbackInv, NEW i \in CallbackIds PROVE accepted[i] <= 1 + faults
  BY <1>1 DEF CallbackInv, TypeOK, RowsInv, RowInv, FaultsAccount
<1>2. CallbackInv => DuplicatesNeedFaults
  BY <1>1 DEF DuplicatesNeedFaults
<1> QED
  BY <1>2, CallbackInvariant, PTL

\* A callback that failed is not attempted again before RetryInterval has gone
\* by, over crashes and the wait for the semaphore (worker.go fail).
THEOREM RetriesPaced == Spec => []RetryPaced
<1>1. ASSUME CallbackInv, NEW i \in CallbackIds,
             job[i].step \in {"wait", "load", "post"}, callbacks[i].state = "failed"
      PROVE  now >= failed_at[i] + RetryInterval
  <2>1. /\ callbacks[i] \in CallbackRow /\ now \in Nat /\ failed_at[i] \in Nat
        /\ RetryInterval \in Nat
    BY <1>1, CallbackAssumption DEF CallbackInv, TypeOK
  <2>2. /\ callbacks[i].next_attempt_at <= now
        /\ callbacks[i].next_attempt_at >= failed_at[i] + RetryInterval
    BY <1>1 DEF CallbackInv, RowsInv, RowInv, StillDue, NextAfterFailure, Attempting
  <2> QED
    BY <2>1, <2>2 DEF CallbackRow
<1>2. CallbackInv => RetryPaced
  BY <1>1 DEF RetryPaced
<1> QED
  BY <1>2, CallbackInvariant, PTL

\* The attempts a row counts and its dead letters differ by the faults and the
\* letter still to be written (worker.go fail: MarkFailed, then RecordDLQ).
THEOREM AttemptsAreLogged == Spec => []AttemptsLogged
<1>1. ASSUME CallbackInv, NEW i \in CallbackIds, Stored(i)
      PROVE  /\ dlq[i] <= callbacks[i].attempts
             /\ callbacks[i].attempts <= dlq[i] + faults
                    + (IF job[i].step = "log" THEN 1 ELSE 0)
  BY <1>1 DEF CallbackInv, TypeOK, CallbackRow, RowsInv, RowInv, LettersFollow
<1>2. CallbackInv => AttemptsLogged
  BY <1>1 DEF AttemptsLogged
<1> QED
  BY <1>2, CallbackInvariant, PTL
=============================================================================
