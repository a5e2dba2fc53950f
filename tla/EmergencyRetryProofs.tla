------------------------ MODULE EmergencyRetryProofs ------------------------
(***************************************************************************)
(* Theorems about EmergencyRetry, for every value of its constants.        *)
(***************************************************************************)
EXTENDS EmergencyRetry, TLAPS

-----------------------------------------------------------------------------
(* Typing.                                                                 *)

\* The initial state is well typed.
LEMMA InitType == Init => TypeOK
BY RetryAssumption DEF Init, TypeOK, NoReceipt, ReceiptRow, Handling, NoTimer,
   States, OpenStates, TerminalStates, TimerRow

\* A new timer row is well typed.
LEMMA InsertTimerType ==
    ASSUME NEW r \in Receipts, NEW at \in Nat, timers \subseteq TimerRow,
           InsertTimer(r, at)
    PROVE  timers' \subseteq TimerRow
<1>1. PICK i \in FreshIds :
        timers' = timers \cup {[id |-> i, receipt |-> r, fire_at |-> at,
                                claimed |-> FALSE]}
  BY Zenon DEF InsertTimer
<1>2. i \in TimerIds
  BY <1>1 DEF FreshIds
<1>3. [id |-> i, receipt |-> r, fire_at |-> at, claimed |-> FALSE] \in TimerRow
  BY <1>2 DEF TimerRow
<1> QED
  BY <1>1, <1>3

\* Claiming or releasing rows changes nothing else about them.
LEMMA SetClaimedRows ==
    ASSUME NEW S \in SUBSET TimerRow, NEW c \in BOOLEAN
    PROVE  /\ SetClaimed(S, c) \subseteq TimerRow
           /\ \A u \in SetClaimed(S, c) : u.claimed = c
           /\ \A u \in SetClaimed(S, c) :
                 \E t \in S : t.id = u.id /\ t.receipt = u.receipt
           /\ \A t \in S : \E u \in SetClaimed(S, c) :
                 u.id = t.id /\ u.receipt = t.receipt
<1>1. \A t \in S : LET u == [t EXCEPT !.claimed = c]
                  IN  /\ u \in TimerRow /\ u.claimed = c
                      /\ u.id = t.id /\ u.receipt = t.receipt
  BY DEF TimerRow
<1>2. ASSUME NEW u \in SetClaimed(S, c)
      PROVE  \E t \in S : u = [t EXCEPT !.claimed = c]
  BY <1>2 DEF SetClaimed
<1>3. ASSUME NEW t \in S
      PROVE  [t EXCEPT !.claimed = c] \in SetClaimed(S, c)
  BY DEF SetClaimed
<1>4. ASSUME NEW u \in SetClaimed(S, c)
      PROVE  /\ u \in TimerRow /\ u.claimed = c
             /\ \E t \in S : t.id = u.id /\ t.receipt = u.receipt
  <2>1. PICK t \in S : u = [t EXCEPT !.claimed = c]
    BY <1>4, <1>2
  <2>2. /\ u \in TimerRow /\ u.claimed = c
        /\ u.id = t.id /\ u.receipt = t.receipt
    BY <1>1, <2>1
  <2> QED
    BY <2>2
<1>5. ASSUME NEW t \in S
      PROVE  \E u \in SetClaimed(S, c) : u.id = t.id /\ u.receipt = t.receipt
  <2>1. [t EXCEPT !.claimed = c] \in SetClaimed(S, c)
    BY <1>3
  <2> QED
    BY <1>1, <2>1
<1> QED
  BY <1>4, <1>5, Zenon

\* Due instants are instants.
LEMMA NextRetryAtType ==
    ASSUME TypeOK, NEW r \in Receipts, NEW n \in Nat
    PROVE  NextRetryAt(r, n) \in Nat
<1>1. receipts[r].created_at \in Nat
  BY DEF TypeOK, ReceiptRow
<1>2. n * Interval \in Nat
  BY RetryAssumption
<1> QED
  BY <1>1, <1>2 DEF NextRetryAt

\* Closing a receipt changes its state and closing instant only.
LEMMA ClosedRow ==
    ASSUME TypeOK, NEW r \in Receipts, NEW s \in TerminalStates, NEW at \in Nat
    PROVE  /\ Closed(r, s, at) \in [Receipts -> ReceiptRow]
           /\ Closed(r, s, at)[r].state = s
           /\ Closed(r, s, at)[r].closed_at = at
           /\ Closed(r, s, at)[r].retry_count = receipts[r].retry_count
           /\ Closed(r, s, at)[r].created_at = receipts[r].created_at
           /\ Closed(r, s, at)[r].expires_at = receipts[r].expires_at
           /\ \A q \in Receipts \ {r} : Closed(r, s, at)[q] = receipts[q]
<1> DEFINE row == [receipts[r] EXCEPT !.state = s, !.closed_at = at]
<1>1. receipts \in [Receipts -> ReceiptRow] /\ receipts[r] \in ReceiptRow
  BY DEF TypeOK
<1>2. /\ row \in ReceiptRow
      /\ row.state = s /\ row.closed_at = at
      /\ row.retry_count = receipts[r].retry_count
      /\ row.created_at = receipts[r].created_at
      /\ row.expires_at = receipts[r].expires_at
  BY <1>1 DEF ReceiptRow, States
<1>3. Closed(r, s, at) = [receipts EXCEPT ![r] = row]
  BY DEF Closed
<1> HIDE DEF row
<1> QED
  BY <1>1, <1>2, <1>3

\* Every step keeps the types.
LEMMA NextType == TypeOK /\ [Next]_vars => TypeOK'
<1> SUFFICES ASSUME TypeOK, [Next]_vars PROVE TypeOK'
  OBVIOUS
<1> USE RetryAssumption DEF TypeOK, engineVars, historyVars, faultVars, Handling,
        Goto
<1>1. ASSUME NEW r \in Receipts, NEW e \in RequestedExpires, Ingest(r, e)
      PROVE  TypeOK'
  <2>1. receipts' \in [Receipts -> ReceiptRow]
    BY <1>1 DEF Ingest, ReceiptRow, States, OpenStates
  <2> QED
    BY <1>1, <2>1 DEF Ingest
<1>2. ASSUME NEW r \in Receipts, SeedRetry(r) PROVE TypeOK'
  <2>1. receipts[r].created_at \in Nat
    BY DEF ReceiptRow
  <2>2. timers' \subseteq TimerRow
    BY <1>2, <2>1, InsertTimerType DEF SeedRetry
  <2> QED
    BY <1>2, <2>2 DEF SeedRetry
<1>3. ASSUME NEW r \in Receipts, SeedRetryFails(r) PROVE TypeOK'
  BY <1>3 DEF SeedRetryFails
<1>4. ASSUME NEW r \in Receipts, Acknowledge(r) PROVE TypeOK'
  <2>1. receipts' \in [Receipts -> ReceiptRow]
    BY <1>4, ClosedRow DEF Acknowledge, TerminalStates
  <2> QED
    BY <1>4, <2>1 DEF Acknowledge
<1>5. ASSUME NEW r \in Receipts, CancelPending(r) PROVE TypeOK'
  <2>1. receipts' \in [Receipts -> ReceiptRow]
    BY <1>5, ClosedRow DEF CancelPending, TerminalStates
  <2> QED
    BY <1>5, <2>1 DEF CancelPending
<1>6. ASSUME NEW r \in Receipts, DeleteTimers(r) PROVE TypeOK'
  BY <1>6 DEF DeleteTimers
<1>7. ASSUME NEW r \in Receipts, DeleteTimersFails(r) PROVE TypeOK'
  BY <1>7 DEF DeleteTimersFails
<1>8. CASE Recover
  <2>1. timers' \subseteq TimerRow
    BY <1>8, SetClaimedRows DEF Recover
  <2> QED
    BY <1>8, <2>1 DEF Recover
<1>9. CASE Claim
  <2>1. batch' \subseteq TimerRow /\ timers' \subseteq TimerRow
    BY <1>9, SetClaimedRows DEF Claim, Due
  <2> QED
    BY <1>9, <2>1 DEF Claim
<1>10. CASE FireDone
  BY <1>10 DEF FireDone
<1>11. CASE Tick
  <2>1. PICK t \in batch : \/ TickDone(t) \/ TickExpire(t)
                           \/ TickEarly(t) \/ TickRetry(t)
    BY <1>11 DEF Tick
  <2>2. t.receipt \in Receipts
    BY DEF TimerRow
  <2>3. receipts[t.receipt].retry_count \in Nat
    BY <2>2 DEF ReceiptRow
  <2> QED
    BY <2>1, <2>3 DEF TickDone, TickExpire, TickEarly, TickRetry, Take
<1>12. CASE SetExpired
  <2>1. current.receipt \in Receipts
    BY <1>12 DEF SetExpired, TimerRow
  <2>2. receipts' \in [Receipts -> ReceiptRow]
    BY <1>12, <2>1, ClosedRow DEF SetExpired, TerminalStates
  <2> QED
    BY <1>12, <2>2 DEF SetExpired
<1>13. CASE Redeliver
  <2>1. current.receipt \in Receipts
    BY <1>13 DEF Redeliver, TimerRow
  <2> QED
    BY <1>13, <2>1 DEF Redeliver
<1>14. CASE IncrementRetry
  <2>1. current.receipt \in Receipts
    BY <1>14 DEF IncrementRetry, TimerRow
  <2>2. receipts' \in [Receipts -> ReceiptRow]
    BY <1>14, <2>1 DEF IncrementRetry, ReceiptRow
  <2> QED
    BY <1>14, <2>2 DEF IncrementRetry
<1>15. CASE Recheck
  <2>1. current.receipt \in Receipts
    BY <1>15 DEF Recheck, TimerRow
  <2> QED
    BY <1>15, <2>1 DEF Recheck, ReceiptRow
<1>16. CASE ScheduleNext
  <2>1. current.receipt \in Receipts
    BY <1>16 DEF ScheduleNext, TimerRow
  <2>2. NextRetryAt(current.receipt, attempt) \in Nat
    BY <2>1, NextRetryAtType
  <2>3. timers' \subseteq TimerRow
    BY <1>16, <2>1, <2>2, InsertTimerType DEF ScheduleNext
  <2> QED
    BY <1>16, <2>3 DEF ScheduleNext
<1>17. CASE DeleteFired
  BY <1>17 DEF DeleteFired, Released, NoTimer, TimerRow
<1>18. CASE EngineMissesReceipt \/ EngineError
  BY <1>18 DEF EngineMissesReceipt, EngineError, EngineStops, Released, NoTimer,
               TimerRow
<1>19. CASE SelectEligible
  BY <1>19 DEF SelectEligible
<1>20. CASE DeleteSelected
  <2>1. receipts' \in [Receipts -> ReceiptRow]
    BY <1>20 DEF DeleteSelected, ReceiptRow
  <2> QED
    BY <1>20, <2>1 DEF DeleteSelected
<1>21. CASE ClockTick
  BY <1>21 DEF ClockTick
<1>22. CASE Crash
  BY <1>22 DEF Crash, Released, NoTimer, TimerRow
<1>23. CASE Restart
  BY <1>23 DEF Restart
<1>24. CASE UNCHANGED vars
  BY <1>24 DEF vars
<1> QED
  BY <1>1, <1>2, <1>3, <1>4, <1>5, <1>6, <1>7, <1>8, <1>9, <1>10, <1>11, <1>12,
     <1>13, <1>14, <1>15, <1>16, <1>17, <1>18, <1>19, <1>20, <1>21, <1>22,
     <1>23, <1>24 DEF Next, EngineStep

\* Every reachable state is well typed, and the engine has a timer in hand
\* exactly while it handles one (timers/engine.go, timers/retry.go).
THEOREM TypeCorrect == Spec => []TypeOK
<1>1. Init => TypeOK
  BY InitType
<1>2. TypeOK /\ [Next]_vars => TypeOK'
  BY NextType
<1> QED
  BY <1>1, <1>2, PTL DEF Spec

-----------------------------------------------------------------------------
(* The inductive invariant.  Each part is the fact one property rests on.  *)

\* The timer rows the engine still knows of: in the table, claimed, in hand.
Known == timers \cup batch \cup (IF pc \in Handling THEN {current} ELSE {})

\* Rows with one id are about one receipt, so deleting the fired row by its id
\* never takes the timer of another receipt.
RowsAgree == \A s, t \in Known : s.id = t.id => s.receipt = t.receipt

\* A timer is only ever made for a receipt that was ingested.
ReceiptsKnown ==
    /\ \A t \in Known : receipts[t.receipt].state # "absent"
    /\ \A r \in Receipts : request[r] = "new" <=> receipts[r].state = "absent"

\* Before its row exists a receipt has not been redelivered.
AbsentUntouched ==
    \A r \in Receipts : receipts[r].state = "absent" =>
        published[r] = 0 /\ late[r] = 0 /\ receipts[r].retry_count = 0

\* Cancelling deletes the timers of closed receipts only.
CancellingClosed ==
    \A r \in cancelling : Terminal(r) \/ receipts[r].state = "swept"

\* The fired row may go: an open receipt has another.
OtherTimer ==
    pc = "delete" =>
        \A r \in Receipts : request[r] = "seeded" /\ Open(r) =>
            \E t \in timers : t.receipt = r /\ t.id # current.id

\* Claimed rows are in the engine's hands only between Claim and the next poll.
BatchFiring == pc \notin {"fire"} \cup Handling => batch = {}

\* The attempt being made is the next one, it is due and within the cap, unless
\* the receipt was closed meanwhile.
AttemptDue ==
    pc \in {"redeliver", "increment"} /\ Open(current.receipt) =>
        /\ receipts[current.receipt].retry_count < MaxAttempts
        /\ now >= NextRetryAt(current.receipt,
                              receipts[current.receipt].retry_count)

\* The decision to expire still holds when it is carried out.
ExpireDecided ==
    pc = "expire" /\ Open(current.receipt) =>
        \/ receipts[current.receipt].retry_count >= MaxAttempts
        \/ tick_now >= receipts[current.receipt].created_at + Expire

\* An open receipt has no late redelivery, nor has one about to be redelivered.
LateOnce ==
    /\ \A r \in Receipts : Open(r) => late[r] = 0
    /\ pc = "redeliver" => late[current.receipt] = 0

\* What the collector selected it may still delete.
Retained(r) ==
    \/ Terminal(r) /\ receipts[r].closed_at + Retention <= now
    \/ receipts[r].expires_at > 0 /\ receipts[r].expires_at + Retention <= now

SweepDecided == \A r \in sweeping : Exists(r) /\ Retained(r)

TimerInv == RowsAgree /\ ReceiptsKnown /\ CancellingClosed /\ OtherTimer
            /\ AlertKeepsTimer /\ BatchFiring /\ ClaimsHeld
AttemptInv == AbsentUntouched /\ AttemptDue /\ ExpireDecided /\ LateOnce
              /\ AtMostOneLateRedelivery /\ RedeliveriesCounted /\ PaceKept
              /\ NoEarlyExpiry
IInv == TypeOK /\ TimerInv /\ AttemptInv /\ SweepDecided

-----------------------------------------------------------------------------
(* What one step may do to a receipt row that exists or existed.           *)

RowStep(r) ==
    /\ receipts'[r].state # "absent"
    /\ Open(r)' => Open(r)
    /\ receipts'[r].created_at = receipts[r].created_at
    /\ receipts'[r].expires_at = receipts[r].expires_at
    /\ ~Open(r) => /\ receipts'[r].closed_at = receipts[r].closed_at
                   /\ receipts'[r].state \in {receipts[r].state, "swept"}
    /\ receipts'[r].retry_count # receipts[r].retry_count =>
            /\ IncrementRetry /\ r = current.receipt /\ Open(r)
            /\ receipts'[r].retry_count = receipts[r].retry_count + 1

\* A row is never reopened or recreated, its instants of creation and closing
\* stay, and only IncrementRetry counts an attempt.
LEMMA RowSteps ==
    ASSUME TypeOK, ReceiptsKnown, [Next]_vars, NEW r \in Receipts,
           receipts[r].state # "absent"
    PROVE  RowStep(r)
<1> USE DEF RowStep, Open, OpenStates
<1>0. receipts \in [Receipts -> ReceiptRow] /\ receipts[r] \in ReceiptRow
  BY DEF TypeOK
<1>1. CASE receipts' = receipts
  BY <1>1
<1>2. ASSUME NEW q \in Receipts, NEW e \in RequestedExpires, Ingest(q, e)
      PROVE  RowStep(r)
  BY <1>0, <1>2 DEF Ingest, ReceiptsKnown
<1>c. ASSUME NEW q \in Receipts, NEW s \in TerminalStates, NEW at \in Nat,
             receipts[q].state \in {"pending", "delivered"},
             receipts' = Closed(q, s, at)
      PROVE  RowStep(r)
  <2>1. s \notin {"absent", "pending", "delivered"}
    BY DEF TerminalStates
  <2>2. CASE q = r
    BY <1>c, <2>1, <2>2, ClosedRow
  <2>3. CASE q # r
    BY <1>c, <2>3, ClosedRow, <1>1
  <2> QED
    BY <2>2, <2>3
<1>3. ASSUME NEW q \in Receipts, Acknowledge(q) PROVE RowStep(r)
  BY <1>3, <1>c DEF Acknowledge, TypeOK, TerminalStates
<1>4. ASSUME NEW q \in Receipts, CancelPending(q) PROVE RowStep(r)
  BY <1>4, <1>c DEF CancelPending, TypeOK, TerminalStates
<1>5. CASE SetExpired
  <2>1. current.receipt \in Receipts
    BY <1>5 DEF SetExpired, TypeOK, Handling, TimerRow
  <2> QED
    BY <1>5, <2>1, <1>1, <1>c DEF SetExpired, TypeOK, TerminalStates
<1>6. CASE IncrementRetry
  BY <1>0, <1>6 DEF IncrementRetry, ReceiptRow
<1>7. CASE DeleteSelected
  BY <1>0, <1>7 DEF DeleteSelected, ReceiptRow
<1>8. ASSUME NEW q \in Receipts,
             \/ SeedRetry(q) \/ SeedRetryFails(q)
             \/ DeleteTimers(q) \/ DeleteTimersFails(q)
      PROVE  receipts' = receipts
  BY <1>8 DEF SeedRetry, SeedRetryFails, DeleteTimers, DeleteTimersFails
<1>9. CASE Recover \/ Claim \/ FireDone \/ Tick \/ Redeliver \/ Recheck
           \/ ScheduleNext \/ DeleteFired \/ EngineMissesReceipt \/ EngineError
  <2>1. receipts' = receipts
    BY <1>9 DEF Recover, Claim, FireDone, Tick, Take, TickDone, TickExpire,
       TickEarly, TickRetry, Redeliver, Recheck, ScheduleNext, DeleteFired,
       EngineMissesReceipt, EngineError, EngineStops
  <2> QED
    BY <2>1, <1>1
<1>10. CASE SelectEligible \/ ClockTick \/ Crash \/ Restart \/ UNCHANGED vars
  <2>1. receipts' = receipts
    BY <1>10 DEF SelectEligible, ClockTick, Crash, Restart, vars
  <2> QED
    BY <2>1, <1>1
<1> QED
  BY <1>1, <1>2, <1>3, <1>4, <1>5, <1>6, <1>7, <1>8, <1>9, <1>10
  DEF Next, EngineStep

\* A receipt without a row stays so until it is ingested.
AbsentStep(r) ==
    \/ receipts'[r] = receipts[r] /\ request'[r] = request[r]
       /\ published'[r] = published[r] /\ late'[r] = late[r]
    \/ /\ receipts'[r].state = "pending" /\ receipts'[r].retry_count = 0
       /\ request'[r] = "ingested"
       /\ published'[r] = published[r] /\ late'[r] = late[r]

\* A receipt without a row only changes by its ingestion.
LEMMA AbsentSteps ==
    ASSUME TypeOK, ReceiptsKnown, SweepDecided, [Next]_vars, NEW r \in Receipts,
           receipts[r].state = "absent"
    PROVE  AbsentStep(r)
<1> USE DEF AbsentStep, historyVars
<1>0. request[r] = "new" /\ ~Open(r)
  BY DEF ReceiptsKnown, Open, OpenStates
<1>1. CASE UNCHANGED <<receipts, request, published, late>>
  BY <1>1
<1>2. ASSUME NEW q \in Receipts, NEW e \in RequestedExpires, Ingest(q, e)
      PROVE  AbsentStep(r)
  BY <1>0, <1>2 DEF Ingest, TypeOK
<1>3. ASSUME NEW q \in Receipts, SeedRetry(q) \/ SeedRetryFails(q)
      PROVE  AbsentStep(r)
  BY <1>0, <1>3 DEF SeedRetry, SeedRetryFails, TypeOK
<1>4. ASSUME NEW q \in Receipts, NEW s \in TerminalStates, NEW at \in Nat, Open(q),
             receipts' = Closed(q, s, at), UNCHANGED <<request, published, late>>
      PROVE  AbsentStep(r)
  BY <1>0, <1>4, ClosedRow
<1>5. ASSUME NEW q \in Receipts, Acknowledge(q) \/ CancelPending(q)
      PROVE  AbsentStep(r)
  BY <1>4, <1>5 DEF Acknowledge, CancelPending, TerminalStates, TypeOK, Open,
     OpenStates
<1>6. CASE SetExpired
  <2>1. current.receipt \in Receipts
    BY <1>6 DEF SetExpired, TypeOK, Handling, TimerRow
  <2> QED
    BY <2>1, <1>1, <1>4, <1>6 DEF SetExpired, TypeOK, TerminalStates
<1>7. CASE IncrementRetry
  BY <1>0, <1>7 DEF IncrementRetry, TypeOK
<1>8. CASE Redeliver
  <2>1. current.receipt # r
    BY <1>8 DEF Redeliver, Exists, States, OpenStates, TerminalStates
  <2> QED
    BY <2>1, <1>8 DEF Redeliver, TypeOK
<1>9. CASE DeleteSelected
  <2>1. r \notin sweeping
    BY DEF SweepDecided, Exists, States, OpenStates, TerminalStates
  <2> QED
    BY <2>1, <1>9 DEF DeleteSelected
<1>10. CASE Crash
  BY <1>0, <1>10 DEF Crash
<1>11. ASSUME NEW q \in Receipts, DeleteTimers(q) \/ DeleteTimersFails(q)
      PROVE  AbsentStep(r)
  BY <1>1, <1>11 DEF DeleteTimers, DeleteTimersFails
<1>12. CASE Recover \/ Claim \/ FireDone \/ Tick \/ Recheck \/ ScheduleNext
            \/ DeleteFired \/ EngineMissesReceipt \/ EngineError
  BY <1>1, <1>12 DEF Recover, Claim, FireDone, Tick, Take, TickDone, TickExpire,
     TickEarly, TickRetry, Recheck, ScheduleNext, DeleteFired,
     EngineMissesReceipt, EngineError, EngineStops
<1>13. CASE SelectEligible \/ ClockTick \/ Restart \/ UNCHANGED vars
  BY <1>1, <1>13 DEF SelectEligible, ClockTick, Restart, vars
<1> QED
  BY <1>2, <1>3, <1>5, <1>6, <1>7, <1>8, <1>9, <1>10, <1>11, <1>12, <1>13
  DEF Next, EngineStep

-----------------------------------------------------------------------------
(* What one step may do to the timer rows.                                 *)

OldRow(t) == \E s \in Known : s.id = t.id /\ s.receipt = t.receipt

\* One row may be new: a fresh id, for a receipt that was ingested.
RowsStep ==
    \/ \A t \in Known' : OldRow(t)
    \/ \E i \in FreshIds, q \in Receipts :
          /\ receipts[q].state # "absent"
          /\ \A t \in Known' : OldRow(t) \/ (t.id = i /\ t.receipt = q)

\* INSERT INTO timers adds one row, with a fresh id.
LEMMA InsertTimerStep ==
    ASSUME NEW r \in Receipts, NEW at \in Nat, InsertTimer(r, at)
    PROVE  \E i \in FreshIds, new \in TimerRow :
              /\ timers' = timers \cup {new}
              /\ new.id = i /\ new.receipt = r /\ ~new.claimed
<1>1. PICK i \in FreshIds :
        timers' = timers \cup {[id |-> i, receipt |-> r, fire_at |-> at,
                                claimed |-> FALSE]}
  BY Zenon DEF InsertTimer
<1>2. DEFINE new == [id |-> i, receipt |-> r, fire_at |-> at, claimed |-> FALSE]
<1>3. new.id = i /\ new.receipt = r /\ ~new.claimed
  OBVIOUS
<1>4. new \in TimerRow
  BY DEF FreshIds, TimerRow
<1> QED
  BY <1>1, <1>3, <1>4

\* A step makes at most one row the engine did not know of.
LEMMA RowsSteps ==
    ASSUME TypeOK, ReceiptsKnown, [Next]_vars
    PROVE  RowsStep
<1> USE DEF OldRow, Goto
<1>1. CASE /\ timers' \subseteq timers /\ batch' \subseteq batch
           /\ pc' \in Handling => pc \in Handling /\ current' = current
  BY <1>1 DEF RowsStep, Known
<1>2. ASSUME NEW r \in Receipts, SeedRetry(r) PROVE RowsStep
  <2>1. receipts[r].created_at \in Nat /\ receipts[r].state # "absent"
    BY <1>2 DEF SeedRetry, TypeOK, ReceiptRow, ReceiptsKnown
  <2>2. PICK i \in FreshIds, new \in TimerRow :
          /\ timers' = timers \cup {new}
          /\ new.id = i /\ new.receipt = r
    BY <1>2, <2>1, InsertTimerStep DEF SeedRetry
  <2>3. UNCHANGED <<batch, pc, current>>
    BY <1>2 DEF SeedRetry, engineVars
  <2> QED
    BY <2>1, <2>2, <2>3 DEF RowsStep, Known
<1>3. CASE ScheduleNext
  <2>1. current \in TimerRow /\ current.receipt \in Receipts /\ current \in Known
    BY <1>3 DEF ScheduleNext, TypeOK, Handling, TimerRow, Known
  <2>2. receipts[current.receipt].state # "absent"
    BY <2>1 DEF ReceiptsKnown
  <2>3. NextRetryAt(current.receipt, attempt) \in Nat
    BY <2>1, NextRetryAtType DEF TypeOK
  <2>4. PICK i \in FreshIds, new \in TimerRow :
          /\ timers' = timers \cup {new}
          /\ new.id = i /\ new.receipt = current.receipt
    BY <1>3, <2>1, <2>3, InsertTimerStep DEF ScheduleNext
  <2>5. batch' = batch /\ pc \in Handling /\ current' = current
    BY <1>3 DEF ScheduleNext, Handling
  <2> QED
    BY <2>1, <2>2, <2>4, <2>5 DEF RowsStep, Known
<1>4. CASE Recover
  <2>1. timers \in SUBSET TimerRow /\ timers' = SetClaimed(timers, FALSE)
    BY <1>4 DEF Recover, TypeOK
  <2>2. \A u \in SetClaimed(timers, FALSE) :
           \E t \in timers : t.id = u.id /\ t.receipt = u.receipt
    BY <2>1, SetClaimedRows
  <2>3. \A t \in timers' : OldRow(t)
    BY <2>1, <2>2 DEF Known
  <2> QED
    BY <1>4, <2>3 DEF Recover, RowsStep, Known, Handling
<1>5. CASE Claim
  <2>1. PICK C \in SUBSET Due :
          /\ batch' = SetClaimed(C, TRUE)
          /\ timers' = (timers \ C) \cup batch'
    BY <1>5 DEF Claim
  <2>2. C \subseteq timers /\ C \in SUBSET TimerRow
    BY DEF Due, TypeOK
  <2>6. \A u \in SetClaimed(C, TRUE) :
           \E t \in C : t.id = u.id /\ t.receipt = u.receipt
    BY <2>2, SetClaimedRows
  <2>3. \A t \in batch' : OldRow(t)
    BY <2>1, <2>2, <2>6 DEF Known
  <2>4. \A t \in timers : OldRow(t)
    BY DEF Known
  <2>5. pc' \notin Handling
    BY <1>5 DEF Claim, Handling
  <2> QED
    BY <2>1, <2>3, <2>4, <2>5 DEF RowsStep, Known
<1>6. CASE Tick
  <2>1. PICK t \in batch : Take(t) /\ current' = t
    BY <1>6 DEF Tick, TickDone, TickExpire, TickEarly, TickRetry
  <2> QED
    BY <2>1 DEF Take, RowsStep, Known
<1>7. CASE FireDone \/ SetExpired \/ Redeliver \/ IncrementRetry \/ Recheck
  BY <1>1, <1>7 DEF FireDone, SetExpired, Redeliver, IncrementRetry, Recheck,
     Handling
<1>8. CASE DeleteFired \/ EngineMissesReceipt \/ EngineError
  BY <1>1, <1>8 DEF DeleteFired, EngineMissesReceipt, EngineError, EngineStops,
     Handling
<1>9. ASSUME NEW r \in Receipts,
             \/ \E e \in RequestedExpires : Ingest(r, e)
             \/ SeedRetryFails(r) \/ Acknowledge(r) \/ CancelPending(r)
             \/ DeleteTimers(r) \/ DeleteTimersFails(r)
      PROVE  RowsStep
  BY <1>1, <1>9 DEF Ingest, SeedRetryFails, Acknowledge, CancelPending,
     DeleteTimers, DeleteTimersFails, engineVars
<1>10. CASE SelectEligible \/ DeleteSelected \/ ClockTick \/ Crash \/ Restart
            \/ UNCHANGED vars
  BY <1>1, <1>10 DEF SelectEligible, DeleteSelected, ClockTick, Crash, Restart,
     vars, engineVars, Handling
<1> QED
  BY <1>1, <1>2, <1>3, <1>4, <1>5, <1>6, <1>7, <1>8, <1>9, <1>10
  DEF Next, EngineStep

-----------------------------------------------------------------------------
(* The parts of TimerInv.                                                  *)

\* Fresh ids keep rows of different receipts apart.
LEMMA RowsAgreeStep ==
    ASSUME TypeOK, RowsAgree, ReceiptsKnown, [Next]_vars
    PROVE  RowsAgree'
<1>1. ASSUME NEW t, OldRow(t), NEW i \in FreshIds PROVE t.id # i
  BY <1>1 DEF OldRow, Known, FreshIds
<1>2. CASE \A t \in Known' : OldRow(t)
  BY <1>2 DEF RowsAgree, OldRow
<1>3. ASSUME NEW i \in FreshIds, NEW q \in Receipts,
             \A t \in Known' : OldRow(t) \/ (t.id = i /\ t.receipt = q)
      PROVE  RowsAgree'
  BY <1>1, <1>3 DEF RowsAgree, OldRow
<1> QED
  BY <1>2, <1>3, RowsSteps DEF RowsStep

\* Every known row is a timer row of some receipt.
LEMMA KnownType == TypeOK => \A t \in Known : t \in TimerRow /\ t.receipt \in Receipts
BY DEF TypeOK, Known, TimerRow

\* No step makes a timer for a receipt without a row, or forgets a receipt.
LEMMA ReceiptsKnownStep ==
    ASSUME TypeOK, ReceiptsKnown, SweepDecided, [Next]_vars
    PROVE  ReceiptsKnown'
<1>1. ASSUME NEW t \in Known' PROVE receipts'[t.receipt].state # "absent"
  <2>1. t.receipt \in Receipts /\ receipts[t.receipt].state # "absent"
    BY RowsSteps, KnownType DEF RowsStep, OldRow, ReceiptsKnown
  <2> QED
    BY <2>1, RowSteps DEF RowStep
<1>2. ASSUME NEW r \in Receipts, receipts[r].state # "absent"
      PROVE  request'[r] # "new" /\ receipts'[r].state # "absent"
  <2>1. request[r] # "new"
    BY <1>2 DEF ReceiptsKnown
  <2>2. request'[r] # "new"
    BY <2>1 DEF TypeOK, Next, EngineStep, vars, Ingest, SeedRetry, SeedRetryFails,
       Acknowledge, CancelPending, DeleteTimers, DeleteTimersFails, Recover, Claim,
       FireDone, Tick, TickDone, TickExpire, TickEarly, TickRetry, Take, SetExpired,
       Redeliver, IncrementRetry, Recheck, ScheduleNext, DeleteFired,
       EngineMissesReceipt, EngineError, EngineStops, SelectEligible,
       DeleteSelected, ClockTick, Crash, Restart
  <2> QED
    BY <2>2, <1>2, RowSteps DEF RowStep
<1>3. ASSUME NEW r \in Receipts, receipts[r].state = "absent"
      PROVE  request'[r] = "new" <=> receipts'[r].state = "absent"
  BY <1>3, AbsentSteps DEF AbsentStep, ReceiptsKnown
<1> QED
  BY <1>1, <1>2, <1>3 DEF ReceiptsKnown

\* A receipt being canceled stays closed.
LEMMA CancellingClosedStep ==
    ASSUME TypeOK, ReceiptsKnown, CancellingClosed, [Next]_vars
    PROVE  CancellingClosed'
<1> DEFINE Shut(r) == receipts[r].state \in TerminalStates \cup {"swept"}
<1>1. ASSUME NEW r \in Receipts, Shut(r) PROVE Shut(r)'
  <2>1. receipts[r].state # "absent" /\ ~Open(r)
    BY <1>1 DEF TerminalStates, Open, OpenStates
  <2> QED
    BY <1>1, <2>1, RowSteps DEF RowStep
<1>2. cancelling \subseteq Receipts /\ \A r \in cancelling : Shut(r)
  BY DEF CancellingClosed, Terminal, TypeOK
<1>3. CASE cancelling' \subseteq cancelling
  BY <1>1, <1>2, <1>3 DEF CancellingClosed, Terminal
<1>4. ASSUME NEW q \in Receipts, CancelPending(q) PROVE CancellingClosed'
  <2>1. cancelling' = cancelling \cup {q} /\ receipts'[q].state = "canceled"
    BY <1>4, ClosedRow DEF CancelPending, TypeOK, TerminalStates
  <2> QED
    BY <1>1, <1>2, <2>1 DEF CancellingClosed, Terminal, TerminalStates
<1>5. ASSUME NEW q \in Receipts,
             \/ \E e \in RequestedExpires : Ingest(q, e)
             \/ SeedRetry(q) \/ SeedRetryFails(q) \/ Acknowledge(q)
             \/ DeleteTimers(q) \/ DeleteTimersFails(q)
      PROVE  cancelling' \subseteq cancelling
  BY <1>5 DEF Ingest, SeedRetry, SeedRetryFails, Acknowledge, DeleteTimers,
     DeleteTimersFails
<1>6. CASE EngineStep \/ EngineError
  BY <1>3, <1>6 DEF EngineStep, Recover, Claim, FireDone, Tick, Take, TickDone,
     TickExpire, TickEarly, TickRetry, SetExpired, Redeliver, IncrementRetry,
     Recheck, ScheduleNext, DeleteFired, EngineMissesReceipt, EngineError,
     EngineStops
<1>7. CASE SelectEligible \/ DeleteSelected \/ ClockTick \/ Crash \/ Restart
           \/ UNCHANGED vars
  BY <1>3, <1>7 DEF SelectEligible, DeleteSelected, ClockTick, Crash, Restart, vars
<1> QED
  BY <1>3, <1>4, <1>5, <1>6, <1>7 DEF Next

\* Another receipt's row is not the one in hand.
LEMMA OtherReceiptOtherRow ==
    ASSUME RowsAgree, NEW s \in Known, NEW t \in Known, s.receipt # t.receipt
    PROVE  s.id # t.id
BY DEF RowsAgree

\* A seeded receipt that is open after the step has a timer, and one that the
\* deletion of the fired row leaves alone.
Alerted(r) ==
    /\ \E t \in timers : t.receipt = r
    /\ pc = "delete" => \E t \in timers : t.receipt = r /\ t.id # current.id

\* An alert that stays open is alerted after the step, whoever takes it.
LEMMA AlertedStep ==
    ASSUME TypeOK, TimerInv, [Next]_vars,
           NEW r \in Receipts, request'[r] = "seeded", Open(r)'
    PROVE  Alerted(r)'
<1> USE DEF Alerted, Goto
<1>1. ASSUME NEW q \in Receipts, SeedRetry(q), q = r PROVE Alerted(r)'
  <2>1. receipts[q].created_at \in Nat
    BY DEF TypeOK, ReceiptRow
  <2>2. PICK i \in FreshIds, new \in TimerRow :
          timers' = timers \cup {new} /\ new.id = i /\ new.receipt = q
    BY <1>1, <2>1, InsertTimerStep DEF SeedRetry
  <2> QED
    BY <1>1, <2>2 DEF SeedRetry, engineVars, FreshIds
<1>2. ASSUME request[r] # "seeded"
      PROVE  \E q \in Receipts : SeedRetry(q) /\ q = r
  BY <1>2 DEF TypeOK, Next, EngineStep, vars, Ingest, SeedRetry, SeedRetryFails,
       Acknowledge, CancelPending, DeleteTimers, DeleteTimersFails, Recover, Claim,
       FireDone, Tick, TickDone, TickExpire, TickEarly, TickRetry, Take, SetExpired,
       Redeliver, IncrementRetry, Recheck, ScheduleNext, DeleteFired,
       EngineMissesReceipt, EngineError, EngineStops, SelectEligible,
       DeleteSelected, ClockTick, Crash, Restart
<1> SUFFICES ASSUME request[r] = "seeded" PROVE Alerted(r)'
  BY <1>1, <1>2
<1>3. receipts[r].state # "absent" /\ RowStep(r) /\ Open(r)
  BY RowSteps DEF TimerInv, ReceiptsKnown, RowStep
<1>4. PICK u \in timers : u.receipt = r /\ (pc = "delete" => u.id # current.id)
  BY <1>3 DEF TimerInv, AlertKeepsTimer, OtherTimer
<1>5. u \in Known /\ u.id \in TimerIds
  BY DEF Known, TypeOK, TimerRow
<1>6. CASE /\ u \in timers'
           /\ pc' = "delete" => pc = "delete" /\ current' = current
  BY <1>4, <1>6
<1>7. CASE Recover
  <2>1. timers \in SUBSET TimerRow /\ timers' = SetClaimed(timers, FALSE)
    BY <1>7 DEF Recover, TypeOK
  <2>2. \A t \in timers : \E v \in SetClaimed(timers, FALSE) :
           v.id = t.id /\ v.receipt = t.receipt
    BY <2>1, SetClaimedRows
  <2> QED
    BY <1>4, <1>7, <2>1, <2>2 DEF Recover
<1>8. CASE Claim
  <2>1. PICK C \in SUBSET Due : timers' = (timers \ C) \cup SetClaimed(C, TRUE)
    BY <1>8 DEF Claim
  <2>2. C \in SUBSET TimerRow
    BY DEF Due, TypeOK
  <2>3. u \in C => \E v \in SetClaimed(C, TRUE) : v.id = u.id /\ v.receipt = u.receipt
    BY <2>2, SetClaimedRows
  <2> QED
    BY <1>4, <1>8, <2>1, <2>3 DEF Claim
<1>9. CASE Tick
  <2>1. PICK t \in batch : \/ TickDone(t) \/ TickExpire(t)
                           \/ TickEarly(t) \/ TickRetry(t)
    BY <1>9 DEF Tick
  <2>2. CASE TickDone(t)
    <3>1. t.receipt # r
      BY <1>3, <2>2 DEF TickDone, Terminal, TerminalStates, Open, OpenStates
    <3>2. u.id # t.id
      BY <1>4, <1>5, <3>1, OtherReceiptOtherRow DEF TimerInv, Known
    <3> QED
      BY <1>4, <2>2, <3>2 DEF TickDone, Take
  <2>3. CASE TickExpire(t) \/ TickEarly(t) \/ TickRetry(t)
    BY <1>6, <2>3 DEF TickExpire, TickEarly, TickRetry, Take
  <2> QED
    BY <2>1, <2>2, <2>3
<1>10. ASSUME pc \in Handling, current.receipt # r PROVE u.id # current.id
  BY <1>4, <1>5, <1>10, OtherReceiptOtherRow DEF TimerInv, Known
<1>11. CASE SetExpired
  <2>1. current.receipt \in Receipts /\ pc \in Handling
    BY <1>11 DEF SetExpired, TypeOK, Handling, TimerRow
  <2>2. current.receipt # r
    BY <1>3, <1>11, <2>1, ClosedRow DEF SetExpired, Open, OpenStates, TerminalStates,
       TypeOK
  <2> QED
    BY <1>4, <1>10, <1>11, <2>1, <2>2 DEF SetExpired
<1>12. CASE ScheduleNext
  <2>1. current.receipt \in Receipts /\ pc \in Handling
    BY <1>12 DEF ScheduleNext, TypeOK, Handling, TimerRow
  <2>2. NextRetryAt(current.receipt, attempt) \in Nat
    BY <2>1, NextRetryAtType DEF TypeOK
  <2>3. PICK i \in FreshIds, new \in TimerRow :
          timers' = timers \cup {new} /\ new.id = i /\ new.receipt = current.receipt
    BY <1>12, <2>1, <2>2, InsertTimerStep DEF ScheduleNext
  <2>4. i # current.id
    BY DEF FreshIds
  <2>5. CASE current.receipt = r
    BY <1>12, <2>3, <2>4, <2>5 DEF ScheduleNext
  <2>6. CASE current.receipt # r
    BY <1>4, <1>10, <1>12, <2>1, <2>3, <2>6 DEF ScheduleNext
  <2> QED
    BY <2>5, <2>6
<1>13. CASE DeleteFired
  BY <1>4, <1>13 DEF DeleteFired
<1>14. CASE DeleteSelected
  <2>1. r \notin sweeping
    BY <1>14 DEF DeleteSelected, Open, OpenStates, TypeOK, ReceiptRow
  <2> QED
    BY <1>4, <1>6, <1>14, <2>1 DEF DeleteSelected, engineVars
<1>15. ASSUME NEW q \in Receipts, DeleteTimers(q) PROVE Alerted(r)'
  <2>1. q # r
    BY <1>3, <1>15 DEF DeleteTimers, TimerInv, CancellingClosed, Terminal,
       TerminalStates, Open, OpenStates
  <2> QED
    BY <1>4, <1>6, <1>15, <2>1 DEF DeleteTimers, engineVars
<1>16. ASSUME NEW q \in Receipts,
              \/ \E e \in RequestedExpires : Ingest(q, e)
              \/ SeedRetryFails(q) \/ Acknowledge(q) \/ CancelPending(q)
              \/ DeleteTimersFails(q)
       PROVE  Alerted(r)'
  BY <1>6, <1>16 DEF Ingest, SeedRetryFails, Acknowledge, CancelPending,
     DeleteTimersFails, engineVars
<1>17. ASSUME NEW q \in Receipts, SeedRetry(q) PROVE Alerted(r)'
  BY <1>6, <1>17 DEF SeedRetry, InsertTimer, engineVars
<1>18. CASE FireDone \/ Redeliver \/ IncrementRetry \/ Recheck
            \/ EngineMissesReceipt \/ EngineError
  BY <1>6, <1>18 DEF FireDone, Redeliver, IncrementRetry, Recheck,
     EngineMissesReceipt, EngineError, EngineStops
<1>19. CASE SelectEligible \/ ClockTick \/ Crash \/ Restart \/ UNCHANGED vars
  BY <1>6, <1>19 DEF SelectEligible, ClockTick, Crash, Restart, vars, engineVars
<1> QED
  BY <1>7, <1>8, <1>9, <1>11, <1>12, <1>13, <1>14, <1>15, <1>16, <1>17, <1>18,
     <1>19 DEF Next, EngineStep

\* The batch is empty outside a poll.
LEMMA BatchFiringStep ==
    ASSUME TypeOK, BatchFiring, [Next]_vars
    PROVE  BatchFiring'
<1> USE DEF BatchFiring, Handling, Goto
<1>1. CASE UNCHANGED <<pc, batch>>
  BY <1>1
<1>2. CASE EngineStep \/ EngineError
  BY <1>2 DEF EngineStep, Recover, Claim, FireDone, Tick, Take, TickDone,
     TickExpire, TickEarly, TickRetry, SetExpired, Redeliver, IncrementRetry,
     Recheck, ScheduleNext, DeleteFired, EngineMissesReceipt, EngineError,
     EngineStops
<1>3. CASE \/ SelectEligible \/ DeleteSelected \/ ClockTick \/ Crash \/ Restart
           \/ UNCHANGED vars
  BY <1>3 DEF SelectEligible, DeleteSelected, ClockTick, Crash, Restart, vars,
     engineVars
<1>4. ASSUME NEW q \in Receipts,
             \/ \E e \in RequestedExpires : Ingest(q, e)
             \/ SeedRetry(q) \/ SeedRetryFails(q) \/ Acknowledge(q)
             \/ CancelPending(q) \/ DeleteTimers(q) \/ DeleteTimersFails(q)
      PROVE  BatchFiring'
  BY <1>1, <1>4 DEF Ingest, SeedRetry, SeedRetryFails, Acknowledge, CancelPending,
     DeleteTimers, DeleteTimersFails, engineVars
<1> QED
  BY <1>2, <1>3, <1>4 DEF Next

\* Claims come and go with the batch and the timer in hand.
LEMMA ClaimsHeldStep ==
    ASSUME TypeOK, BatchFiring, ClaimsHeld, [Next]_vars
    PROVE  ClaimsHeld'
<1> USE DEF ClaimsHeld, Running, Goto
<1>1. CASE UNCHANGED <<pc, batch, current>> /\ \A t \in timers' : t.claimed => t \in timers
  BY <1>1
<1>2. ASSUME NEW r \in Receipts, SeedRetry(r) PROVE ClaimsHeld'
  <2>1. receipts[r].created_at \in Nat
    BY DEF TypeOK, ReceiptRow
  <2> QED
    BY <1>1, <1>2, <2>1, InsertTimerStep DEF SeedRetry, engineVars
<1>3. CASE ScheduleNext
  <2>1. current.receipt \in Receipts
    BY <1>3 DEF ScheduleNext, TypeOK, Handling, TimerRow
  <2>2. NextRetryAt(current.receipt, attempt) \in Nat
    BY <2>1, NextRetryAtType DEF TypeOK
  <2>3. \A t \in timers' : t.claimed => t \in timers
    BY <1>3, <2>1, <2>2, InsertTimerStep DEF ScheduleNext
  <2> QED
    BY <1>3, <2>3 DEF ScheduleNext
<1>4. CASE Recover
  <2>1. timers \in SUBSET TimerRow /\ timers' = SetClaimed(timers, FALSE)
    BY <1>4 DEF Recover, TypeOK
  <2>2. \A t \in timers' : ~t.claimed
    BY <2>1, SetClaimedRows
  <2> QED
    BY <2>2
<1>5. CASE Claim
  <2>1. batch = {}
    BY <1>5 DEF Claim, BatchFiring, Handling
  <2>2. PICK C \in SUBSET Due :
          batch' = SetClaimed(C, TRUE) /\ timers' = (timers \ C) \cup batch'
    BY <1>5 DEF Claim
  <2> QED
    BY <1>5, <2>1, <2>2 DEF Claim
<1>6. CASE Tick
  <2>1. PICK t \in batch : Take(t) /\ current' = t
    BY <1>6 DEF Tick, TickDone, TickExpire, TickEarly, TickRetry
  <2>2. \A u \in timers : u.id \in TimerIds /\ u.id # current.id
    BY <2>1, RetryAssumption DEF Take, TypeOK, Handling, NoTimer, TimerRow
  <2> QED
    BY <2>1, <2>2 DEF Take
<1>7. CASE DeleteFired
  BY <1>7 DEF DeleteFired
<1>8. CASE FireDone \/ SetExpired \/ Redeliver \/ IncrementRetry \/ Recheck
           \/ EngineMissesReceipt \/ EngineError
  BY <1>8 DEF FireDone, SetExpired, Redeliver, IncrementRetry, Recheck,
     EngineMissesReceipt, EngineError, EngineStops
<1>9. CASE \/ SelectEligible \/ DeleteSelected \/ ClockTick \/ Crash \/ Restart
           \/ UNCHANGED vars
  BY <1>1, <1>9 DEF SelectEligible, DeleteSelected, ClockTick, Crash, Restart,
     vars, engineVars
<1>10. ASSUME NEW q \in Receipts,
              \/ \E e \in RequestedExpires : Ingest(q, e)
              \/ SeedRetryFails(q) \/ Acknowledge(q) \/ CancelPending(q)
              \/ DeleteTimers(q) \/ DeleteTimersFails(q)
       PROVE  ClaimsHeld'
  BY <1>1, <1>10 DEF Ingest, SeedRetryFails, Acknowledge, CancelPending,
     DeleteTimers, DeleteTimersFails, engineVars
<1> QED
  BY <1>2, <1>3, <1>4, <1>5, <1>6, <1>7, <1>8, <1>9, <1>10 DEF Next, EngineStep

-----------------------------------------------------------------------------
(* The parts of AttemptInv.                                                *)

\* What leaves the engine's control state alone.
Outside ==
    \/ \E r \in Receipts :
          \/ \E e \in RequestedExpires : Ingest(r, e)
          \/ SeedRetry(r) \/ SeedRetryFails(r) \/ Acknowledge(r)
          \/ CancelPending(r) \/ DeleteTimers(r) \/ DeleteTimersFails(r)
    \/ SelectEligible \/ DeleteSelected \/ ClockTick \/ UNCHANGED vars

\* A step is one of an outsider, of the engine, or of the process.
LEMMA Outsiders ==
    ASSUME [Next]_vars
    PROVE  Outside \/ EngineStep \/ EngineError \/ Crash \/ Restart
BY DEF Next, Outside

\* Outsiders leave the engine and the histories of its attempts alone.
LEMMA OutsideStep ==
    ASSUME Outside
    PROVE  /\ UNCHANGED engineVars
           /\ UNCHANGED <<crashes, published, late>>
           /\ errors' \in {errors, errors + 1}
BY DEF Outside, Ingest, SeedRetry, SeedRetryFails, Acknowledge, CancelPending,
   DeleteTimers, DeleteTimersFails, SelectEligible, DeleteSelected, ClockTick,
   vars, faultVars, historyVars

\* The engine and the process do not move the clock.
LEMMA EngineKeepsClock ==
    ASSUME EngineStep \/ EngineError \/ Crash \/ Restart
    PROVE  now' = now
BY DEF EngineStep, Recover, Claim, FireDone, Tick, Take, TickDone,
   TickExpire, TickEarly, TickRetry, SetExpired, Redeliver, IncrementRetry,
   Recheck, ScheduleNext, DeleteFired, EngineMissesReceipt, EngineError,
   EngineStops, Crash, Restart

\* Time does not go back.
LEMMA ClockStep ==
    ASSUME TypeOK, [Next]_vars
    PROVE  now' \in Nat /\ now' >= now
<1>1. CASE Outside
  BY <1>1 DEF Outside, Ingest, SeedRetry, SeedRetryFails, Acknowledge,
     CancelPending, DeleteTimers, DeleteTimersFails, SelectEligible,
     DeleteSelected, ClockTick, vars, TypeOK
<1>2. CASE EngineStep \/ EngineError \/ Crash \/ Restart
  BY <1>2, EngineKeepsClock DEF TypeOK
<1> QED
  BY <1>1, <1>2, Outsiders

\* A timer in hand is about a receipt that was ingested.
LEMMA InHand ==
    ASSUME TypeOK, ReceiptsKnown, pc \in Handling
    PROVE  /\ current.receipt \in Receipts
           /\ receipts[current.receipt].state # "absent"
BY DEF TypeOK, ReceiptsKnown, Known, TimerRow

\* The numbers in a receipt row are naturals.
LEMMA RowNumbers ==
    ASSUME TypeOK, NEW r \in Receipts
    PROVE  /\ receipts[r].retry_count \in Nat /\ receipts[r].created_at \in Nat
           /\ receipts[r].expires_at \in Nat /\ receipts[r].closed_at \in Nat
BY DEF TypeOK, ReceiptRow

\* The attempt in hand stays due and within the cap.
LEMMA AttemptDueStep ==
    ASSUME TypeOK, ReceiptsKnown, AttemptDue, [Next]_vars
    PROVE  AttemptDue'
<1> USE DEF AttemptDue, Goto
<1>1. CASE pc' = pc /\ current' = current /\ ~IncrementRetry
  <2> SUFFICES ASSUME pc \in {"redeliver", "increment"}, Open(current.receipt)'
               PROVE  /\ receipts'[current.receipt].retry_count < MaxAttempts
                      /\ now' >= NextRetryAt(current.receipt,
                                        receipts[current.receipt].retry_count)'
    BY <1>1
  <2>1. current.receipt \in Receipts /\ receipts[current.receipt].state # "absent"
    BY InHand DEF Handling
  <2>2. RowStep(current.receipt)
    BY <2>1, RowSteps
  <2>3. /\ Open(current.receipt)
        /\ receipts'[current.receipt].retry_count
             = receipts[current.receipt].retry_count
        /\ receipts'[current.receipt].created_at = receipts[current.receipt].created_at
    BY <1>1, <2>2 DEF RowStep
  <2>4. /\ receipts[current.receipt].retry_count < MaxAttempts
        /\ now >= NextRetryAt(current.receipt, receipts[current.receipt].retry_count)
    BY <2>3
  <2>5. NextRetryAt(current.receipt, receipts[current.receipt].retry_count) \in Nat
    BY <2>1, RowNumbers, NextRetryAtType
  <2>6. NextRetryAt(current.receipt, receipts[current.receipt].retry_count)'
          = NextRetryAt(current.receipt, receipts[current.receipt].retry_count)
    BY <1>1, <2>3 DEF NextRetryAt
  <2>7. now >= NextRetryAt(current.receipt, receipts[current.receipt].retry_count)'
    BY <2>4, <2>6
  <2>8. now' >= NextRetryAt(current.receipt, receipts[current.receipt].retry_count)'
    BY <2>5, <2>6, <2>7, ClockStep DEF TypeOK
  <2> QED
    BY <2>3, <2>4, <2>8
<1>2. CASE Tick
  <2>1. PICK t \in batch : \/ TickDone(t) \/ TickExpire(t)
                           \/ TickEarly(t) \/ TickRetry(t)
    BY <1>2 DEF Tick
  <2>2. CASE TickRetry(t)
    <3>1. t.receipt \in Receipts
      BY DEF TypeOK, TimerRow
    <3>2. receipts[t.receipt].retry_count < MaxAttempts
      BY <2>2, <3>1, RowNumbers, RetryAssumption DEF TickRetry, ExpiredAt
    <3> QED
      BY <2>2, <3>2 DEF TickRetry, Take, NextRetryAt
  <2>3. CASE TickDone(t) \/ TickExpire(t) \/ TickEarly(t)
    BY <2>3 DEF TickDone, TickExpire, TickEarly
  <2> QED
    BY <2>1, <2>2, <2>3
<1>3. CASE Redeliver
  BY <1>3 DEF Redeliver, NextRetryAt, Open
<1>4. CASE Outside
  <2>1. pc' = pc /\ current' = current /\ (IncrementRetry => FALSE)
    BY <1>4, OutsideStep DEF IncrementRetry, engineVars
  <2> QED
    BY <1>1, <2>1
<1>5. CASE \/ Recover \/ Claim \/ FireDone \/ SetExpired \/ IncrementRetry \/ Recheck
           \/ ScheduleNext \/ DeleteFired \/ EngineMissesReceipt \/ EngineError
           \/ Crash \/ Restart
  BY <1>5 DEF Recover, Claim, FireDone, SetExpired, IncrementRetry, Recheck,
     ScheduleNext, DeleteFired, EngineMissesReceipt, EngineError, EngineStops,
     Crash, Restart
<1> QED
  BY <1>2, <1>3, <1>4, <1>5, Outsiders DEF EngineStep

\* The decision to expire stays justified until it is carried out.
LEMMA ExpireDecidedStep ==
    ASSUME TypeOK, ReceiptsKnown, ExpireDecided, [Next]_vars
    PROVE  ExpireDecided'
<1> USE DEF ExpireDecided, Goto
<1>1. CASE Outside
  <2> SUFFICES ASSUME pc = "expire", Open(current.receipt)'
               PROVE  \/ receipts'[current.receipt].retry_count >= MaxAttempts
                      \/ tick_now >= receipts'[current.receipt].created_at + Expire
    BY <1>1, OutsideStep DEF engineVars
  <2>1. current.receipt \in Receipts /\ receipts[current.receipt].state # "absent"
    BY InHand DEF Handling
  <2>2. RowStep(current.receipt) /\ ~IncrementRetry
    BY <2>1, RowSteps DEF IncrementRetry
  <2> QED
    BY <2>2 DEF RowStep
<1>2. CASE Tick
  <2>1. PICK t \in batch : \/ TickDone(t) \/ TickExpire(t)
                           \/ TickEarly(t) \/ TickRetry(t)
    BY <1>2 DEF Tick
  <2>2. CASE TickExpire(t)
    BY <2>2 DEF TickExpire, Take, ExpiredAt, Open
  <2>3. CASE TickDone(t) \/ TickRetry(t) \/ TickEarly(t)
    BY <2>3 DEF TickDone, TickRetry, TickEarly
  <2> QED
    BY <2>1, <2>2, <2>3
<1>3. CASE \/ Recover \/ Claim \/ FireDone \/ SetExpired \/ IncrementRetry \/ Recheck
           \/ ScheduleNext \/ DeleteFired \/ EngineMissesReceipt \/ EngineError
           \/ Redeliver \/ Crash \/ Restart
  BY <1>3 DEF Recover, Claim, FireDone, SetExpired, IncrementRetry, Recheck,
     ScheduleNext, DeleteFired, EngineMissesReceipt, EngineError, EngineStops,
     Redeliver, Crash, Restart
<1> QED
  BY <1>1, <1>2, <1>3, Outsiders DEF EngineStep

\* Only Redeliver changes the history of redeliveries.
LEMMA HistoryStep ==
    ASSUME TypeOK, [Next]_vars
    PROVE  \/ Redeliver
           \/ UNCHANGED <<published, late>>
<1>1. CASE Outside
  BY <1>1, OutsideStep
<1>2. CASE EngineStep \/ EngineError \/ Crash \/ Restart
  BY <1>2 DEF EngineStep, Recover, Claim, FireDone, Tick, Take, TickDone,
   TickExpire, TickEarly, TickRetry, SetExpired, IncrementRetry,
   Recheck, ScheduleNext, DeleteFired, EngineMissesReceipt, EngineError,
   EngineStops, Crash, Restart, historyVars
<1> QED
  BY <1>1, <1>2, Outsiders

\* A receipt without a row is not redelivered.
LEMMA AbsentUntouchedStep ==
    ASSUME TypeOK, ReceiptsKnown, SweepDecided, AbsentUntouched, [Next]_vars
    PROVE  AbsentUntouched'
<1> SUFFICES ASSUME NEW r \in Receipts, receipts'[r].state = "absent"
             PROVE  /\ published'[r] = 0 /\ late'[r] = 0
                    /\ receipts'[r].retry_count = 0
  BY DEF AbsentUntouched
<1>1. receipts[r].state = "absent"
  BY RowSteps DEF RowStep
<1> QED
  BY <1>1, AbsentSteps DEF AbsentStep, AbsentUntouched

\* The redelivery of a receipt closed meanwhile is its only late one.
LEMMA LateOnceStep ==
    ASSUME TypeOK, ReceiptsKnown, SweepDecided, AbsentUntouched, LateOnce,
           AtMostOneLateRedelivery, [Next]_vars
    PROVE  LateOnce' /\ AtMostOneLateRedelivery'
<1> USE DEF Goto
<1>1. CASE Redeliver
  <2>1. current.receipt \in Receipts
    BY <1>1, InHand DEF Redeliver, Handling
  <2>2. late[current.receipt] = 0 /\ late \in [Receipts -> Nat]
    BY <1>1 DEF Redeliver, LateOnce, TypeOK
  <2>3. /\ receipts' = receipts /\ pc' = "increment"
        /\ late' = IF Terminal(current.receipt)
                   THEN [late EXCEPT ![current.receipt] = 1] ELSE late
    BY <1>1, <2>1, <2>2 DEF Redeliver
  <2>4. Terminal(current.receipt) => ~Open(current.receipt)
    BY DEF Terminal, Open, TerminalStates, OpenStates
  <2> QED
    BY <2>1, <2>2, <2>3, <2>4 DEF LateOnce, AtMostOneLateRedelivery, Open
<1>2. CASE UNCHANGED <<published, late>>
  <2>1. AtMostOneLateRedelivery'
    BY <1>2 DEF AtMostOneLateRedelivery
  <2>2. ASSUME NEW r \in Receipts, Open(r)' PROVE late'[r] = 0
    <3>1. CASE receipts[r].state = "absent"
      BY <1>2, <3>1 DEF AbsentUntouched
    <3>2. CASE receipts[r].state # "absent"
      BY <1>2, <2>2, <3>2, RowSteps DEF RowStep, LateOnce
    <3> QED
      BY <3>1, <3>2
  <2>3. CASE Tick
    <3>1. PICK t \in batch : \/ TickDone(t) \/ TickExpire(t)
                             \/ TickEarly(t) \/ TickRetry(t)
      BY <2>3 DEF Tick
    <3>2. pc' = "redeliver" => Open(t.receipt) /\ current' = t
      BY <3>1 DEF TickDone, TickExpire, TickEarly, TickRetry
    <3>3. t.receipt \in Receipts
      BY DEF TypeOK, TimerRow
    <3> QED
      BY <1>2, <2>2, <3>2, <3>3, <2>1 DEF LateOnce
  <2>4. CASE UNCHANGED engineVars
    BY <1>2, <2>1, <2>2, <2>4 DEF LateOnce, engineVars
  <2>5. CASE \/ Recover \/ Claim \/ FireDone \/ SetExpired \/ IncrementRetry
             \/ Recheck \/ ScheduleNext \/ DeleteFired \/ EngineMissesReceipt
             \/ EngineError \/ Crash \/ Restart
    <3>1. pc' # "redeliver"
      BY <2>5 DEF Recover, Claim, FireDone, SetExpired, IncrementRetry, Recheck,
         ScheduleNext, DeleteFired, EngineMissesReceipt, EngineError, EngineStops,
         Crash, Restart
    <3> QED
      BY <2>1, <2>2, <3>1 DEF LateOnce
  <2> QED
    BY <1>1, <2>3, <2>4, <2>5, Outsiders, OutsideStep DEF EngineStep
<1> QED
  BY <1>1, <1>2, HistoryStep

\* The redelivery in progress that is not counted yet.
InProgress(r) == IF pc = "increment" /\ current.receipt = r THEN 1 ELSE 0

\* A redelivery is counted next, or a fault pays for it.
LEMMA RedeliveriesCountedStep ==
    ASSUME TypeOK, ReceiptsKnown, SweepDecided, AbsentUntouched,
           RedeliveriesCounted, [Next]_vars
    PROVE  RedeliveriesCounted'
<1> USE DEF Goto
<1> SUFFICES ASSUME NEW r \in Receipts, Open(r)'
             PROVE  published'[r] <= receipts'[r].retry_count + crashes' + errors'
                                        + InProgress(r)'
  BY DEF RedeliveriesCounted, InProgress
<1> DEFINE p == published[r]
           n == receipts[r].retry_count
<1>0. /\ p \in Nat /\ n \in Nat /\ crashes \in Nat /\ errors \in Nat
      /\ crashes' \in Nat /\ errors' \in Nat
      /\ receipts'[r].retry_count \in Nat
      /\ InProgress(r) \in {0, 1} /\ InProgress(r)' \in {0, 1}
  BY NextType, RowNumbers DEF TypeOK, ReceiptRow, InProgress
<1>1. CASE receipts[r].state = "absent"
  BY <1>0, <1>1, AbsentSteps DEF AbsentStep, AbsentUntouched
<1>2. CASE receipts[r].state # "absent"
  <2>1. RowStep(r) /\ Open(r)
    BY <1>2, RowSteps DEF RowStep
  <2>2. p <= n + crashes + errors + InProgress(r)
    BY <2>1 DEF RedeliveriesCounted, InProgress
  <2>3. CASE Redeliver
    <3>1. InProgress(r) = 0
      BY <2>3 DEF Redeliver, InProgress
    <3>2. UNCHANGED <<receipts, crashes, errors>>
      BY <2>3 DEF Redeliver, faultVars
    <3>3. published' = [published EXCEPT ![current.receipt] = @ + 1]
      BY <2>3 DEF Redeliver
    <3>4. CASE current.receipt = r
      <4>1. InProgress(r)' = 1 /\ published'[r] = p + 1
        BY <2>3, <3>3, <3>4 DEF Redeliver, InProgress, TypeOK
      <4> QED
        BY <1>0, <2>2, <3>1, <3>2, <4>1
    <3>5. CASE current.receipt # r
      <4>1. published'[r] = p
        BY <3>3, <3>5 DEF TypeOK
      <4> QED
        BY <1>0, <2>2, <3>1, <3>2, <4>1
    <3> QED
      BY <3>4, <3>5
  <2>4. CASE IncrementRetry
    <3>1. UNCHANGED <<published, crashes, errors>>
      BY <2>4 DEF IncrementRetry, historyVars, faultVars
    <3>2. CASE current.receipt = r
      <4>1. receipts'[r].retry_count = n + 1
        BY <2>1, <2>4, <3>2 DEF IncrementRetry, TypeOK, ReceiptRow
      <4> QED
        BY <1>0, <2>2, <3>1, <4>1
    <3>3. CASE current.receipt # r
      <4>1. InProgress(r) = 0 /\ receipts'[r].retry_count = n
        BY <2>1, <2>4, <3>3 DEF InProgress, RowStep
      <4> QED
        BY <1>0, <2>2, <3>1, <4>1
    <3> QED
      BY <3>2, <3>3
  <2>5. ASSUME UNCHANGED <<published, crashes>>, errors' \in {errors, errors + 1},
               InProgress(r)' = InProgress(r)
        PROVE  published'[r] <= receipts'[r].retry_count + crashes' + errors'
                                   + InProgress(r)'
    <3>1. receipts'[r].retry_count >= n
      BY <1>0, <2>1 DEF RowStep
    <3> QED
      BY <1>0, <2>2, <2>5, <3>1
  <2>6. CASE Outside
    BY <2>5, <2>6, OutsideStep DEF InProgress, engineVars
  <2>7. CASE \/ Recover \/ Claim \/ FireDone \/ Tick \/ SetExpired \/ Recheck
             \/ ScheduleNext \/ DeleteFired \/ EngineMissesReceipt \/ Restart
    <3>1. UNCHANGED <<published, crashes, errors>> /\ pc # "increment"
      BY <2>7 DEF Recover, Claim, FireDone, Tick, Take, TickDone, TickExpire,
         TickEarly, TickRetry, SetExpired, Recheck, ScheduleNext, DeleteFired,
         EngineMissesReceipt, ReceiptGone, EngineStops, Restart, historyVars,
         faultVars
    <3>2. pc' # "increment"
      BY <2>7 DEF Recover, Claim, FireDone, Tick, Take, TickDone, TickExpire,
         TickEarly, TickRetry, SetExpired, Recheck, ScheduleNext, DeleteFired,
         EngineMissesReceipt, EngineStops, Restart
    <3> QED
      BY <2>5, <3>1, <3>2 DEF InProgress
  <2>8. CASE EngineError \/ Crash
    <3>1. /\ UNCHANGED <<receipts, published>> /\ pc' # "increment"
          /\ crashes' + errors' = crashes + errors + 1
      <4>1. CASE EngineError
        BY <1>0, <4>1 DEF EngineError, EngineStops, historyVars
      <4>2. CASE Crash
        BY <1>0, <4>2 DEF Crash, historyVars
      <4> QED
        BY <2>8, <4>1, <4>2
    <3> QED
      BY <1>0, <2>2, <3>1 DEF InProgress
  <2> QED
    BY <2>3, <2>4, <2>6, <2>7, <2>8, Outsiders DEF EngineStep
<1> QED
  BY <1>1, <1>2

\* The count only grows when the attempt is due.
LEMMA PaceKeptStep ==
    ASSUME TypeOK, ReceiptsKnown, SweepDecided, AttemptDue, PaceKept, [Next]_vars
    PROVE  PaceKept'
<1> SUFFICES ASSUME NEW r \in Receipts, receipts'[r].retry_count > 0
             PROVE  now' >= receipts'[r].created_at
                               + (receipts'[r].retry_count - 1) * Interval
  BY DEF PaceKept, NextRetryAt
<1> DEFINE n == receipts[r].retry_count
           c == receipts[r].created_at
<1>0. n \in Nat /\ c \in Nat /\ now \in Nat /\ now' \in Nat /\ now' >= now
  BY RowNumbers, ClockStep DEF TypeOK
<1>1. ASSUME receipts'[r].retry_count = n, receipts'[r].created_at = c
      PROVE  now' >= c + (n - 1) * Interval
  <2>1. now >= c + (n - 1) * Interval
    BY <1>1 DEF PaceKept, NextRetryAt
  <2>2. n - 1 \in Nat
    BY <1>0, <1>1
  <2>3. (n - 1) * Interval \in Nat
    BY <2>2, RetryAssumption
  <2> QED
    BY <1>0, <2>1, <2>3
<1>2. CASE receipts[r].state = "absent"
  BY <1>1, <1>2, AbsentSteps DEF AbsentStep
<1>3. CASE receipts[r].state # "absent" /\ receipts'[r].retry_count = n
  BY <1>1, <1>3, RowSteps DEF RowStep
<1>4. CASE receipts[r].state # "absent" /\ receipts'[r].retry_count # n
  <2>1. /\ IncrementRetry /\ r = current.receipt /\ Open(r)
        /\ receipts'[r].retry_count = n + 1 /\ receipts'[r].created_at = c
    BY <1>4, RowSteps DEF RowStep
  <2>2. now >= c + n * Interval
    BY <2>1 DEF AttemptDue, IncrementRetry, NextRetryAt
  <2>3. n * Interval \in Nat /\ (n + 1) - 1 = n
    BY <1>0, RetryAssumption
  <2> QED
    BY <1>0, <2>1, <2>2, <2>3
<1> QED
  BY <1>1, <1>2, <1>3, <1>4

\* An expired receipt was expired by the engine, for a reason that lasts.
LEMMA NoEarlyExpiryStep ==
    ASSUME TypeOK, ReceiptsKnown, SweepDecided, ExpireDecided, NoEarlyExpiry,
           [Next]_vars
    PROVE  NoEarlyExpiry'
<1> SUFFICES ASSUME NEW r \in Receipts, receipts'[r].state = "expired"
             PROVE  \/ receipts'[r].retry_count >= MaxAttempts
                    \/ receipts'[r].closed_at >= receipts'[r].created_at + Expire
  BY DEF NoEarlyExpiry
<1>1. receipts[r].state # "absent"
  BY AbsentSteps DEF AbsentStep
<1>2. RowStep(r)
  BY <1>1, RowSteps
<1>3. CASE ~Open(r)
  <2>1. receipts[r].state = "expired" /\ receipts'[r].closed_at = receipts[r].closed_at
    BY <1>2, <1>3 DEF RowStep
  <2> QED
    BY <1>2, <1>3, <2>1 DEF RowStep, NoEarlyExpiry
<1>4. CASE Open(r)
  <2>1. receipts[r].state # "expired"
    BY <1>4 DEF Open, OpenStates
  <2>2. SetExpired /\ r = current.receipt
    <3>1. ASSUME NEW q \in Receipts, NEW s \in TerminalStates, NEW at \in Nat,
                 receipts' = Closed(q, s, at)
          PROVE  q = r /\ s = "expired"
      BY <2>1, <3>1, ClosedRow
    <3>2. ASSUME NEW q \in Receipts PROVE ~Acknowledge(q) /\ ~CancelPending(q)
      <4>1. now \in Nat
        BY DEF TypeOK
      <4>2. /\ "acknowledged" \in TerminalStates \ {"expired"}
            /\ "canceled" \in TerminalStates \ {"expired"}
        BY DEF TerminalStates
      <4> QED
        BY <3>1, <4>1, <4>2 DEF Acknowledge, CancelPending
    <3>3. receipts' # receipts
      BY <2>1
    <3>4. ASSUME NEW q \in Receipts, NEW e \in RequestedExpires PROVE ~Ingest(q, e)
      BY <2>1 DEF Ingest, TypeOK
    <3>5. ~IncrementRetry /\ ~DeleteSelected
      BY <2>1 DEF IncrementRetry, DeleteSelected, TypeOK, ReceiptRow
    <3>6. SetExpired
      BY <3>2, <3>3, <3>4, <3>5 DEF Next, EngineStep, vars, SeedRetry,
         SeedRetryFails, DeleteTimers, DeleteTimersFails, Recover, Claim, FireDone,
         Tick, Take, TickDone, TickExpire, TickEarly, TickRetry, Redeliver, Recheck,
         ScheduleNext, DeleteFired, EngineMissesReceipt, EngineError, EngineStops,
         SelectEligible, ClockTick, Crash, Restart
    <3>7. current.receipt \in Receipts
      BY <3>6, InHand DEF SetExpired, Handling
    <3> QED
      BY <3>1, <3>3, <3>6, <3>7 DEF SetExpired, TypeOK, TerminalStates
  <2>3. /\ receipts'[r].closed_at = tick_now
        /\ receipts'[r].retry_count = receipts[r].retry_count
    BY <1>4, <2>2, ClosedRow DEF SetExpired, TypeOK, TerminalStates
  <2> QED
    BY <1>2, <1>4, <2>2, <2>3 DEF RowStep, ExpireDecided, SetExpired
<1> QED
  BY <1>3, <1>4

\* Only the collector's deletion removes a row, and only of what it selected.
LEMMA OnlySelectedSwept ==
    ASSUME TypeOK, ReceiptsKnown, [Next]_vars, NEW r \in Receipts,
           receipts[r].state # "swept", receipts'[r].state = "swept"
    PROVE  DeleteSelected /\ r \in sweeping
<1>1. ASSUME NEW q \in Receipts, NEW s \in TerminalStates, NEW at \in Nat,
             receipts' = Closed(q, s, at)
      PROVE  FALSE
  BY <1>1, ClosedRow DEF TerminalStates
<1>2. ASSUME NEW q \in Receipts, Acknowledge(q) \/ CancelPending(q)
      PROVE  FALSE
  BY <1>1, <1>2 DEF Acknowledge, CancelPending, TypeOK, TerminalStates
<1>3. CASE SetExpired
  <2>1. current.receipt \in Receipts
    BY <1>3, InHand DEF SetExpired, Handling
  <2> QED
    BY <1>1, <1>3, <2>1 DEF SetExpired, TypeOK, TerminalStates
<1>4. CASE IncrementRetry
  <2>1. current.receipt \in Receipts
    BY <1>4, InHand DEF IncrementRetry, Handling
  <2> QED
    BY <1>4, <2>1 DEF IncrementRetry, TypeOK, ReceiptRow
<1>7. ASSUME NEW q \in Receipts, NEW e \in RequestedExpires, Ingest(q, e)
      PROVE  FALSE
  BY <1>7 DEF Ingest, TypeOK
<1>5. CASE DeleteSelected
  BY <1>5 DEF DeleteSelected
<1>6. receipts' # receipts
  OBVIOUS
<1> QED
  BY <1>2, <1>3, <1>4, <1>5, <1>6, <1>7 DEF Next, EngineStep, vars, SeedRetry,
     SeedRetryFails, DeleteTimers, DeleteTimersFails, Recover, Claim, FireDone,
     Tick, Take, TickDone, TickExpire, TickEarly, TickRetry, Redeliver, Recheck,
     ScheduleNext, DeleteFired, EngineMissesReceipt, EngineError, EngineStops,
     SelectEligible, ClockTick, Crash, Restart

\* Time passing and rows closing leave a selected row eligible.
LEMMA SweepDecidedStep ==
    ASSUME TypeOK, ReceiptsKnown, SweepDecided, [Next]_vars
    PROVE  SweepDecided'
<1>1. ASSUME NEW r \in sweeping, r \in sweeping' PROVE Exists(r)' /\ Retained(r)'
  <2>1. r \in Receipts /\ Exists(r) /\ Retained(r)
    BY DEF SweepDecided, TypeOK
  <2>2. receipts[r].state # "absent"
    BY <2>1 DEF Exists, States, OpenStates, TerminalStates
  <2>3. RowStep(r)
    BY <2>1, <2>2, RowSteps
  <2>4. receipts'[r].state # "swept"
    <3>1. receipts[r].state # "swept"
      BY <2>1 DEF Exists, States, OpenStates, TerminalStates
    <3>2. ~DeleteSelected
      BY <1>1 DEF DeleteSelected
    <3> QED
      BY <2>1, <3>1, <3>2, OnlySelectedSwept
  <2>5. Exists(r)'
    <3>1. receipts'[r] \in ReceiptRow
      BY <2>1, NextType DEF TypeOK
    <3> QED
      BY <2>3, <2>4, <3>1 DEF Exists, RowStep, ReceiptRow
  <2>6. /\ receipts'[r].expires_at = receipts[r].expires_at
        /\ Terminal(r) => Terminal(r)' /\ receipts'[r].closed_at = receipts[r].closed_at
    BY <2>3, <2>4 DEF RowStep, Terminal, TerminalStates, Open, OpenStates
  <2>7. /\ receipts[r].closed_at + Retention \in Nat
        /\ receipts[r].expires_at + Retention \in Nat
    BY <2>1, RowNumbers, RetryAssumption
  <2> QED
    BY <2>1, <2>5, <2>6, <2>7, ClockStep DEF Retained, TypeOK
<1>2. CASE SelectEligible
  <2>1. \A r \in sweeping' : r \in Receipts /\ Eligible(r)
    BY <1>2 DEF SelectEligible
  <2>2. \A r \in Receipts : Eligible(r) => Exists(r) /\ Retained(r)
    BY DEF Eligible, Exists, Retained, Terminal, Open, States
  <2>3. UNCHANGED <<receipts, now>>
    BY <1>2 DEF SelectEligible
  <2> QED
    BY <2>1, <2>2, <2>3 DEF SweepDecided, Exists, Retained, Terminal
<1>3. CASE sweeping' \subseteq sweeping
  BY <1>1, <1>3 DEF SweepDecided
<1>4. SelectEligible \/ sweeping' \subseteq sweeping
  <2>1. ASSUME NEW q \in Receipts,
               \/ \E e \in RequestedExpires : Ingest(q, e)
               \/ SeedRetry(q) \/ SeedRetryFails(q) \/ Acknowledge(q)
               \/ CancelPending(q) \/ DeleteTimers(q) \/ DeleteTimersFails(q)
        PROVE  sweeping' = sweeping
    BY <2>1 DEF Ingest, SeedRetry, SeedRetryFails, Acknowledge, CancelPending,
       DeleteTimers, DeleteTimersFails
  <2>2. CASE EngineStep \/ EngineError
    BY <2>2 DEF EngineStep, Recover, Claim, FireDone, Tick, Take, TickDone,
       TickExpire, TickEarly, TickRetry, SetExpired, Redeliver, IncrementRetry,
       Recheck, ScheduleNext, DeleteFired, EngineMissesReceipt, EngineError,
       EngineStops
  <2>3. CASE DeleteSelected \/ ClockTick \/ Crash \/ Restart \/ UNCHANGED vars
    BY <2>3 DEF DeleteSelected, ClockTick, Crash, Restart, vars
  <2> QED
    BY <2>1, <2>2, <2>3 DEF Next
<1> QED
  BY <1>2, <1>3, <1>4

-----------------------------------------------------------------------------
(* The invariant is inductive.                                             *)

\* The invariant holds initially.
LEMMA InitInv == Init => IInv
<1> SUFFICES ASSUME Init PROVE IInv
  OBVIOUS
<1>1. \A r \in Receipts : receipts[r] = NoReceipt /\ ~Open(r)
  BY DEF Init, NoReceipt, Open, OpenStates
<1>2. Known = {}
  BY DEF Init, Known, Handling
<1>3. TimerInv
  BY <1>1, <1>2 DEF Init, TimerInv, RowsAgree, ReceiptsKnown, CancellingClosed,
     OtherTimer, AlertKeepsTimer, BatchFiring, ClaimsHeld, Running, NoReceipt
<1>4. AttemptInv
  BY <1>1 DEF Init, AttemptInv, AbsentUntouched, AttemptDue, ExpireDecided,
     LateOnce, AtMostOneLateRedelivery, RedeliveriesCounted, PaceKept,
     NoEarlyExpiry, NoReceipt
<1>5. SweepDecided
  BY DEF Init, SweepDecided
<1> QED
  BY <1>3, <1>4, <1>5, InitType DEF IInv

\* Every step preserves the invariant.
LEMMA NextInv == IInv /\ [Next]_vars => IInv'
<1> SUFFICES ASSUME IInv, [Next]_vars PROVE IInv'
  OBVIOUS
<1> USE DEF IInv, TimerInv, AttemptInv
<1>1. TypeOK'
  BY NextType
<1>2. RowsAgree' /\ ReceiptsKnown' /\ SweepDecided'
  BY RowsAgreeStep, ReceiptsKnownStep, SweepDecidedStep
<1>3. CancellingClosed' /\ BatchFiring' /\ ClaimsHeld'
  BY CancellingClosedStep, BatchFiringStep, ClaimsHeldStep
<1>4. AlertKeepsTimer' /\ OtherTimer'
  BY AlertedStep DEF AlertKeepsTimer, OtherTimer, Alerted
<1>5. AbsentUntouched' /\ AttemptDue' /\ ExpireDecided'
  BY AbsentUntouchedStep, AttemptDueStep, ExpireDecidedStep
<1>6. LateOnce' /\ AtMostOneLateRedelivery' /\ RedeliveriesCounted'
  BY LateOnceStep, RedeliveriesCountedStep
<1>7. PaceKept' /\ NoEarlyExpiry'
  BY PaceKeptStep, NoEarlyExpiryStep
<1> QED
  BY <1>1, <1>2, <1>3, <1>4, <1>5, <1>6, <1>7

\* The inductive invariant: rows, claims, the attempt in hand and the collector's
\* selection stay consistent whichever actor steps (timers/, receipts/, sqlite/).
THEOREM Inductive == Spec => []IInv
<1>1. Init => IInv
  BY InitInv
<1>2. IInv /\ [Next]_vars => IInv'
  BY NextInv
<1> QED
  BY <1>1, <1>2, PTL DEF Spec

-----------------------------------------------------------------------------
(* The safety properties.                                                  *)

\* No seeded alert that is still open is ever without a timer row, whatever
\* the number of receipts, rows, crashes and failed calls (timers/retry.go).
THEOREM AlertsKeepTimers == Spec => []AlertKeepsTimer
<1>1. IInv => AlertKeepsTimer
  BY DEF IInv, TimerInv
<1> QED
  BY <1>1, Inductive, PTL

\* A running engine never leaves a claimed row behind (timers/engine.go).
THEOREM ClaimsAreHeld == Spec => []ClaimsHeld
<1>1. IInv => ClaimsHeld
  BY DEF IInv, TimerInv
<1> QED
  BY <1>1, Inductive, PTL

\* A closed receipt is redelivered at most once more (receipts/scheduler.go).
THEOREM LateAtMostOnce == Spec => []AtMostOneLateRedelivery
<1>1. IInv => AtMostOneLateRedelivery
  BY DEF IInv, AttemptInv
<1> QED
  BY <1>1, Inductive, PTL

\* Uncounted redeliveries are paid for by a crash or a failed call each.
THEOREM RedeliveriesAreCounted == Spec => []RedeliveriesCounted
<1>1. IInv => RedeliveriesCounted
  BY DEF IInv, AttemptInv
<1> QED
  BY <1>1, Inductive, PTL

\* The attempts keep to the retry interval (receipts/scheduler.go).
THEOREM PaceIsKept == Spec => []PaceKept
<1>1. IInv => PaceKept
  BY DEF IInv, AttemptInv
<1> QED
  BY <1>1, Inductive, PTL

\* No alert is expired before its window or its last attempt.
THEOREM ExpiryNotEarly == Spec => []NoEarlyExpiry
<1>1. IInv => NoEarlyExpiry
  BY DEF IInv, AttemptInv
<1> QED
  BY <1>1, Inductive, PTL

\* The collector's deletion is justified at the moment it happens, whatever was
\* done to the receipts since they were selected (store/sqlite/receipt_gc.go).
THEOREM SweepsAreDue == Spec => SweptAfterRetention
<1> DEFINE SweepStep ==
        \A r \in Receipts : Exists(r) /\ receipts'[r].state = "swept" =>
            \/ Terminal(r) /\ receipts[r].closed_at + Retention <= now
            \/ /\ receipts[r].expires_at > 0
               /\ receipts[r].expires_at + Retention <= now
<1>1. IInv /\ [Next]_vars => [SweepStep]_vars
  <2> SUFFICES ASSUME IInv, [Next]_vars, NEW r \in Receipts, Exists(r),
                      receipts'[r].state = "swept"
               PROVE  Retained(r)
    BY DEF Retained
  <2>1. receipts[r].state \notin {"absent", "swept"}
    BY DEF Exists, States, OpenStates, TerminalStates
  <2>2. r \in sweeping
    BY <2>1, OnlySelectedSwept DEF IInv, TimerInv
  <2> QED
    BY <2>2 DEF IInv, SweepDecided
<1> QED
  BY <1>1, Inductive, PTL DEF Spec, SweptAfterRetention

-----------------------------------------------------------------------------
(* EmergencyRetry implements ReceiptLifecycle.                             *)

StateOf == [r \in Receipts |-> receipts[r].state]
CountOf == [r \in Receipts |-> receipts[r].retry_count]

\* Initial states map to initial states of the life cycle.
LEMMA InitImplements == Init => Lifecycle!Init
BY DEF Init, Lifecycle!Init, NoReceipt

\* A change of one row's state is a change of StateOf at one point.
LEMMA StateChange ==
    ASSUME TypeOK, TypeOK', NEW q \in Receipts,
           \A r \in Receipts \ {q} : receipts'[r] = receipts[r]
    PROVE  /\ StateOf' = [StateOf EXCEPT ![q] = receipts'[q].state]
           /\ CountOf' = [CountOf EXCEPT ![q] = receipts'[q].retry_count]
BY DEF StateOf, CountOf, TypeOK

\* Closing an open receipt is a legal transition of the state machine.
LEMMA CloseImplements ==
    ASSUME TypeOK, TypeOK', NEW q \in Receipts, Open(q),
           NEW s \in TerminalStates, NEW at \in Nat, receipts' = Closed(q, s, at)
    PROVE  Lifecycle!Move(q, s)
<1>1. /\ receipts'[q].state = s /\ receipts'[q].retry_count = receipts[q].retry_count
      /\ \A r \in Receipts \ {q} : receipts'[r] = receipts[r]
  BY ClosedRow
<1>2. StateOf' = [StateOf EXCEPT ![q] = s]
  BY <1>1, StateChange
<1>3. CountOf' = CountOf
  BY <1>1 DEF CountOf
<1>4. StateOf[q] \in OpenStates
  BY DEF StateOf, Open
<1>5. /\ StateOf[q] \in Lifecycle!States /\ s # StateOf[q]
      /\ Lifecycle!CanTransition(StateOf[q], s)
  BY <1>4 DEF OpenStates, TerminalStates, Lifecycle!States, Lifecycle!OpenStates,
     Lifecycle!TerminalStates, Lifecycle!CanTransition, Lifecycle!legalTransitions
<1> QED
  BY <1>2, <1>3, <1>5 DEF StateOf, CountOf, Lifecycle!Move

\* Every step maps to a step of the life cycle or to a stutter.
LEMMA StepImplements ==
    ASSUME IInv, IInv', [Next]_vars
    PROVE  [Lifecycle!Next]_(Lifecycle!lifecycleVars)
<1> USE DEF IInv, TimerInv, AttemptInv
<1>1. CASE receipts' = receipts
  <2>1. StateOf' = StateOf /\ CountOf' = CountOf
    BY <1>1 DEF StateOf, CountOf
  <2> QED
    BY <2>1 DEF StateOf, CountOf, Lifecycle!lifecycleVars
<1>2. ASSUME NEW q \in Receipts, NEW e \in RequestedExpires, Ingest(q, e)
      PROVE  Lifecycle!Create(q)
  <2>1. receipts[q].state = "absent"
    BY <1>2 DEF Ingest, ReceiptsKnown
  <2>2. /\ receipts'[q].state = "pending"
        /\ \A r \in Receipts \ {q} : receipts'[r] = receipts[r]
    BY <1>2 DEF Ingest, TypeOK
  <2>3. StateOf' = [StateOf EXCEPT ![q] = "pending"]
    BY <2>2, StateChange
  <2>4. receipts[q].retry_count = 0 /\ receipts'[q].retry_count = 0
    BY <1>2, <2>1 DEF Ingest, TypeOK, AbsentUntouched
  <2>5. CountOf' = CountOf
    BY <2>2, <2>4 DEF CountOf
  <2> QED
    BY <2>1, <2>3, <2>5 DEF StateOf, CountOf, Lifecycle!Create
<1>3. ASSUME NEW q \in Receipts, Open(q), NEW s \in TerminalStates, NEW at \in Nat,
             receipts' = Closed(q, s, at)
      PROVE  Lifecycle!Next
  <2>1. Lifecycle!Move(q, s)
    BY <1>3, CloseImplements
  <2>2. s \in Lifecycle!States
    BY DEF TerminalStates, Lifecycle!States, Lifecycle!TerminalStates
  <2> QED
    BY <2>1, <2>2 DEF Lifecycle!Next
<1>4. ASSUME NEW q \in Receipts, Acknowledge(q) \/ CancelPending(q)
      PROVE  Lifecycle!Next
  BY <1>3, <1>4 DEF Acknowledge, CancelPending, Open, OpenStates, TerminalStates,
     TypeOK
<1>5. CASE SetExpired
  <2>1. current.receipt \in Receipts
    BY <1>5, InHand DEF SetExpired, Handling
  <2> QED
    BY <1>1, <1>3, <1>5, <2>1 DEF SetExpired, TerminalStates, TypeOK
<1>6. CASE IncrementRetry
  <2>1. PICK q \in Receipts : q = current.receipt
    BY <1>6, InHand DEF IncrementRetry, Handling
  <2>2. CASE Open(q)
    <3>1. /\ receipts'[q].state = receipts[q].state
          /\ receipts'[q].retry_count = receipts[q].retry_count + 1
          /\ \A r \in Receipts \ {q} : receipts'[r] = receipts[r]
      BY <1>6, <2>1, <2>2 DEF IncrementRetry, TypeOK, ReceiptRow
    <3>2. CountOf' = [CountOf EXCEPT ![q] = receipts[q].retry_count + 1]
      BY <2>1, <3>1, StateChange
    <3>3. StateOf' = StateOf
      BY <3>1 DEF StateOf
    <3>4. receipts[q].retry_count < MaxAttempts
      BY <1>6, <2>1, <2>2 DEF IncrementRetry, AttemptDue
    <3>5. Lifecycle!CountAttempt(q)
      BY <2>1, <2>2, <3>2, <3>3, <3>4 DEF StateOf, CountOf, Lifecycle!CountAttempt,
         Open, OpenStates, Lifecycle!OpenStates
    <3> QED
      BY <3>5 DEF Lifecycle!Next
  <2>3. CASE ~Open(q)
    BY <1>1, <1>6, <2>1, <2>3 DEF IncrementRetry
  <2> QED
    BY <2>2, <2>3
<1>7. CASE DeleteSelected
  <2>0. PICK S \in SUBSET Receipts : S = sweeping
    BY DEF TypeOK
  <2>1. S # {} /\ \A r \in S : StateOf[r] \in Lifecycle!States
    BY <1>7, <2>0 DEF DeleteSelected, TypeOK, SweepDecided, Exists, StateOf, States,
       OpenStates, TerminalStates, Lifecycle!States, Lifecycle!OpenStates,
       Lifecycle!TerminalStates
  <2>2. \A r \in Receipts :
          /\ receipts'[r].state = IF r \in S THEN "swept" ELSE receipts[r].state
          /\ receipts'[r].retry_count = receipts[r].retry_count
    BY <1>7, <2>0 DEF DeleteSelected, TypeOK, ReceiptRow
  <2>3. /\ StateOf' = [r \in Receipts |-> IF r \in S THEN "swept" ELSE StateOf[r]]
        /\ CountOf' = CountOf
    BY <2>2 DEF StateOf, CountOf
  <2>4. Lifecycle!Sweep(S)
    BY <2>1, <2>3 DEF StateOf, CountOf, Lifecycle!Sweep
  <2> QED
    BY <2>4 DEF Lifecycle!Next
<1> QED
  BY <1>1, <1>2, <1>4, <1>5, <1>6, <1>7 DEF Next, EngineStep, vars, SeedRetry,
     SeedRetryFails, DeleteTimers, DeleteTimersFails, Recover, Claim, FireDone,
     Tick, Take, TickDone, TickExpire, TickEarly, TickRetry, Redeliver, Recheck,
     ScheduleNext, DeleteFired, EngineMissesReceipt, EngineError, EngineStops,
     SelectEligible, ClockTick, Crash, Restart, Lifecycle!Next

\* Engine, handlers, collector and crashes together implement the declared state
\* machine with its cap on counted attempts (receipts/statemachine.go).
THEOREM Implementation == Spec => ImplementsLifecycle
<1>1. Init => Lifecycle!Init
  BY InitImplements
<1>2. IInv /\ IInv' /\ [Next]_vars => [Lifecycle!Next]_(Lifecycle!lifecycleVars)
  BY StepImplements
<1> QED
  BY <1>1, <1>2, Inductive, PTL DEF Spec, ImplementsLifecycle, Lifecycle!Spec
=============================================================================
