--------------------------- MODULE TimerRowProofs ---------------------------
(***************************************************************************)
(* Theorems about the timer rows of EmergencyRetry, for every value of its *)
(* constants: which receipts they refer to and how many there are.         *)
(***************************************************************************)
EXTENDS EmergencyRetryProofs, FiniteSetTheorems

-----------------------------------------------------------------------------
(* The inductive invariant, over that of EmergencyRetryProofs.             *)

Rows(r)     == {t \in timers : t.receipt = r}
HasRow(t)   == \E u \in timers : u.id = t.id
HasNoRow(r) == \A t \in timers : t.receipt # r

\* Timers are made by SeedRetry, or in place of one that SeedRetry began.
KnownSeeded == \A t \in Known : request[t.receipt] = "seeded"

\* A row id names one row, in the table, in the batch and in the engine's hand.
RowIdsDistinct ==
    /\ \A s, t \in timers : s.id = t.id => s = t
    /\ \A s, t \in batch : s.id = t.id => s = t
    /\ pc \in Handling => \A t \in batch : t.id # current.id

\* A claimed timer of an open receipt is still in the table when it is fired.
BatchHasRow == \A t \in batch : Open(t.receipt) => HasRow(t)

\* The fired row is deleted last, unless all rows of its receipt have gone.
Firing == {"expire", "redeliver", "increment", "recheck", "schedule"}

HandHasRow == pc \in Firing => HasRow(current) \/ HasNoRow(current.receipt)

\* While the fired row waits for its deletion there is one row more.
Replaced(r) == pc = "delete" /\ current.receipt = r /\ HasRow(current)

RowsWithin(r) ==
    /\ IsFiniteSet(Rows(r))
    /\ Cardinality(Rows(r)) <= 1 + crashes + errors + (IF Replaced(r) THEN 1 ELSE 0)

BoundInv == /\ KnownSeeded /\ RowIdsDistinct /\ BatchHasRow /\ HandHasRow
            /\ \A r \in Receipts : RowsWithin(r)

\* The invariant holds initially.
LEMMA InitBound == Init => BoundInv
<1> SUFFICES ASSUME Init PROVE BoundInv
  OBVIOUS
<1>1. timers = {} /\ batch = {} /\ Known = {} /\ pc = "recover"
      /\ crashes = 0 /\ errors = 0
  BY DEF Init, Known, Handling
<1>2. ASSUME NEW r \in Receipts PROVE RowsWithin(r)
  <2>1. Rows(r) = {}
    BY <1>1 DEF Rows
  <2> QED
    BY <1>1, <2>1, FS_EmptySet DEF RowsWithin, Replaced
<1> QED
  BY <1>1, <1>2 DEF BoundInv, KnownSeeded, RowIdsDistinct, BatchHasRow, HandHasRow,
     Firing, Handling

-----------------------------------------------------------------------------
(* What a step may do to the rows and to what the engine holds.            *)

\* No row changes; the engine takes up no timer, and lets go of one whose row
\* waits for deletion only in a crash or a failed call.
Steady ==
    /\ timers' = timers /\ batch' \subseteq batch
    /\ pc' \in Handling => pc \in Handling /\ current' = current
    /\ pc' \in Firing => pc \in Firing
    /\ crashes' \in {crashes, crashes + 1} /\ errors' \in {errors, errors + 1}
    /\ \/ pc = "delete" => pc' = "delete"
       \/ crashes' = crashes + 1 \/ errors' = errors + 1

\* The rows of some receipts go.
Purge(Q) ==
    /\ timers' = {t \in timers : t.receipt \notin Q}
    /\ UNCHANGED <<batch, pc, current, crashes, errors>>

\* Every step is one of these.
RowAction ==
    \/ Steady
    \/ \E q \in Receipts : SeedRetry(q)
    \/ ScheduleNext \/ Recover \/ Claim \/ Tick \/ DeleteFired
    \/ \E q \in cancelling : Purge({q})
    \/ DeleteSelected /\ Purge(sweeping)

\* The steps of the engine that leave the table alone.
LEMMA EngineSteady ==
    ASSUME FireDone \/ SetExpired \/ Redeliver \/ IncrementRetry \/ Recheck
    PROVE  Steady
BY DEF Steady, FireDone, SetExpired, Redeliver, IncrementRetry, Recheck, Goto,
   Handling, Firing, faultVars

\* The steps that end the engine.
LEMMA StopSteady ==
    ASSUME TypeOK, EngineMissesReceipt \/ EngineError \/ Crash
    PROVE  Steady
<1>1. timers' = timers /\ batch' = {} /\ pc' \in {"dead", "down"}
  BY DEF EngineMissesReceipt, EngineError, EngineStops, Crash, Goto
<1>2. /\ crashes' \in {crashes, crashes + 1} /\ errors' \in {errors, errors + 1}
      /\ pc # "delete" \/ crashes' = crashes + 1 \/ errors' = errors + 1
  BY DEF EngineMissesReceipt, ReceiptGone, EngineError, EngineStops, Crash
<1> QED
  BY <1>1, <1>2 DEF Steady, Handling, Firing

\* The steps of handlers, collector and clock that leave the table alone.
LEMMA OutsideSteady ==
    ASSUME \/ \E q \in Receipts : \/ \E e \in RequestedExpires : Ingest(q, e)
                                 \/ SeedRetryFails(q) \/ Acknowledge(q)
                                 \/ CancelPending(q) \/ DeleteTimersFails(q)
           \/ SelectEligible \/ ClockTick \/ Restart \/ UNCHANGED vars
    PROVE  Steady
<1>1. UNCHANGED <<timers, batch, current, crashes>> /\ errors' \in {errors, errors + 1}
  BY DEF Ingest, SeedRetryFails, Acknowledge, CancelPending, DeleteTimersFails,
     SelectEligible, ClockTick, Restart, vars, engineVars, faultVars
<1>2. pc' = pc \/ (pc = "down" /\ pc' = "recover")
  <2>1. ASSUME Restart PROVE pc = "down" /\ pc' = "recover"
    BY <2>1 DEF Restart, Goto
  <2>2. Restart \/ UNCHANGED engineVars
    BY DEF Ingest, SeedRetryFails, Acknowledge, CancelPending, DeleteTimersFails,
       SelectEligible, ClockTick, vars
  <2> QED
    BY <2>1, <2>2 DEF engineVars
<1> QED
  BY <1>1, <1>2 DEF Steady, Handling, Firing

\* The classification is complete.
LEMMA RowActions ==
    ASSUME TypeOK, [Next]_vars
    PROVE  RowAction
<1>1. ASSUME NEW q \in Receipts, DeleteTimers(q) PROVE q \in cancelling /\ Purge({q})
  BY <1>1 DEF DeleteTimers, Purge, engineVars, faultVars
<1>2. ASSUME DeleteSelected PROVE Purge(sweeping)
  BY <1>2 DEF DeleteSelected, Purge, engineVars, faultVars
<1> QED
  BY <1>1, <1>2, EngineSteady, StopSteady, OutsideSteady DEF RowAction, Next, EngineStep

\* What the insertions leave alone.
LEMMA Inserted ==
    ASSUME TypeOK, NEW q \in Receipts, SeedRetry(q) \/ (ScheduleNext /\ q = current.receipt)
    PROVE  /\ UNCHANGED <<batch, current, crashes, errors>>
           /\ \E i \in FreshIds, new \in TimerRow :
                 /\ timers' = timers \cup {new} /\ new.id = i /\ new.receipt = q
<1>1. CASE SeedRetry(q)
  <2>1. receipts[q].created_at \in Nat
    BY RowNumbers
  <2> QED
    BY <1>1, <2>1, InsertTimerStep DEF SeedRetry, engineVars, faultVars
<1>2. CASE ScheduleNext /\ q = current.receipt
  <2>1. NextRetryAt(q, attempt) \in Nat
    BY NextRetryAtType DEF TypeOK
  <2> QED
    BY <1>2, <2>1, InsertTimerStep DEF ScheduleNext, faultVars
<1> QED
  BY <1>1, <1>2

\* What Claim makes of the due rows it takes.
LEMMA Claimed ==
    ASSUME TypeOK, Claim
    PROVE  \E C \in SUBSET timers :
              /\ C \in SUBSET TimerRow
              /\ batch' = SetClaimed(C, TRUE)
              /\ timers' = (timers \ C) \cup SetClaimed(C, TRUE)
BY DEF Claim, Due, TypeOK

-----------------------------------------------------------------------------
(* The parts of the invariant.                                             *)

\* A request that has seeded its timer has done so for good.
LEMMA SeededStays ==
    ASSUME TypeOK, [Next]_vars, NEW r \in Receipts, request[r] = "seeded"
    PROVE  request'[r] = "seeded"
BY DEF TypeOK, Next, EngineStep, vars, Ingest, SeedRetry, SeedRetryFails,
   Acknowledge, CancelPending, DeleteTimers, DeleteTimersFails, Recover, Claim,
   FireDone, Tick, TickDone, TickExpire, TickEarly, TickRetry, Take, SetExpired,
   Redeliver, IncrementRetry, Recheck, ScheduleNext, DeleteFired,
   EngineMissesReceipt, EngineError, EngineStops, SelectEligible,
   DeleteSelected, ClockTick, Crash, Restart

\* Every new row is for a receipt that is seeded by then.
LEMMA KnownSeededStep ==
    ASSUME TypeOK, KnownSeeded, [Next]_vars
    PROVE  KnownSeeded'
<1> USE DEF Goto
<1>1. ASSUME NEW t, OldRow(t) PROVE request'[t.receipt] = "seeded"
  BY <1>1, KnownType, SeededStays DEF OldRow, KnownSeeded
<1>2. CASE \A t \in Known' : OldRow(t)
  BY <1>1, <1>2 DEF KnownSeeded
<1>3. ASSUME NEW q \in Receipts, SeedRetry(q) \/ (ScheduleNext /\ q = current.receipt)
      PROVE  KnownSeeded'
  <2>1. PICK new \in TimerRow : timers' = timers \cup {new} /\ new.receipt = q
    BY <1>3, Inserted
  <2>2. UNCHANGED <<batch, current>> /\ (pc' \in Handling => pc \in Handling)
    BY <1>3, Inserted DEF SeedRetry, ScheduleNext, engineVars, Handling
  <2>3. \A t \in Known' : OldRow(t) \/ t.receipt = q
    BY <2>1, <2>2 DEF Known, OldRow
  <2>4. request'[q] = "seeded"
    <3>1. CASE SeedRetry(q)
      BY <3>1 DEF SeedRetry, TypeOK
    <3>2. CASE ScheduleNext /\ q = current.receipt
      BY <3>2, SeededStays DEF ScheduleNext, KnownSeeded, Known, Handling
    <3> QED
      BY <1>3, <3>1, <3>2
  <2> QED
    BY <1>1, <2>3, <2>4 DEF KnownSeeded
<1>4. CASE Steady \/ DeleteFired \/ (\E Q : Purge(Q))
  <2>1. Known' \subseteq Known
    BY <1>4 DEF Known, Steady, DeleteFired, Purge, Handling
  <2> QED
    BY <1>2, <2>1 DEF OldRow
<1>5. CASE Tick
  <2>1. PICK t \in batch : Take(t) /\ current' = t
    BY <1>5 DEF Tick, TickDone, TickExpire, TickEarly, TickRetry
  <2>2. Known' \subseteq Known
    BY <2>1 DEF Take, Known
  <2> QED
    BY <1>2, <2>2 DEF OldRow
<1>6. CASE Recover
  <2>1. timers \in SUBSET TimerRow /\ timers' = SetClaimed(timers, FALSE)
    BY <1>6 DEF Recover, TypeOK
  <2>2. \A u \in SetClaimed(timers, FALSE) :
           \E t \in timers : t.id = u.id /\ t.receipt = u.receipt
    BY <2>1, SetClaimedRows
  <2>3. batch' = batch /\ pc' \notin Handling
    BY <1>6 DEF Recover, Handling
  <2> QED
    BY <1>2, <2>1, <2>2, <2>3 DEF Known, OldRow
<1>7. CASE Claim
  <2>1. PICK C \in SUBSET timers :
          /\ C \in SUBSET TimerRow
          /\ batch' = SetClaimed(C, TRUE)
          /\ timers' = (timers \ C) \cup SetClaimed(C, TRUE)
    BY <1>7, Claimed
  <2>2. \A u \in SetClaimed(C, TRUE) :
           \E t \in C : t.id = u.id /\ t.receipt = u.receipt
    BY <2>1, SetClaimedRows
  <2>3. pc' \notin Handling
    BY <1>7 DEF Claim, Handling
  <2> QED
    BY <1>2, <2>1, <2>2, <2>3 DEF Known, OldRow
<1>8. ASSUME ScheduleNext PROVE current.receipt \in Receipts
  BY <1>8 DEF ScheduleNext, TypeOK, Handling, TimerRow
<1> QED
  BY <1>3, <1>4, <1>5, <1>6, <1>7, <1>8, RowActions DEF RowAction

\* Claiming or releasing rows with distinct ids keeps the ids distinct.
LEMMA SetClaimedDistinct ==
    ASSUME NEW S \in SUBSET TimerRow, NEW c \in BOOLEAN,
           \A s, t \in S : s.id = t.id => s = t
    PROVE  \A u, v \in SetClaimed(S, c) : u.id = v.id => u = v
<1> SUFFICES ASSUME NEW u \in SetClaimed(S, c), NEW v \in SetClaimed(S, c), u.id = v.id
             PROVE  u = v
  OBVIOUS
<1>1. PICK s \in S : u = [s EXCEPT !.claimed = c]
  BY DEF SetClaimed
<1>2. PICK t \in S : v = [t EXCEPT !.claimed = c]
  BY DEF SetClaimed
<1>3. u.id = s.id /\ v.id = t.id
  BY <1>1, <1>2 DEF TimerRow
<1> QED
  BY <1>1, <1>2, <1>3

\* Ids stay distinct in the table, in the batch and in hand.
LEMMA RowIdsDistinctStep ==
    ASSUME TypeOK, RowIdsDistinct, [Next]_vars
    PROVE  RowIdsDistinct'
<1> USE DEF RowIdsDistinct, Goto
<1>1. CASE Steady \/ DeleteFired \/ (\E Q : Purge(Q))
  <2>1. /\ timers' \subseteq timers /\ batch' \subseteq batch
        /\ pc' \in Handling => pc \in Handling /\ current' = current
    BY <1>1 DEF Steady, DeleteFired, Purge, Handling
  <2> QED
    BY <2>1
<1>2. ASSUME NEW q \in Receipts, SeedRetry(q) \/ (ScheduleNext /\ q = current.receipt)
      PROVE  RowIdsDistinct'
  <2>1. PICK i \in FreshIds, new \in TimerRow : timers' = timers \cup {new} /\ new.id = i
    BY <1>2, Inserted
  <2>2. UNCHANGED <<batch, current>> /\ (pc' \in Handling => pc \in Handling)
    BY <1>2, Inserted DEF SeedRetry, ScheduleNext, engineVars, Handling
  <2>3. \A t \in timers : t.id # new.id
    BY <2>1 DEF FreshIds
  <2> QED
    BY <2>1, <2>2, <2>3
<1>3. CASE Tick
  <2>1. PICK t \in batch : Take(t) /\ current' = t
    BY <1>3 DEF Tick, TickDone, TickExpire, TickEarly, TickRetry
  <2>2. timers' = timers /\ batch' = batch \ {t}
    BY <2>1 DEF Take
  <2> QED
    BY <2>1, <2>2
<1>4. CASE Recover
  <2>1. timers \in SUBSET TimerRow /\ timers' = SetClaimed(timers, FALSE)
    BY <1>4 DEF Recover, TypeOK
  <2>2. batch' = batch /\ pc' \notin Handling
    BY <1>4 DEF Recover, Handling
  <2>3. \A u, v \in timers' : u.id = v.id => u = v
    BY <2>1, SetClaimedDistinct
  <2> QED
    BY <2>2, <2>3
<1>5. CASE Claim
  <2>1. PICK C \in SUBSET timers :
          /\ C \in SUBSET TimerRow
          /\ batch' = SetClaimed(C, TRUE)
          /\ timers' = (timers \ C) \cup SetClaimed(C, TRUE)
    BY <1>5, Claimed
  <2>2. \A u \in SetClaimed(C, TRUE) :
           \E t \in C : t.id = u.id /\ t.receipt = u.receipt
    BY <2>1, SetClaimedRows
  <2>3. \A u, v \in SetClaimed(C, TRUE) : u.id = v.id => u = v
    BY <2>1, SetClaimedDistinct
  <2>4. pc' \notin Handling
    BY <1>5 DEF Claim, Handling
  <2>5. ASSUME NEW u \in timers \ C, NEW v \in SetClaimed(C, TRUE)
        PROVE  u.id # v.id
    <3>1. PICK t \in C : t.id = v.id
      BY <2>2
    <3> QED
      BY <3>1
  <2> QED
    BY <2>1, <2>3, <2>4, <2>5
<1>6. ASSUME ScheduleNext PROVE current.receipt \in Receipts
  BY <1>6 DEF ScheduleNext, TypeOK, Handling, TimerRow
<1> QED
  BY <1>1, <1>2, <1>3, <1>4, <1>5, <1>6, RowActions DEF RowAction

\* Two known rows with one id are about one receipt; the hand is among them.
LEMMA HandAgrees ==
    ASSUME TypeOK, RowsAgree
    PROVE  /\ \A t \in batch, u \in timers : u.id = t.id => u.receipt = t.receipt
           /\ pc \in Handling =>
                  \A u \in timers : u.id = current.id => u.receipt = current.receipt
BY DEF RowsAgree, Known

\* A receipt that is open was open before, unless it was ingested just now, and
\* then it has no timer yet.
LEMMA OpenBefore ==
    ASSUME TypeOK, ReceiptsKnown, [Next]_vars, NEW t \in Known, Open(t.receipt)'
    PROVE  Open(t.receipt)
<1>1. t.receipt \in Receipts /\ receipts[t.receipt].state # "absent"
  BY KnownType DEF ReceiptsKnown
<1> QED
  BY <1>1, RowSteps DEF RowStep

\* The rows of open receipts stay as long as the batch needs them.
LEMMA BatchHasRowStep ==
    ASSUME IInv, RowIdsDistinct, BatchHasRow, [Next]_vars
    PROVE  BatchHasRow'
<1> USE DEF IInv, TimerInv, Goto
<1>1. ASSUME NEW t \in batch, Open(t.receipt)' PROVE Open(t.receipt) /\ HasRow(t)
  BY <1>1, OpenBefore DEF Known, BatchHasRow
<1>2. CASE /\ batch' \subseteq batch
           /\ \A t \in timers : \E u \in timers' : u.id = t.id
  BY <1>1, <1>2 DEF BatchHasRow, HasRow
<1>3. CASE Steady \/ Tick
  BY <1>2, <1>3 DEF Steady, Tick, TickDone, TickExpire, TickEarly, TickRetry, Take
<1>4. ASSUME NEW q \in Receipts, SeedRetry(q) \/ (ScheduleNext /\ q = current.receipt)
      PROVE  BatchHasRow'
  <2>1. timers \subseteq timers' /\ batch' = batch
    BY <1>4, Inserted
  <2> QED
    BY <1>2, <2>1
<1>5. CASE Recover
  <2>1. batch' = {}
    BY <1>5 DEF Recover, BatchFiring, Handling
  <2> QED
    BY <2>1 DEF BatchHasRow
<1>6. CASE Claim
  <2>1. batch' \subseteq timers'
    BY <1>6, Claimed
  <2> QED
    BY <2>1 DEF BatchHasRow, HasRow
<1>7. CASE DeleteFired
  <2>1. batch' = batch /\ timers' = {t \in timers : t.id # current.id}
    BY <1>7 DEF DeleteFired
  <2>2. \A t \in batch : t.id # current.id
    BY <1>7 DEF DeleteFired, RowIdsDistinct, Handling
  <2> QED
    BY <1>1, <2>1, <2>2 DEF BatchHasRow, HasRow
<1>8. ASSUME NEW Q, Purge(Q), \A t \in batch : Open(t.receipt)' => t.receipt \notin Q
      PROVE  BatchHasRow'
  <2>1. batch' = batch /\ timers' = {t \in timers : t.receipt \notin Q}
    BY <1>8 DEF Purge
  <2>2. \A t \in batch, u \in timers : u.id = t.id => u.receipt = t.receipt
    BY HandAgrees
  <2> QED
    BY <1>1, <1>8, <2>1, <2>2 DEF BatchHasRow, HasRow
<1>9. ASSUME NEW q \in cancelling, Purge({q}) PROVE BatchHasRow'
  <2>1. ~Open(q)
    BY DEF CancellingClosed, Terminal, TerminalStates, Open, OpenStates
  <2> QED
    BY <1>1, <1>8, <1>9, <2>1
<1>10. ASSUME DeleteSelected, Purge(sweeping) PROVE BatchHasRow'
  <2>1. \A r \in sweeping : ~Open(r)'
    BY <1>10 DEF DeleteSelected, TypeOK, ReceiptRow, Open, OpenStates
  <2> QED
    BY <1>8, <1>10, <2>1
<1>11. ASSUME ScheduleNext PROVE current.receipt \in Receipts
  BY <1>11 DEF ScheduleNext, TypeOK, Handling, TimerRow
<1> QED
  BY <1>3, <1>4, <1>5, <1>6, <1>7, <1>9, <1>10, <1>11, RowActions DEF RowAction

\* A purge takes the row of the fired timer only with all rows of its receipt.
LEMMA PurgeHand ==
    ASSUME TypeOK, RowsAgree, pc \in Handling, NEW Q, Purge(Q)
    PROVE  /\ current.receipt \in Q => HasNoRow(current.receipt)'
           /\ current.receipt \notin Q => (HasRow(current)' <=> HasRow(current))
           /\ HasNoRow(current.receipt) => HasNoRow(current.receipt)'
<1>1. /\ timers' = {t \in timers : t.receipt \notin Q} /\ current' = current
  BY DEF Purge
<1>2. \A u \in timers : u.id = current.id => u.receipt = current.receipt
  BY HandAgrees
<1> QED
  BY <1>1, <1>2 DEF HasRow, HasNoRow

\* The engine keeps the fired row until it has placed the next.
LEMMA HandHasRowStep ==
    ASSUME IInv, KnownSeeded, BatchHasRow, HandHasRow, [Next]_vars
    PROVE  HandHasRow'
<1> USE DEF IInv, TimerInv, Goto
<1> SUFFICES ASSUME pc' \in Firing PROVE HasRow(current)' \/ HasNoRow(current.receipt)'
  BY DEF HandHasRow
<1>1. CASE Steady
  <2>1. pc \in Firing /\ current' = current /\ timers' = timers
    BY <1>1 DEF Steady, Firing, Handling
  <2> QED
    BY <2>1 DEF HandHasRow, HasRow, HasNoRow
<1>2. ASSUME NEW q \in Receipts, SeedRetry(q)
      PROVE  HasRow(current)' \/ HasNoRow(current.receipt)'
  <2>1. PICK new \in TimerRow : timers' = timers \cup {new} /\ new.receipt = q
    BY <1>2, Inserted
  <2>2. pc \in Firing /\ current' = current
    BY <1>2 DEF SeedRetry, engineVars
  <2>3. request[current.receipt] = "seeded" /\ request[q] = "ingested"
    BY <1>2, <2>2 DEF SeedRetry, KnownSeeded, Known, Firing, Handling
  <2> QED
    BY <2>1, <2>2, <2>3 DEF HandHasRow, HasRow, HasNoRow
<1>3. CASE Tick
  <2>1. PICK t \in batch : TickDone(t) \/ TickExpire(t) \/ TickEarly(t) \/ TickRetry(t)
    BY <1>3 DEF Tick
  <2>2. Open(t.receipt) /\ current' = t /\ timers' = timers
    BY <2>1 DEF TickDone, TickExpire, TickEarly, TickRetry, Take, Firing
  <2> QED
    BY <2>2 DEF BatchHasRow, HasRow
<1>4. ASSUME NEW Q, Purge(Q) PROVE HasRow(current)' \/ HasNoRow(current.receipt)'
  <2>1. pc \in Firing /\ pc \in Handling /\ current' = current
    BY <1>4 DEF Purge, Firing, Handling
  <2> QED
    BY <1>4, <2>1, PurgeHand DEF HandHasRow
<1>5. ~(ScheduleNext \/ Recover \/ Claim \/ DeleteFired)
  BY DEF ScheduleNext, Recover, Claim, DeleteFired, Firing
<1> QED
  BY <1>1, <1>2, <1>3, <1>4, <1>5, RowActions DEF RowAction

-----------------------------------------------------------------------------
(* Counting the rows.                                                      *)

\* Claiming or releasing rows makes no more of them.
LEMMA SameRowCount ==
    ASSUME NEW S, IsFiniteSet(S), NEW T, NEW C \in SUBSET S, C \in SUBSET TimerRow,
           NEW c \in BOOLEAN, T = (S \ C) \cup SetClaimed(C, c)
    PROVE  IsFiniteSet(T) /\ Cardinality(T) <= Cardinality(S)
<1> DEFINE f == [t \in S |-> IF t \in C THEN [t EXCEPT !.claimed = c] ELSE t]
<1>1. \A t \in S : f[t] \in T
  BY DEF SetClaimed
<1>2. \A u \in T : \E t \in S : f[t] = u
  BY DEF SetClaimed
<1>3. f \in Surjection(S, T)
  BY <1>1, <1>2 DEF Surjection
<1> QED
  BY <1>3, FS_Surjection

\* A claim moves no row from one receipt to another.
LEMMA RowsOfClaimed ==
    ASSUME NEW C \in SUBSET timers, C \in SUBSET TimerRow, NEW c \in BOOLEAN,
           timers' = (timers \ C) \cup SetClaimed(C, c), NEW r
    PROVE  Rows(r)' = (Rows(r) \ (C \cap Rows(r))) \cup SetClaimed(C \cap Rows(r), c)
<1>1. \A t \in C : [t EXCEPT !.claimed = c].receipt = t.receipt
  BY DEF TimerRow
<1> QED
  BY <1>1 DEF Rows, SetClaimed

\* The number of rows of a receipt stays within its bound.
LEMMA RowsWithinStep ==
    ASSUME IInv, BoundInv, [Next]_vars, NEW r \in Receipts
    PROVE  RowsWithin(r)'
<1> USE DEF Goto
<1>1. /\ TypeOK /\ RowsAgree /\ KnownSeeded /\ HandHasRow /\ RowsWithin(r)
      /\ ReceiptsKnown
  BY DEF IInv, TimerInv, BoundInv
<1>2. /\ IsFiniteSet(Rows(r)) /\ Cardinality(Rows(r)) \in Nat
      /\ crashes \in Nat /\ errors \in Nat
  BY <1>1, FS_CardinalityType DEF RowsWithin, TypeOK
<1>3. ASSUME timers' = timers, crashes' \in {crashes, crashes + 1},
             errors' \in {errors, errors + 1},
             \/ Replaced(r) => Replaced(r)'
             \/ crashes' = crashes + 1 \/ errors' = errors + 1
      PROVE  RowsWithin(r)'
  <2>1. Rows(r)' = Rows(r)
    BY <1>3 DEF Rows
  <2> QED
    BY <1>1, <1>2, <1>3, <2>1 DEF RowsWithin
<1>4. ASSUME IsFiniteSet(Rows(r)'), Cardinality(Rows(r)') <= Cardinality(Rows(r)),
             UNCHANGED <<crashes, errors>>, Replaced(r) => Replaced(r)'
      PROVE  RowsWithin(r)'
  <2>1. Cardinality(Rows(r)') \in Nat
    BY <1>4, FS_CardinalityType
  <2> QED
    BY <1>1, <1>2, <1>4, <2>1 DEF RowsWithin
<1>5. CASE Steady
  <2>1. \/ Replaced(r) => Replaced(r)'
        \/ crashes' = crashes + 1 \/ errors' = errors + 1
    BY <1>5 DEF Steady, Replaced, HasRow, Handling
  <2> QED
    BY <1>3, <1>5, <2>1 DEF Steady
<1>6. CASE Tick
  <2>1. timers' = timers /\ UNCHANGED <<crashes, errors>> /\ pc = "fire"
    BY <1>6 DEF Tick, TickDone, TickExpire, TickEarly, TickRetry, Take, faultVars
  <2> QED
    BY <1>3, <2>1 DEF Replaced
<1>7. ASSUME NEW q \in Receipts, SeedRetry(q) PROVE RowsWithin(r)'
  <2>1. PICK new \in TimerRow : timers' = timers \cup {new} /\ new.receipt = q
    BY <1>1, <1>7, Inserted
  <2>2. UNCHANGED <<pc, current, crashes, errors>>
    BY <1>7 DEF SeedRetry, engineVars, faultVars
  <2>3. CASE q = r
    <3>1. Rows(r) = {}
      BY <1>1, <1>7, <2>3 DEF SeedRetry, KnownSeeded, Known, Rows
    <3>2. Rows(r)' = {new}
      BY <2>1, <2>3, <3>1 DEF Rows
    <3>3. IsFiniteSet(Rows(r)') /\ Cardinality(Rows(r)') = 1
      BY <3>2, FS_Singleton
    <3> QED
      BY <1>2, <2>2, <3>3 DEF RowsWithin
  <2>4. CASE q # r
    <3>1. Rows(r)' = Rows(r)
      BY <2>1, <2>4 DEF Rows
    <3>2. Replaced(r) => Replaced(r)'
      BY <2>1, <2>2 DEF Replaced, HasRow
    <3> QED
      BY <1>2, <1>4, <2>2, <3>1, <3>2
  <2> QED
    BY <2>3, <2>4
<1>8. CASE ScheduleNext
  <2>1. current.receipt \in Receipts /\ pc = "schedule" /\ pc' = "delete"
    BY <1>1, <1>8 DEF ScheduleNext, TypeOK, Handling, TimerRow
  <2>2. /\ UNCHANGED <<current, crashes, errors>>
        /\ \E new \in TimerRow :
              timers' = timers \cup {new} /\ new.receipt = current.receipt
    BY <1>1, <1>8, <2>1, Inserted
  <2>3. PICK new \in TimerRow : timers' = timers \cup {new} /\ new.receipt = current.receipt
    BY <2>2
  <2>4. Cardinality(Rows(r)) <= 1 + crashes + errors
    BY <1>1, <1>2, <2>1 DEF RowsWithin, Replaced
  <2>5. CASE current.receipt # r
    <3>1. Rows(r)' = Rows(r)
      BY <2>3, <2>5 DEF Rows
    <3> QED
      BY <1>2, <1>4, <2>1, <2>2, <3>1 DEF Replaced
  <2>6. CASE current.receipt = r /\ HasRow(current)
    <3>1. Rows(r)' = Rows(r) \cup {new}
      BY <2>3, <2>6 DEF Rows
    <3>2. IsFiniteSet(Rows(r)') /\ Cardinality(Rows(r)') <= Cardinality(Rows(r)) + 1
          /\ Cardinality(Rows(r)') \in Nat
      BY SMTT(30), <1>2, <3>1, FS_AddElement, FS_CardinalityType
    <3>3. Replaced(r)'
      BY <2>1, <2>2, <2>3, <2>6 DEF Replaced, HasRow
    <3> QED
      BY <1>2, <2>2, <2>4, <3>2, <3>3 DEF RowsWithin
  <2>7. CASE current.receipt = r /\ HasNoRow(r)
    <3>1. Rows(r)' = {new}
      BY <2>3, <2>7 DEF Rows, HasNoRow
    <3>2. IsFiniteSet(Rows(r)') /\ Cardinality(Rows(r)') = 1
      BY <3>1, FS_Singleton
    <3> QED
      BY <1>2, <2>2, <3>2 DEF RowsWithin
  <2> QED
    BY <1>1, <2>1, <2>5, <2>6, <2>7 DEF HandHasRow, Firing
<1>9. CASE Recover \/ Claim
  <2>1. \E C \in SUBSET timers, c \in BOOLEAN :
           /\ C \in SUBSET TimerRow
           /\ timers' = (timers \ C) \cup SetClaimed(C, c)
    <3>1. CASE Claim
      BY <1>1, <3>1, Claimed
    <3>2. CASE Recover
      <4>1. timers' = (timers \ timers) \cup SetClaimed(timers, FALSE)
            /\ timers \in SUBSET TimerRow
        BY <1>1, <3>2 DEF Recover, TypeOK
      <4> QED
        BY <4>1
    <3> QED
      BY <1>9, <3>1, <3>2
  <2>2. PICK C \in SUBSET timers, c \in BOOLEAN :
           /\ C \in SUBSET TimerRow
           /\ timers' = (timers \ C) \cup SetClaimed(C, c)
    BY <2>1
  <2>3. Rows(r)' = (Rows(r) \ (C \cap Rows(r))) \cup SetClaimed(C \cap Rows(r), c)
    BY <2>2, RowsOfClaimed
  <2>4. IsFiniteSet(Rows(r)') /\ Cardinality(Rows(r)') <= Cardinality(Rows(r))
    <3>1. C \cap Rows(r) \in SUBSET Rows(r) /\ C \cap Rows(r) \in SUBSET TimerRow
      BY <2>2
    <3> QED
      BY <1>2, <2>2, <2>3, <3>1, SameRowCount
  <2>5. UNCHANGED <<crashes, errors>> /\ pc # "delete"
    BY <1>9 DEF Recover, Claim, faultVars
  <2> QED
    BY <1>4, <2>4, <2>5 DEF Replaced
<1>10. CASE DeleteFired
  <2>1. /\ timers' = {t \in timers : t.id # current.id}
        /\ pc = "delete" /\ pc' = "fire" /\ UNCHANGED <<crashes, errors>>
    BY <1>10 DEF DeleteFired, faultVars
  <2>2. Rows(r)' \subseteq Rows(r)
    BY <2>1 DEF Rows
  <2>3. CASE ~Replaced(r)
    <3>1. IsFiniteSet(Rows(r)') /\ Cardinality(Rows(r)') <= Cardinality(Rows(r))
      BY <1>2, <2>2, FS_Subset
    <3> QED
      BY <1>4, <2>1, <2>3, <3>1
  <2>4. CASE Replaced(r)
    <3>1. PICK u \in timers : u.id = current.id
      BY <2>4 DEF Replaced, HasRow
    <3>2. u \in Rows(r)
      BY <1>1, <2>1, <2>4, <3>1, HandAgrees DEF Rows, Replaced, Handling
    <3>3. IsFiniteSet(Rows(r) \ {u}) /\ Cardinality(Rows(r) \ {u}) = Cardinality(Rows(r)) - 1
      BY <1>2, <3>2, FS_RemoveElement
    <3>4. Rows(r)' \in SUBSET (Rows(r) \ {u})
      BY <2>1, <2>2, <3>1 DEF Rows
    <3>5. IsFiniteSet(Rows(r)') /\ Cardinality(Rows(r)') <= Cardinality(Rows(r)) - 1
      BY <3>3, <3>4, FS_Subset
    <3>6. Cardinality(Rows(r)') \in Nat
      BY <3>5, FS_CardinalityType
    <3>7. ~Replaced(r)'
      BY <2>1 DEF Replaced
    <3> QED
      BY <1>1, <1>2, <2>1, <2>4, <3>5, <3>6, <3>7 DEF RowsWithin
  <2> QED
    BY <2>3, <2>4
<1>11. ASSUME NEW Q, Purge(Q) PROVE RowsWithin(r)'
  <2>1. /\ timers' = {t \in timers : t.receipt \notin Q}
        /\ UNCHANGED <<pc, current, crashes, errors>>
    BY <1>11 DEF Purge
  <2>2. CASE r \in Q
    <3>1. Rows(r)' = {}
      BY <2>1, <2>2 DEF Rows
    <3>2. IsFiniteSet(Rows(r)') /\ Cardinality(Rows(r)') = 0
      BY <3>1, FS_EmptySet
    <3> QED
      BY <1>2, <2>1, <3>2 DEF RowsWithin
  <2>3. CASE r \notin Q
    <3>1. Rows(r)' = Rows(r)
      BY <2>1, <2>3 DEF Rows
    <3>2. Replaced(r) => Replaced(r)'
      BY <1>1, <1>11, <2>1, <2>3, PurgeHand DEF Replaced, Handling
    <3> QED
      BY <1>2, <1>4, <2>1, <3>1, <3>2
  <2> QED
    BY <2>2, <2>3
<1> QED
  BY <1>1, <1>5, <1>6, <1>7, <1>8, <1>9, <1>10, <1>11, RowActions DEF RowAction

\* Every step preserves the invariant.
LEMMA NextBound == IInv /\ BoundInv /\ [Next]_vars => BoundInv'
BY KnownSeededStep, RowIdsDistinctStep, BatchHasRowStep, HandHasRowStep,
   RowsWithinStep DEF IInv, BoundInv

-----------------------------------------------------------------------------
(* The theorems.                                                           *)

\* However claims, cancels, sweeps, crashes and failed calls interleave, a
\* receipt has one timer row, one more while the fired one waits for deletion,
\* and one more per crash or failed call (timers/retry.go, timers/engine.go).
THEOREM TimersAreBounded == Spec => []TimersBounded
<1>1. Init => BoundInv
  BY InitBound
<1>2. IInv /\ BoundInv /\ [Next]_vars => BoundInv'
  BY NextBound
<1>3. ASSUME IInv, BoundInv, NEW r \in Receipts
      PROVE  Cardinality({t \in timers : t.receipt = r}) <= 1 + crashes + errors
                + (IF pc = "delete" /\ current.receipt = r THEN 1 ELSE 0)
  <2>1. RowsWithin(r) /\ Cardinality(Rows(r)) \in Nat
    BY <1>3, FS_CardinalityType DEF BoundInv, RowsWithin
  <2>2. crashes \in Nat /\ errors \in Nat
    BY <1>3 DEF IInv, TypeOK
  <2> QED
    BY <2>1, <2>2 DEF RowsWithin, Rows, Replaced
<1>4. IInv /\ BoundInv => TimersBounded
  BY <1>3 DEF TimersBounded
<1> QED
  BY <1>1, <1>2, <1>4, Inductive, PTL DEF Spec

-----------------------------------------------------------------------------
(* Foreign keys.                                                           *)

\* A receipt's row is there until the collector deletes it.
LEMMA ExistsStays ==
    ASSUME IInv, IInv', [Next]_vars, NEW r \in Receipts, Exists(r), ~Exists(r)'
    PROVE  DeleteSelected /\ r \in sweeping
<1>1. receipts[r].state \notin {"absent", "swept"}
  BY DEF Exists, States, OpenStates, TerminalStates
<1>2. receipts'[r] \in ReceiptRow
  BY DEF IInv, TypeOK
<1>3. receipts'[r].state \in {"absent", "swept"}
  BY <1>2 DEF Exists, ReceiptRow
<1>4. receipts'[r].state # "absent"
  BY <1>1, RowSteps DEF RowStep, IInv, TimerInv
<1> QED
  BY <1>1, <1>3, <1>4, OnlySelectedSwept DEF IInv, TimerInv

\* A receipt goes with its timers, and a timer is made only for one that is there.
LEMMA ReferencesStep ==
    ASSUME ForeignKeys, IInv, IInv', TimersReferenceReceipts, [Next]_vars
    PROVE  TimersReferenceReceipts'
<1> SUFFICES ASSUME NEW t \in timers' PROVE Exists(t.receipt)'
  BY DEF TimersReferenceReceipts
<1>0. t.receipt \in Receipts /\ TypeOK
  BY DEF IInv, TypeOK, TimerRow
<1>1. ASSUME Exists(t.receipt), ~DeleteSelected PROVE Exists(t.receipt)'
  BY <1>0, <1>1, ExistsStays
<1>2. CASE DeleteSelected
  <2>1. t \in timers /\ t.receipt \notin sweeping
    BY <1>2 DEF DeleteSelected
  <2> QED
    BY <1>0, <2>1, ExistsStays DEF TimersReferenceReceipts
<1>3. ASSUME NEW q \in Receipts, SeedRetry(q) \/ (ScheduleNext /\ q = current.receipt)
      PROVE  Exists(t.receipt)'
  <2>1. PICK new \in TimerRow : timers' = timers \cup {new} /\ new.receipt = q
    BY <1>0, <1>3, Inserted
  <2>2. Exists(q) /\ receipts' = receipts
    BY <1>3 DEF SeedRetry, ScheduleNext, CanInsertTimer
  <2> QED
    BY <2>1, <2>2 DEF TimersReferenceReceipts, Exists
<1>4. CASE /\ \E u \in timers : u.receipt = t.receipt
           /\ ~DeleteSelected
  BY <1>1, <1>4 DEF TimersReferenceReceipts
<1>5. CASE Steady \/ Tick \/ DeleteFired \/ (\E Q : Purge(Q))
  <2>1. t \in timers
    BY <1>5 DEF Steady, Tick, TickDone, TickExpire, TickEarly, TickRetry, Take,
       DeleteFired, Purge
  <2> QED
    BY <1>2, <1>4, <2>1
<1>6. CASE Recover
  <2>1. timers \in SUBSET TimerRow /\ timers' = SetClaimed(timers, FALSE)
    BY <1>0, <1>6 DEF Recover, TypeOK
  <2>2. \A u \in SetClaimed(timers, FALSE) :
           \E s \in timers : s.id = u.id /\ s.receipt = u.receipt
    BY <2>1, SetClaimedRows
  <2> QED
    BY <1>2, <1>4, <2>1, <2>2
<1>7. CASE Claim
  <2>1. PICK C \in SUBSET timers :
          /\ C \in SUBSET TimerRow
          /\ timers' = (timers \ C) \cup SetClaimed(C, TRUE)
    BY <1>0, <1>7, Claimed
  <2>2. \A u \in SetClaimed(C, TRUE) :
           \E s \in C : s.id = u.id /\ s.receipt = u.receipt
    BY <2>1, SetClaimedRows
  <2> QED
    BY <1>2, <1>4, <2>1, <2>2
<1>8. ASSUME ScheduleNext PROVE current.receipt \in Receipts
  BY <1>0, <1>8 DEF ScheduleNext, TypeOK, Handling, TimerRow
<1> QED
  BY <1>0, <1>2, <1>3, <1>5, <1>6, <1>7, <1>8, RowActions DEF RowAction

\* Where the database enforces the foreign key (Postgres) no timer outlives its
\* receipt, whatever the collector does between the steps of the engine
\* (migrations/0001_init.up.sql).
THEOREM TimersHaveReceipts ==
    ASSUME ForeignKeys
    PROVE  Spec => []TimersReferenceReceipts
<1>1. Init => TimersReferenceReceipts
  BY DEF Init, TimersReferenceReceipts
<1>2. IInv /\ IInv' /\ TimersReferenceReceipts /\ [Next]_vars => TimersReferenceReceipts'
  BY ReferencesStep
<1> QED
  BY <1>1, <1>2, Inductive, PTL DEF Spec
=============================================================================
