-------------------------- MODULE QuotaGateProofs --------------------------
(***************************************************************************)
(* Proofs about QuotaGate, for any finite set of request goroutines, any   *)
(* limit and any number of months.                                         *)
(*                                                                         *)
(* OvershootBounded is not inductive: it says nothing about the sends that *)
(* have passed the gate and are still to be charged.  ChargesBounded       *)
(* counts them as charged already: one of them at what it costs, the       *)
(* others at the most a send can cost.  The gate keeps it with the request *)
(* that passes as that one: with the counter it read, it stays within the  *)
(* limit, and at most the other goroutines are pending.                    *)
(***************************************************************************)
EXTENDS QuotaGate, FiniteSetTheorems, TLAPS

\* x, with k sends of the highest cost but one for free, is within the bound.
Within(x, k) ==
    x + MaxRecipients * k <= Limit + MaxRecipients * Cardinality(Senders)

\* A pending send fits an untouched month; and all of them may still be charged.
ChargesBounded ==
    /\ \A p \in Uncharged : sender[p].cost <= Limit
    /\ Uncharged = {} => Within(count, 1)
    /\ Uncharged # {} =>
          \E p \in Uncharged : Within(count + sender[p].cost, Cardinality(Uncharged))

QuotaInv == QuotaTypeOK /\ ChargesBounded

-----------------------------------------------------------------------------
\* Products with the highest cost grow with the factor.
LEMMA Times ==
    ASSUME NEW k \in Nat, NEW m \in Nat, m <= k
    PROVE  /\ MaxRecipients * k \in Nat /\ MaxRecipients * m \in Nat
           /\ MaxRecipients * m <= MaxRecipients * k
           /\ MaxRecipients * (k + 1) = MaxRecipients * k + MaxRecipients
  <1>1. MaxRecipients \in Nat
    BY QuotaAssumption
  <1>2. PICK d \in Nat : k = m + d
    <2>1. k - m \in Nat /\ k = m + (k - m)
      OBVIOUS
    <2> QED
      BY <2>1
  <1>3. MaxRecipients * d \in Nat
    BY <1>1
  <1>4. MaxRecipients * k = MaxRecipients * m + MaxRecipients * d
    BY <1>1, <1>2
  <1> QED
    BY <1>1, <1>3, <1>4

\* The bound holds of less, with fewer sends to come.
LEMMA WithinLess ==
    ASSUME NEW x \in Nat, NEW y \in Nat, NEW k \in Nat, NEW m \in Nat,
           Within(x, k), y <= x, m <= k
    PROVE  Within(y, m)
  <1>1. Cardinality(Senders) \in Nat
    BY QuotaAssumption, FS_CardinalityType
  <1>2. MaxRecipients * Cardinality(Senders) \in Nat
    BY <1>1, Times
  <1> QED
    BY <1>2, Times, QuotaAssumption DEF Within

\* One of the sends to come is charged, or is the one that counts at its cost.
LEMMA WithinCharge ==
    ASSUME NEW x \in Nat, NEW c \in Nat, NEW k \in Nat,
           Within(x, k + 1), c <= MaxRecipients
    PROVE  Within(x + c, k)
  <1>1. Cardinality(Senders) \in Nat
    BY QuotaAssumption, FS_CardinalityType
  <1>2. MaxRecipients * Cardinality(Senders) \in Nat
    BY <1>1, Times
  <1> QED
    BY <1>2, Times, QuotaAssumption DEF Within

\* What stays within the limit leaves room for every goroutine.
LEMMA WithinLimit ==
    ASSUME NEW x \in Nat, NEW k \in Nat, x <= Limit, k <= Cardinality(Senders)
    PROVE  Within(x, k)
  <1>1. Cardinality(Senders) \in Nat
    BY QuotaAssumption, FS_CardinalityType
  <1> QED
    BY <1>1, Times, QuotaAssumption DEF Within

\* The pending requests are a finite set, never larger than the goroutines.
LEMMA UnchargedFinite ==
    /\ IsFiniteSet(Uncharged)
    /\ Cardinality(Uncharged) \in Nat
    /\ Cardinality(Senders) \in Nat
    /\ Cardinality(Uncharged) <= Cardinality(Senders)
  <1>1. IsFiniteSet(Senders)
    BY QuotaAssumption
  <1>2. Uncharged \subseteq Senders
    BY DEF Uncharged
  <1>3. IsFiniteSet(Uncharged) /\ Cardinality(Uncharged) <= Cardinality(Senders)
    BY <1>1, <1>2, FS_Subset
  <1> QED
    BY <1>1, <1>3, FS_CardinalityType

\* The types hold, and keep holding, whatever a request or the calendar does.
LEMMA TypeInit == QuotaInit => QuotaTypeOK
  <1> SUFFICES ASSUME QuotaInit PROVE QuotaTypeOK
    OBVIOUS
  <1>1. Idle \in SenderState
    BY DEF SenderState
  <1>2. sender \in [Senders -> SenderState]
    BY <1>1 DEF QuotaInit
  <1> QED
    BY <1>2, QuotaAssumption DEF QuotaInit, QuotaTypeOK

\* One step keeps the types.
LEMMA TypeStep == QuotaTypeOK /\ [QuotaNext]_quotaVars => QuotaTypeOK'
  <1> SUFFICES ASSUME QuotaTypeOK, [QuotaNext]_quotaVars PROVE QuotaTypeOK'
    OBVIOUS
  <1> USE DEF QuotaTypeOK
  <1>1. ASSUME NEW p \in Senders, NEW a \in Apps, NEW n \in 1..MaxRecipients,
               Gate(p, a, n)
        PROVE  QuotaTypeOK'
    <2>1. Passed(a, n) \in SenderState
      BY DEF SenderState, Passed
    <2> QED
      BY <1>1, <2>1 DEF Gate
  <1>2. ASSUME NEW p \in Senders, Ingest(p) PROVE QuotaTypeOK'
    <2>1. sender[p] \in [step: {"passed", "sent"}, app: Apps,
                          cost: 1..MaxRecipients]
      BY <1>2 DEF Ingest, SenderState, Idle
    <2>2. [sender[p] EXCEPT !.step = "sent"] \in SenderState
      BY <2>1 DEF SenderState
    <2>3. sender' = [sender EXCEPT ![p] = [sender[p] EXCEPT !.step = "sent"]]
      BY <1>2 DEF Ingest
    <2> QED
      BY <1>2, <2>2, <2>3 DEF Ingest
  <1>3. ASSUME NEW p \in Senders, IngestFails(p) \/ Charge(p) \/ ChargeFails(p)
        PROVE QuotaTypeOK'
    <2>1. Idle \in SenderState
      BY DEF SenderState
    <2>2. sender' = [sender EXCEPT ![p] = Idle]
      BY <1>3 DEF IngestFails, Charge, ChargeFails
    <2>3. CASE Charge(p)
      <3>1. sender[p].cost \in Nat
        BY <2>3, QuotaAssumption DEF Charge, SenderState, Idle
      <3> QED
        BY <2>1, <2>2, <2>3, <3>1 DEF Charge
    <2>4. CASE IngestFails(p) \/ ChargeFails(p)
      BY <2>1, <2>2, <2>4 DEF IngestFails, ChargeFails
    <2> QED
      BY <1>3, <2>3, <2>4
  <1>4. CASE MonthEnds
    BY <1>4, QuotaAssumption DEF MonthEnds
  <1>5. CASE UNCHANGED quotaVars
    BY <1>5 DEF quotaVars
  <1> QED
    BY <1>1, <1>2, <1>3, <1>4, <1>5 DEF QuotaNext

\* The counter, the month and every request keep their types for ever.
THEOREM QuotaTypeCorrect == QuotaSpec => []QuotaTypeOK
  <1>1. QuotaInit => QuotaTypeOK
    BY TypeInit
  <1>2. QuotaTypeOK /\ [QuotaNext]_quotaVars => QuotaTypeOK'
    BY TypeStep
  <1> QED
    BY <1>1, <1>2, PTL DEF QuotaSpec

-----------------------------------------------------------------------------
\* What a pending request costs.
LEMMA CostType ==
    ASSUME QuotaTypeOK, NEW p \in Uncharged
    PROVE  sender[p].cost \in Nat /\ sender[p].cost <= MaxRecipients
  <1>1. sender[p] \in [step: {"passed", "sent"}, app: Apps, cost: 1..MaxRecipients]
    BY DEF QuotaTypeOK, SenderState, Uncharged
  <1> QED
    BY <1>1, QuotaAssumption

\* At the start nothing is charged or pending, and there is a goroutine.
LEMMA ChargesInit == QuotaInit => ChargesBounded
  <1> SUFFICES ASSUME QuotaInit PROVE ChargesBounded
    OBVIOUS
  <1>1. Uncharged = {}
    BY DEF QuotaInit, Uncharged
  <1>2. Cardinality(Senders) # 0
    BY QuotaAssumption, FS_EmptySet
  <1>3. count \in Nat /\ count <= Limit /\ 1 <= Cardinality(Senders)
    BY <1>2, UnchargedFinite, QuotaAssumption DEF QuotaInit
  <1>4. Within(count, 1)
    BY <1>3, WithinLimit
  <1> QED
    BY <1>1, <1>4 DEF ChargesBounded

\* Gate, the heart of the argument: what it read and what it lets through stay
\* within the limit, and p itself was not pending.
LEMMA GateKeepsBound ==
    ASSUME QuotaInv, NEW p \in Senders, NEW a \in Apps, NEW n \in 1..MaxRecipients,
           Gate(p, a, n)
    PROVE  ChargesBounded'
  <1>1. sender' = [sender EXCEPT ![p] = Passed(a, n)] /\ count' = count
    BY DEF Gate
  <1>2. count \in Nat /\ n \in Nat /\ count + n <= Limit
    BY QuotaAssumption DEF Gate, Remaining, QuotaInv, QuotaTypeOK
  <1>3. sender'[p] = Passed(a, n) /\ \A q \in Senders \ {p} : sender'[q] = sender[q]
    BY <1>1 DEF QuotaInv, QuotaTypeOK
  <1>4. sender'[p].cost = n /\ p \in Uncharged'
    BY <1>3 DEF Uncharged, Passed, Idle
  <1>5. \A q \in Uncharged' : sender'[q].cost <= Limit
    BY <1>2, <1>3, <1>4, QuotaAssumption DEF Uncharged, QuotaInv, ChargesBounded
  <1>6. /\ Cardinality(Uncharged') \in Nat
        /\ Cardinality(Uncharged') <= Cardinality(Senders)
    <2>1. Uncharged' \subseteq Senders
      BY DEF Uncharged
    <2>2. IsFiniteSet(Uncharged') /\ Cardinality(Uncharged') <= Cardinality(Senders)
      BY <2>1, QuotaAssumption, FS_Subset
    <2> QED
      BY <2>2, FS_CardinalityType
  <1>7. Within(count + n, Cardinality(Uncharged'))
    BY <1>2, <1>6, WithinLimit
  <1>8. Within(count' + sender'[p].cost, Cardinality(Uncharged'))
    BY <1>1, <1>4, <1>7
  <1> QED
    BY <1>4, <1>5, <1>8 DEF ChargesBounded, Within

\* A request that leaves was pending.  If it is the one that counts at its cost,
\* any other that is left takes its place.
LEMMA LeavingKeepsBound ==
    ASSUME QuotaInv, NEW p \in Senders, IngestFails(p) \/ Charge(p) \/ ChargeFails(p)
    PROVE  ChargesBounded'
  <1> DEFINE k == Cardinality(Uncharged')
  <1>1. sender' = [sender EXCEPT ![p] = Idle]
    BY DEF IngestFails, Charge, ChargeFails
  <1>2. p \in Uncharged
    BY DEF IngestFails, Charge, ChargeFails, Idle, Uncharged
  <1>3. QuotaTypeOK
    BY DEF QuotaInv
  <1>4. sender[p].cost \in Nat /\ sender[p].cost <= MaxRecipients
    BY <1>2, <1>3, CostType
  <1>5. /\ count \in Nat /\ count' \in Nat
        /\ count <= count' /\ count' <= count + sender[p].cost
    BY <1>3, <1>4 DEF IngestFails, Charge, ChargeFails, QuotaTypeOK
  <1>6. Uncharged' = Uncharged \ {p} /\ \A q \in Uncharged' : sender'[q] = sender[q]
    BY <1>1, <1>3 DEF Uncharged, QuotaTypeOK
  <1>7. k \in Nat /\ Cardinality(Uncharged) = k + 1
    <2>1. IsFiniteSet(Uncharged')
      BY <1>6, UnchargedFinite, FS_RemoveElement
    <2>2. Cardinality(Uncharged') = Cardinality(Uncharged) - 1
      BY <1>2, <1>6, UnchargedFinite, FS_RemoveElement
    <2> QED
      BY <2>1, <2>2, UnchargedFinite, FS_CardinalityType
  <1>8. Uncharged' = {} => k = 0
    BY FS_EmptySet
  <1>9. PICK w \in Uncharged : Within(count + sender[w].cost, k + 1)
    BY <1>2, <1>7 DEF QuotaInv, ChargesBounded
  <1>10. \A q \in Uncharged : sender[q].cost \in Nat /\ sender[q].cost <= MaxRecipients
    BY <1>3, CostType
  <1> HIDE DEF k
  <1>11. CASE p = w
    <2>1. Within(count', k + 1)
      BY <1>4, <1>5, <1>7, <1>9, <1>11, WithinLess
    <2>2. ASSUME NEW r \in Uncharged' PROVE Within(count' + sender'[r].cost, k)
      <3>1. /\ sender'[r].cost = sender[r].cost
            /\ sender[r].cost \in Nat /\ sender[r].cost <= MaxRecipients
        BY <1>6, <1>10, <2>2
      <3>2. Within(count' + sender[r].cost, k)
        BY <1>5, <1>7, <2>1, <3>1, WithinCharge
      <3> QED
        BY <3>1, <3>2
    <2>3. Uncharged' = {} => Within(count', 1)
      BY <1>8, <2>1
    <2> QED
      BY <1>6, <2>2, <2>3 DEF ChargesBounded, Within, QuotaInv, k
  <1>12. CASE p # w
    <2>1. w \in Uncharged' /\ sender'[w].cost = sender[w].cost
      BY <1>6, <1>12
    <2>2. Within((count + sender[w].cost) + sender[p].cost, k)
      BY <1>4, <1>5, <1>7, <1>9, <1>10, WithinCharge
    <2>3. Within(count' + sender[w].cost, k)
      <3>1. sender[w].cost \in Nat
        BY <1>10
      <3>2. /\ (count + sender[w].cost) + sender[p].cost \in Nat
            /\ count' + sender[w].cost \in Nat
            /\ count' + sender[w].cost <= (count + sender[w].cost) + sender[p].cost
        BY <1>4, <1>5, <3>1
      <3> QED
        BY <1>7, <2>2, <3>2, WithinLess
    <2>4. Within(count' + sender'[w].cost, k)
      BY <2>1, <2>3
    <2> QED
      BY <1>6, <2>1, <2>4 DEF ChargesBounded, Within, QuotaInv, k
  <1> QED
    BY <1>11, <1>12

\* Storing the message moves a request on without ending its wait for the charge.
LEMMA IngestKeepsBound ==
    ASSUME QuotaInv, NEW p \in Senders, Ingest(p)
    PROVE  ChargesBounded'
  <1>1. sender' = [sender EXCEPT ![p] = [sender[p] EXCEPT !.step = "sent"]]
        /\ count' = count
    BY DEF Ingest
  <1>2. sender[p] # Idle
    BY DEF Ingest, Idle
  <1>3. sender[p] \in [step: {"passed", "sent"}, app: Apps, cost: 1..MaxRecipients]
    BY <1>2 DEF QuotaInv, QuotaTypeOK, SenderState
  <1>4. /\ [sender[p] EXCEPT !.step = "sent"] # Idle
        /\ [sender[p] EXCEPT !.step = "sent"].cost = sender[p].cost
    BY <1>3 DEF Idle
  <1>5. Uncharged' = Uncharged
    BY <1>1, <1>2, <1>4 DEF Uncharged, QuotaInv, QuotaTypeOK
  <1>6. \A q \in Uncharged : sender'[q].cost = sender[q].cost
    BY <1>1, <1>4 DEF Uncharged, QuotaInv, QuotaTypeOK
  <1> QED
    BY <1>1, <1>5, <1>6 DEF QuotaInv, ChargesBounded, Within

\* A new month forgets the charges and keeps the pending requests.
LEMMA MonthKeepsBound ==
    ASSUME QuotaInv, MonthEnds
    PROVE  ChargesBounded'
  <1>1. Uncharged' = Uncharged /\ count' = 0 /\ sender' = sender
    BY DEF MonthEnds, Uncharged
  <1>2. Cardinality(Senders) # 0
    BY QuotaAssumption, FS_EmptySet
  <1>3. 1 <= Cardinality(Senders)
    BY <1>2, UnchargedFinite
  <1>4. Within(0, 1)
    BY <1>3, WithinLimit, QuotaAssumption
  <1>5. ASSUME NEW p \in Uncharged
        PROVE  Within(0 + sender[p].cost, Cardinality(Uncharged))
    <2>1. sender[p].cost \in Nat /\ sender[p].cost <= Limit
      BY CostType DEF QuotaInv, ChargesBounded
    <2>2. Within(sender[p].cost, Cardinality(Uncharged))
      BY <2>1, UnchargedFinite, WithinLimit
    <2>3. 0 + sender[p].cost = sender[p].cost
      BY <2>1
    <2> QED
      BY <2>2, <2>3
  <1> QED
    BY <1>1, <1>4, <1>5 DEF QuotaInv, ChargesBounded, Within

\* One step of any request, or of the calendar, keeps the bound.
LEMMA ChargesStep == QuotaInv /\ [QuotaNext]_quotaVars => QuotaInv'
  <1> SUFFICES ASSUME QuotaInv, [QuotaNext]_quotaVars PROVE QuotaInv'
    OBVIOUS
  <1>1. QuotaTypeOK'
    BY TypeStep DEF QuotaInv
  <1>2. ASSUME NEW p \in Senders, NEW a \in Apps, NEW n \in 1..MaxRecipients,
               Gate(p, a, n)
        PROVE  ChargesBounded'
    BY <1>2, GateKeepsBound
  <1>3. ASSUME NEW p \in Senders, Ingest(p) PROVE ChargesBounded'
    BY <1>3, IngestKeepsBound
  <1>4. ASSUME NEW p \in Senders, IngestFails(p) \/ Charge(p) \/ ChargeFails(p)
        PROVE ChargesBounded'
    BY <1>4, LeavingKeepsBound
  <1>5. ASSUME MonthEnds PROVE ChargesBounded'
    BY <1>5, MonthKeepsBound
  <1>6. ASSUME UNCHANGED quotaVars PROVE ChargesBounded'
    BY <1>6 DEF quotaVars, QuotaInv, ChargesBounded, Uncharged, Within
  <1>7. ChargesBounded'
    BY <1>2, <1>3, <1>4, <1>5, <1>6 DEF QuotaNext
  <1> QED
    BY <1>1, <1>7 DEF QuotaInv

\* The inductive invariant gives the bound on the charges of a month.
LEMMA BoundFollows == QuotaInv => OvershootBounded
  <1> SUFFICES ASSUME QuotaInv PROVE Within(count, 1)
    BY QuotaAssumption DEF Within, OvershootBounded
  <1>1. CASE Uncharged = {}
    BY <1>1 DEF QuotaInv, ChargesBounded
  <1>2. ASSUME Uncharged # {} PROVE Within(count, 1)
    <2>1. PICK p \in Uncharged : Within(count + sender[p].cost, Cardinality(Uncharged))
      BY <1>2 DEF QuotaInv, ChargesBounded
    <2>2. sender[p].cost \in Nat /\ count \in Nat
      BY CostType DEF QuotaInv, QuotaTypeOK
    <2>3. Cardinality(Uncharged) # 0
      BY <1>2, UnchargedFinite, FS_EmptySet
    <2>4. 1 <= Cardinality(Uncharged)
      BY <2>3, UnchargedFinite
    <2> QED
      BY <2>1, <2>2, <2>4, UnchargedFinite, WithinLess
  <1> QED
    BY <1>1, <1>2

\* prechargeQuota reads before the send is stored and charged: whatever requests
\* pass it together, a month is charged at most the limit and the highest cost
\* once for each goroutine but one, for every limit, cost and number of them.
THEOREM OvershootIsBounded == QuotaSpec => []OvershootBounded
  <1>1. QuotaInit => QuotaInv
    BY TypeInit, ChargesInit DEF QuotaInv
  <1>2. QuotaInv /\ [QuotaNext]_quotaVars => QuotaInv'
    BY ChargesStep
  <1>3. QuotaInv => OvershootBounded
    BY BoundFollows
  <1> QED
    BY <1>1, <1>2, <1>3, PTL DEF QuotaSpec
=============================================================================
