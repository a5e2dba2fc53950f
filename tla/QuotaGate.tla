----------------------------- MODULE QuotaGate -----------------------------
(***************************************************************************)
(* The monthly quota of one account: each send passes a gate that reads    *)
(* the counter, is stored and published, and is charged afterwards by an   *)
(* atomic increment.  Requests run concurrently, the store may fail, and   *)
(* the month may end between any two steps.                                *)
(*                                                                         *)
(* A send costs its number of recipients.  One to an empty group is        *)
(* neither gated nor charged, and left out.                                *)
(***************************************************************************)
EXTENDS Naturals, FiniteSets

CONSTANTS
    Senders,        \* request goroutines of POST /1/messages.json
    Apps,           \* ids of application tokens
    Limit,          \* quota.Manager.limit (10000)
    MaxRecipients,  \* the most recipients a send resolves to
    MaxPeriod       \* bound: months

ASSUME QuotaAssumption ==
    /\ IsFiniteSet(Senders) /\ Senders # {}
    /\ Limit \in Nat \ {0}
    /\ MaxRecipients \in Nat \ {0}
    /\ MaxPeriod \in Nat

VARIABLES
    count,          \* quota_counters.count of the current month
    period,         \* the current month, America/Chicago
    sender          \* where each request stands

quotaVars == <<count, period, sender>>

Idle == [step |-> "idle"]
SenderState == {Idle} \cup [step: {"passed", "sent"}, app: Apps,
                            cost: 1..MaxRecipients]

\* Manager.Snapshot: remaining is clamped at zero.
Remaining(c) == IF c >= Limit THEN 0 ELSE Limit - c

Passed(a, n) == [step |-> "passed", app |-> a, cost |-> n]

\* Mutant: the gate asks for one, whatever the send costs.
GateAsksForOne(p, a, n) ==
    /\ sender[p] = Idle
    /\ 1 <= Remaining(count)
    /\ sender' = [sender EXCEPT ![p] = Passed(a, n)]
    /\ UNCHANGED <<count, period>>

\* Pre-write gate for n recipients: read the counter, write nothing.  A read that
\* fails refuses.
Gate(p, a, n) ==
    /\ sender[p] = Idle
    /\ n <= Remaining(count)
    /\ sender' = [sender EXCEPT ![p] = Passed(a, n)]
    /\ UNCHANGED <<count, period>>

\* The transaction that stores the message, and its publication.
Ingest(p) ==
    /\ sender[p].step = "passed"
    /\ sender' = [sender EXCEPT ![p].step = "sent"]
    /\ UNCHANGED <<count, period>>

\* The transaction fails: 500, nothing stored and nothing charged.
IngestFails(p) ==
    /\ sender[p].step = "passed"
    /\ sender' = [sender EXCEPT ![p] = Idle]
    /\ UNCHANGED <<count, period>>

\* Quota.Increment, in the month it runs in.
Charge(p) ==
    /\ sender[p].step = "sent"
    /\ count' = count + sender[p].cost
    /\ sender' = [sender EXCEPT ![p] = Idle]
    /\ UNCHANGED period

\* An increment that fails is logged; the send stays accepted.
ChargeFails(p) ==
    /\ sender[p].step = "sent"
    /\ sender' = [sender EXCEPT ![p] = Idle]
    /\ UNCHANGED <<count, period>>

\* A new month starts with a counter row that does not exist yet.
MonthEnds ==
    /\ period < MaxPeriod
    /\ period' = period + 1
    /\ count' = 0
    /\ UNCHANGED sender

QuotaInit ==
    /\ count = 0
    /\ period = 0
    /\ sender = [p \in Senders |-> Idle]

QuotaNext ==
    \/ \E p \in Senders :
          \/ \E a \in Apps, n \in 1..MaxRecipients : Gate(p, a, n)
          \/ Ingest(p) \/ IngestFails(p)
          \/ Charge(p) \/ ChargeFails(p)
    \/ MonthEnds

QuotaSpec == QuotaInit /\ [][QuotaNext]_quotaVars

-----------------------------------------------------------------------------
QuotaTypeOK ==
    /\ count \in Nat
    /\ period \in 0..MaxPeriod
    /\ sender \in [Senders -> SenderState]

Uncharged == {p \in Senders : sender[p] # Idle}

\* Requests that pass the gate together may overshoot the limit, but never by
\* more than the others that were between gate and charge: with k request
\* goroutines at most Limit + (k - 1) * MaxRecipients are charged to a month.
OvershootBounded ==
    count + MaxRecipients <= Limit + MaxRecipients * Cardinality(Senders)
=============================================================================
