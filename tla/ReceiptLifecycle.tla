-------------------------- MODULE ReceiptLifecycle --------------------------
(***************************************************************************)
(* What the emergency-alert subsystem promises about a receipt, whatever   *)
(* drives it: the five states of internal/receipts/statemachine.go, the    *)
(* transitions it declares legal, a bounded number of counted delivery     *)
(* attempts, and none after the receipt is closed.  EmergencyRetry         *)
(* implements this specification.                                          *)
(***************************************************************************)
EXTENDS Naturals

CONSTANTS
    Receipts,       \* receipt ids
    MaxAttempts     \* scheduler.go MaxAttempts, 50 in the program

VARIABLES
    state,          \* receipts.state, or "absent" / "swept" when there is no row
    retry_count     \* receipts.retry_count

lifecycleVars == <<state, retry_count>>

OpenStates     == {"pending", "delivered"}
TerminalStates == {"acknowledged", "expired", "canceled"}
NoRowStates    == {"absent", "swept"}
States         == OpenStates \cup TerminalStates

Terminal(s) == s \in TerminalStates

legalTransitions ==
    [s \in States |->
        CASE s = "pending"   -> States \ {"pending"}
          [] s = "delivered" -> States \ {"pending"}
          [] OTHER           -> {s}]

CanTransition(from, to) == to \in legalTransitions[from]

-----------------------------------------------------------------------------
Init ==
    /\ state = [r \in Receipts |-> "absent"]
    /\ retry_count = [r \in Receipts |-> 0]

\* The ingest transaction inserts the row, pending, with no attempt counted.
Create(r) ==
    /\ state[r] = "absent"
    /\ state' = [state EXCEPT ![r] = "pending"]
    /\ UNCHANGED retry_count

\* One delivery attempt is counted on an open receipt, never beyond the cap.
CountAttempt(r) ==
    /\ state[r] \in OpenStates
    /\ retry_count[r] < MaxAttempts
    /\ retry_count' = [retry_count EXCEPT ![r] = @ + 1]
    /\ UNCHANGED state

\* The receipt moves along a legal transition (acknowledge, expire, cancel).
Move(r, to) ==
    /\ state[r] \in States
    /\ to # state[r]
    /\ CanTransition(state[r], to)
    /\ state' = [state EXCEPT ![r] = to]
    /\ UNCHANGED retry_count

\* Garbage collection removes rows for good.
Sweep(S) ==
    /\ S # {}
    /\ \A r \in S : state[r] \in States
    /\ state' = [r \in Receipts |-> IF r \in S THEN "swept" ELSE state[r]]
    /\ UNCHANGED retry_count

Next ==
    \/ \E r \in Receipts : Create(r) \/ CountAttempt(r)
    \/ \E r \in Receipts, to \in States : Move(r, to)
    \/ \E S \in SUBSET Receipts : Sweep(S)

Spec == Init /\ [][Next]_lifecycleVars
=============================================================================
