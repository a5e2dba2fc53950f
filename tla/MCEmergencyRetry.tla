-------------------------- MODULE MCEmergencyRetry --------------------------
(* Small instances of EmergencyRetry for TLC. *)
EXTENDS EmergencyRetry, TLC

\* Receipt ids are only compared for equality.
Symmetry == Permutations(Receipts)
=============================================================================
