-------------------------- MODULE MCCallbackWorker --------------------------
(* Small instances of CallbackWorker for TLC. *)
EXTENDS CallbackWorker, TLC

CONSTANTS a     \* a host:port

\* Every send asks for a callback, all on one host.
OneHost == [r \in Receipts |-> a]
=============================================================================
