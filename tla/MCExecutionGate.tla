-------------------------- MODULE MCExecutionGate --------------------------
(* Model-checking instance of ExecutionGate. *)
EXTENDS ExecutionGate
=============================================================================
