----------------------------- MODULE Execution -----------------------------
(***************************************************************************)
(* One execution of a workflow: its script between the executor and the    *)
(* worker (ScriptProtocol) and the run around it (RunLifecycle).  The run  *)
(* knows no more of the script than how its body ends, and the script no   *)
(* more of the run than that its calls settle; what each takes from the    *)
(* other is stated in the modules.                                         *)
(***************************************************************************)
EXTENDS ScriptProtocol

CONSTANT Call  \* the agent() calls of the run

VARIABLES
  \* the variables of RunLifecycle:
  signal, children, script, runDeadline, policy, runFatal, stage, failure, fiber, told,
  committed, attached, runOutcome

runVars == <<signal, children, script, runDeadline, policy, runFatal, stage, failure, fiber,
             told, committed, attached, runOutcome>>

Run == INSTANCE RunLifecycle WITH
  fatal <- runFatal, deadline <- runDeadline, outcome <- runOutcome

----------------------------------------------------------------------------
\* The answer that the caller of the run gets is true, and stays so.
AnswerIsTrue == Run!AnswerIsTrue

\* An abort, and a policy error that the script was told of, end the run.
AbortSettles == Run!AbortSettles
=============================================================================
