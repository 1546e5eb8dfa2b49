---------------------------- MODULE MCExecution ----------------------------
(***************************************************************************)
(* Model-checking instances of one execution.  Script and run share no     *)
(* state: a behaviour steps one of them, chosen at the start, while the    *)
(* other is over.                                                          *)
(***************************************************************************)
EXTENDS Execution

VARIABLE part

\* A fan-out of all agents, or a panel with its release.
FanOutOrPanel == {Agent, Panel \cup Cleanup}
TheirPanel == [r \in Cleanup |-> CHOOSE p \in Panel : TRUE]

ASSUME ScriptAssumption /\ Run!LifecycleAssumption

----------------------------------------------------------------------------
RunIsOver ==
  /\ signal = FALSE /\ children = FALSE /\ script = FALSE /\ runDeadline = "past"
  /\ policy = None /\ runFatal = FALSE /\ stage = "settled" /\ failure = None
  /\ fiber = [c \in Call |-> "over"] /\ told = {} /\ committed = {}
  /\ attached = FALSE /\ runOutcome = "ok"

ScriptIsOver ==
  /\ thread = "alive" /\ waiter = [c \in Rpc |-> "absent"]
  /\ sticky = None /\ finished = TRUE /\ logged = FALSE
  /\ outbox = <<>> /\ inbox = <<>> /\ events = <<>>
  /\ reply = [c \in Rpc |-> "none"] /\ pending = 0
  /\ fatal = None /\ reported = TRUE /\ aborted = FALSE /\ cancelled = FALSE
  /\ deadline = "off" /\ outcome = "ok"

ExecutionInit ==
  \/ part = "script" /\ Init /\ RunIsOver
  \/ part = "run" /\ Run!Init /\ ScriptIsOver

ExecutionNext ==
  \/ part = "script" /\ Next /\ UNCHANGED <<part, runVars>>
  \/ part = "run" /\ Run!Next /\ UNCHANGED <<part, vars>>

ExecutionSpec ==
  /\ ExecutionInit /\ [][ExecutionNext]_<<part, vars, runVars>>
  /\ Fairness /\ Run!Fairness
=============================================================================
