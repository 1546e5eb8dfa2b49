------------------------------ MODULE MCAgents ------------------------------
(***************************************************************************)
(* Model-checking instances of the agent calls: how several wait for each  *)
(* other (AgentScheduling) and what each does with its session             *)
(* (AgentSession).  They share no state: a behaviour steps one of them,    *)
(* chosen at the start, while the other is over.                           *)
(***************************************************************************)
EXTENDS AgentCalls

CONSTANTS a1, a2, a3

VARIABLE part

\* A fan-out of two calls and a call of its own.
PairAndOne == {{a1, a2}, {a3}}

ASSUME Session!SessionAssumption

----------------------------------------------------------------------------
CallsAreOver ==
  /\ Gate!Init
  /\ hooks = FALSE
  /\ stage = [a \in Agent |-> "over"] /\ member = [a \in Agent |-> "skipped"]
  /\ selection = [b \in Batches |-> "answered"] /\ answer = [b \in Batches |-> {}]
  /\ effort = [a \in Agent |-> "inherited"] /\ models = "unset"

SessionIsOver ==
  /\ pc = "over" /\ aborted = FALSE /\ which = 1 /\ session = [s \in 1..2 |-> "none"]
  /\ listener = "none" /\ aborting = "no" /\ prompt = "idle" /\ subscribed = "none"
  /\ emitted = 0 /\ body = "sdk" /\ reported = 0 /\ cleanup = "none"

AgentsInit ==
  \/ part = "scheduling" /\ Init /\ SessionIsOver
  \/ part = "session" /\ CallsAreOver /\ Session!Init

AgentsNext ==
  \/ part = "scheduling" /\ Next /\ UNCHANGED <<part, sessionVars>>
  \/ part = "session" /\ Session!Next /\ UNCHANGED <<part, vars>>

AgentsSpec ==
  /\ AgentsInit /\ [][AgentsNext]_<<part, vars, sessionVars>>
  /\ Fairness /\ Session!Fairness

=============================================================================
