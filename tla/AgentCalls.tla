----------------------------- MODULE AgentCalls -----------------------------
(***************************************************************************)
(* The agent calls of a run: how they wait for each other's efforts and    *)
(* for a permit (AgentScheduling), and what each of them does with its     *)
(* session in the runner (AgentSession).  The first knows no more of a     *)
(* session than that it is initialised, runs and ends or fails; what both  *)
(* promise of an aborted run is stated here.                               *)
(***************************************************************************)
EXTENDS AgentScheduling

CONSTANT MaxEvents  \* bound on the events a session emits

VARIABLES
  \* the variables of AgentSession:
  pc, aborted, which, session, listener, aborting, prompt, subscribed, emitted, body,
  reported, cleanup

sessionVars == <<pc, aborted, which, session, listener, aborting, prompt, subscribed,
                 emitted, body, reported, cleanup>>

Session == INSTANCE AgentSession

----------------------------------------------------------------------------
\* A call leaves nothing of its session behind, and accounts for all it did.
SessionSound == Session!SessionSound

\* After an abort nothing is begun: no selection, no run, no stream.
NothingBegunAfterAbort == QuietAfterAbort /\ Session!NoStreamAfterAbort

\* An aborted call ends, wherever the abort met it.
AbortedCallEnds == Session!AbortedCallEnds
=============================================================================
