-------------------------- MODULE AgentScheduling --------------------------
(***************************************************************************)
(* From an agent call to a running session: src/jev.ts (createJevBatch),   *)
(* the scheduling of src/workflow/runtime.ts (agentBatch, executeAgent)    *)
(* and the set-up half of src/workflow/agent-runner.ts.  The calls of one  *)
(* synchronous fan-out form a batch.  Every member initialises a session,  *)
(* submits its capabilities (or skips), and the batch asks a selector for  *)
(* all efforts at once; only then does a member ask the execution gate for *)
(* a permit.  The gate is the ExecutionGate module; the calls are its      *)
(* waiters and an abort of the run is its close().                         *)
(*                                                                         *)
(* A runner without scheduling hooks skips the batch and is given its      *)
(* permit before it starts; a replayed call needs neither.                 *)
(***************************************************************************)
EXTENDS Naturals, Sequences, FiniteSets

CONSTANTS
  Batches,  \* the fan-outs: disjoint sets of agent calls
  limit     \* the permits of the execution gate

Agent == UNION Batches

ASSUME SchedulingAssumption ==
  /\ IsFiniteSet(Agent)
  /\ limit \in Nat \ {0}
  /\ \A b, c \in Batches : b \cap c # {} => b = c

VARIABLES
  queue, active, closed, state, ready, fiber, scopeOpen,  \* the gate's
  hooks,      \* runner.supportsSchedulingHooks
  stage,      \* how far a call has come
  member,     \* of its batch member's deferred: "pending", "asked", "skipped"
  selection,  \* of the batch's selection fiber
  answer,     \* the members the selector chose an effort for
  effort,     \* the effort of a call's session: "inherited" or "selected"
  models      \* the model runtime the sessions of one runner share

gateVars == <<queue, active, closed, state, ready, fiber, scopeOpen>>
batchVars == <<member, selection, answer>>
vars == <<queue, active, closed, state, ready, fiber, scopeOpen,
          hooks, stage, member, selection, answer, effort, models>>

Gate == INSTANCE ExecutionGate WITH Waiter <- Agent

Stages == {"new", "initialising", "creating", "choosing", "chosen",
           "acquiring", "running", "ending", "over"}

TypeOK ==
  /\ Gate!TypeOK
  /\ hooks \in BOOLEAN
  /\ stage \in [Agent -> Stages]
  /\ member \in [Agent -> {"pending", "asked", "skipped"}]
  /\ selection \in [Batches -> {"open", "sealed", "asking", "answered", "failed"}]
  /\ answer \in [Batches -> SUBSET Agent]
  /\ effort \in [Agent -> {"inherited", "selected"}]
  /\ models \in {"unset", "starting", "up"}

Init ==
  /\ Gate!Init
  /\ hooks \in BOOLEAN
  /\ stage = [a \in Agent |-> "new"]
  /\ member = [a \in Agent |-> "pending"]
  /\ selection = [b \in Batches |-> "open"]
  /\ answer = [b \in Batches |-> {}]
  /\ effort = [a \in Agent |-> "inherited"]
  /\ models = "unset"

BatchOf(a) == CHOOSE b \in Batches : a \in b
Goto(a, s) == stage' = [stage EXCEPT ![a] = s]

\* Mutant: the last submission of a member wins.
SubmitLast(a, what) == member' = [member EXCEPT ![a] = what]

\* submit(): the first submission of a member wins, whoever makes it.
Submit(a, what) ==
  member' = [member EXCEPT ![a] = IF @ = "pending" THEN what ELSE @]

----------------------------------------------------------------------------
(***************************************************************************)
(* The start of a call.                                                    *)
(***************************************************************************)

\* prepareAgent finds a journalled result, or fails before the call is
\* admitted; no session is made.
StartWithoutRun(a) ==
  /\ stage[a] = "new"
  /\ Goto(a, "ending")
  /\ UNCHANGED <<gateVars, batchVars, hooks, effort, models>>

\* A call admitted with a hooked runner joins the shared initialisation of the
\* model runtime, which the first caller starts.
StartHooked(a) ==
  /\ stage[a] = "new"
  /\ hooks /\ ~closed
  /\ Goto(a, "initialising")
  /\ models' = IF models = "unset" THEN "starting" ELSE models
  /\ UNCHANGED <<gateVars, batchVars, hooks, effort>>

\* Mutant: a runner without hooks never answers its batch.
StartUnhookedSilently(a) ==
  /\ stage[a] = "new"
  /\ ~hooks /\ ~closed
  /\ Gate!RequestOpen(a)
  /\ Goto(a, "acquiring")
  /\ UNCHANGED <<batchVars, hooks, effort, models>>

\* Without hooks the call skips its batch and queues for its permit at once.
StartUnhooked(a) ==
  /\ stage[a] = "new"
  /\ ~hooks /\ ~closed
  /\ Submit(a, "skipped")
  /\ Gate!RequestOpen(a)
  /\ Goto(a, "acquiring")
  /\ UNCHANGED <<selection, answer, hooks, effort, models>>

----------------------------------------------------------------------------
(***************************************************************************)
(* The model runtime shared by the sessions of a runner.                   *)
(***************************************************************************)
ModelsUp ==
  /\ models = "starting"
  /\ models' = "up"
  /\ UNCHANGED <<gateVars, batchVars, hooks, stage, effort>>

\* The initialisation fails: those who joined it fail, and the next call
\* starts another.
ModelsFail ==
  /\ models = "starting"
  /\ models' = "unset"
  /\ stage' = [a \in Agent |-> IF stage[a] = "initialising" THEN "ending" ELSE stage[a]]
  /\ UNCHANGED <<gateVars, batchVars, hooks, effort>>

\* A waiter leaves the shared initialisation: with the runtime, or because the
\* run was aborted, which cancels the waiting and not the initialisation.
LeaveModels(a) ==
  /\ stage[a] = "initialising"
  /\ models = "up" \/ closed
  /\ Goto(a, IF closed THEN "ending" ELSE "creating")
  /\ UNCHANGED <<gateVars, batchVars, hooks, effort, models>>

----------------------------------------------------------------------------
(***************************************************************************)
(* The session and its effort.                                             *)
(***************************************************************************)

\* createSession fails, or the run was aborted while it was pending.
CreateFails(a) ==
  /\ stage[a] = "creating"
  /\ Goto(a, "ending")
  /\ UNCHANGED <<gateVars, batchVars, hooks, effort, models>>

\* A session with a single level skips and does not wait for the others.
SingleLevel(a) ==
  /\ stage[a] = "creating"
  /\ ~closed
  /\ Submit(a, "skipped")
  /\ Goto(a, "chosen")
  /\ UNCHANGED <<gateVars, selection, answer, hooks, effort, models>>

\* A session with a choice submits its capabilities and joins the selection.
AskEffort(a) ==
  /\ stage[a] = "creating"
  /\ ~closed
  /\ Submit(a, "asked")
  /\ Goto(a, "choosing")
  /\ UNCHANGED <<gateVars, selection, answer, hooks, effort, models>>

\* Every member has answered: membership is fixed, the abort listener goes.
Seal(b) ==
  /\ selection[b] = "open"
  /\ \A a \in b : member[a] # "pending"
  /\ selection' = [selection EXCEPT ![b] = "sealed"]
  /\ UNCHANGED <<gateVars, hooks, stage, member, answer, effort, models>>

\* After the microtask of the seal boundary the selector is asked, once, for
\* all members that submitted; nobody is asked for an empty or aborted batch.
AskSelector(b) ==
  /\ selection[b] = "sealed"
  /\ selection' = [selection EXCEPT
       ![b] = IF closed THEN "failed"
              ELSE IF \A a \in b : member[a] = "skipped" THEN "answered"
              ELSE "asking"]
  /\ UNCHANGED <<gateVars, hooks, stage, member, answer, effort, models>>

\* The selector answers for some of those that asked.  An error, a timeout or
\* a malformed answer is an answer for nobody; an abort fails the selection.
Answer(b) ==
  /\ selection[b] = "asking"
  /\ IF closed
     THEN /\ selection' = [selection EXCEPT ![b] = "failed"]
          /\ UNCHANGED answer
     ELSE /\ selection' = [selection EXCEPT ![b] = "answered"]
          /\ \E chosen \in SUBSET {a \in b : member[a] = "asked"} :
               answer' = [answer EXCEPT ![b] = chosen]
  /\ UNCHANGED <<gateVars, hooks, stage, member, effort, models>>

\* The call learns its effort; after an abort it ends instead.
Joined(a) ==
  LET b == BatchOf(a)
      failed == selection[b] = "failed" \/ closed
  IN  /\ stage[a] = "choosing"
      /\ selection[b] \in {"answered", "failed"}
      /\ effort' = [effort EXCEPT ![a] = IF ~failed /\ a \in answer[b] THEN "selected" ELSE @]
      /\ Goto(a, IF failed THEN "ending" ELSE "chosen")
      /\ UNCHANGED <<gateVars, batchVars, hooks, models>>

----------------------------------------------------------------------------
(***************************************************************************)
(* The permit.                                                             *)
(***************************************************************************)

\* acquireExecution(): refused at once when the run was aborted.
Acquire(a) ==
  /\ stage[a] = "chosen"
  /\ IF closed
     THEN Goto(a, "ending") /\ UNCHANGED gateVars
     ELSE Goto(a, "acquiring") /\ Gate!RequestOpen(a)
  /\ UNCHANGED <<batchVars, hooks, effort, models>>

\* The deferred of the call's request is settled, and the call looks again.
Acquired(a) ==
  /\ stage[a] = "acquiring"
  /\ Gate!Resume(a)
  /\ Goto(a, IF fiber'[a] = "using" THEN "running" ELSE "ending")
  /\ UNCHANGED <<batchVars, hooks, effort, models>>

\* The session's work is over, well or not.
WorkEnds(a) ==
  /\ stage[a] = "running"
  /\ Goto(a, "ending")
  /\ UNCHANGED <<gateVars, batchVars, hooks, effort, models>>

\* Mutant: the finalizer of the call does not answer the batch.
EndSilently(a) ==
  /\ stage[a] = "ending"
  /\ Gate!CloseScope(a)
  /\ Goto(a, "over")
  /\ UNCHANGED <<batchVars, hooks, effort, models>>

\* Whatever happened, the call's scope gives back the permit and its batch
\* gets an answer.
End(a) ==
  /\ stage[a] = "ending"
  /\ Gate!CloseScope(a)
  /\ Submit(a, "skipped")
  /\ Goto(a, "over")
  /\ UNCHANGED <<selection, answer, hooks, effort, models>>

\* childController.abort(): the gate refuses those who queue, and every batch
\* that still listens submits for its members.
Abort ==
  /\ Gate!Close
  /\ member' = [a \in Agent |->
       IF member[a] = "pending" /\ selection[BatchOf(a)] = "open"
       THEN "skipped" ELSE member[a]]
  /\ UNCHANGED <<selection, answer, hooks, stage, effort, models>>

\* Every call has ended and every selection has been made.
Settled ==
  /\ \A a \in Agent : stage[a] = "over"
  /\ \A b \in Batches : selection[b] \in {"answered", "failed"}
  /\ UNCHANGED vars

CallStep(a) ==
  \/ StartWithoutRun(a) \/ StartHooked(a) \/ StartUnhooked(a)
  \/ LeaveModels(a)
  \/ CreateFails(a) \/ SingleLevel(a) \/ AskEffort(a)
  \/ Joined(a) \/ Acquire(a) \/ Acquired(a) \/ WorkEnds(a) \/ End(a)

BatchStep(b) == Seal(b) \/ AskSelector(b) \/ Answer(b)

Next ==
  \/ \E a \in Agent : CallStep(a)
  \/ \E b \in Batches : BatchStep(b)
  \/ ModelsUp \/ ModelsFail
  \/ Abort
  \/ Settled

Spec == Init /\ [][Next]_vars

(***************************************************************************)
(* The Effect runtime runs every fiber that can go on: a call that starts, *)
(* whose selection or permit is settled, or whose work is over.  The       *)
(* selector answers: its request has a timeout and no retries.             *)
(***************************************************************************)
Fairness ==
  /\ \A a \in Agent :
       /\ WF_vars(StartWithoutRun(a) \/ StartHooked(a) \/ StartUnhooked(a))
       /\ WF_vars(LeaveModels(a)) /\ WF_vars(Joined(a))
       /\ WF_vars(Acquire(a)) /\ WF_vars(Acquired(a)) /\ WF_vars(End(a))
  /\ \A b \in Batches : WF_vars(BatchStep(b))

LiveSpec == Spec /\ Fairness

(***************************************************************************)
(* What the code does not bound by a timeout: the creation of the model    *)
(* runtime and of a session, and a session's prompt.                       *)
(***************************************************************************)
SessionsProgress ==
  /\ WF_vars(ModelsUp \/ ModelsFail)
  /\ \A a \in Agent : /\ WF_vars(CreateFails(a) \/ SingleLevel(a) \/ AskEffort(a))
                      /\ WF_vars(WorkEnds(a))

----------------------------------------------------------------------------
(***************************************************************************)
(* Properties                                                              *)
(***************************************************************************)

\* No call queues for a permit or holds one while its batch still waits for
\* it: with more members than permits the holders would wait for members that
\* wait for a permit (the contract above createJevBatch).
AnswersBeforeAcquiring ==
  \A a \in Agent : state[a] \in {"queued", "held"} => member[a] # "pending"

\* A selected effort is applied only to a session that submitted its own
\* capabilities, and only from the batch's one answer: neither a skip nor a
\* late submission changes what the selector was asked.
EffortsAsAsked ==
  \A a \in Agent : effort[a] = "selected" =>
    member[a] = "asked" /\ a \in answer[BatchOf(a)]

\* Nobody waits for an initialisation of the model runtime that is not under
\* way: a failure reaches all who joined it and the next call starts afresh.
WaitersHaveModels ==
  \A a \in Agent : stage[a] = "initialising" => models # "unset"

\* When every call is over every permit is back, whichever way the calls ended.
PermitsReturned ==
  (\A a \in Agent : stage[a] = "over") => active = 0

\* So no call waits for what nobody will bring about.
NobodyWaitsInVain ==
  TypeOK /\ AnswersBeforeAcquiring /\ WaitersHaveModels /\ PermitsReturned

\* After an abort nothing new is begun on the run's behalf: the selector is
\* not asked, no effort is applied and no session starts to run.
QuietAfterAbort ==
  [][closed => /\ \A b \in Batches : selection'[b] = "asking" => selection[b] = "asking"
               /\ effort' = effort
               /\ \A a \in Agent : stage'[a] = "running" => stage[a] = "running"]_vars

\* Every call ends, hooked or not, replayed, refused, failed or aborted, with
\* fewer permits than members: as long as sessions are created and finish, no
\* call waits forever for its batch or its permit.
EveryCallEnds ==
  SessionsProgress => \A a \in Agent : <>(stage[a] = "over")
=============================================================================
