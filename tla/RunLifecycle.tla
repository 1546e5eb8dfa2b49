---------------------------- MODULE RunLifecycle ----------------------------
(***************************************************************************)
(* One execution of runWorkflow() of src/workflow/runtime.ts: preparation, *)
(* the script's body, the agent calls that run beside it in fibers of      *)
(* their own, the two abort controllers, the bounded drain and the choice  *)
(* of the error that the caller sees.  A runner may ignore its abort       *)
(* signal, so that a fiber outlives the run.                               *)
(*                                                                         *)
(* How the body comes to its end is the subject of ScriptProtocol; here it *)
(* ends in any way that module allows.                                     *)
(***************************************************************************)
EXTENDS FiniteSets

CONSTANT Call  \* the agent() calls of the script

None == "none"
ScriptPolicy == "limit"  \* a policy error that the worker made itself
PolicyError == Call \cup {ScriptPolicy}

\* What an instance of this module assumes of its constant.
LifecycleAssumption ==
  /\ IsFiniteSet(Call)
  /\ Call \cap {"none", "limit", "ok", "thrown", "abort", "cleanup"} = {}

VARIABLES
  signal,    \* options.signal is aborted
  children,  \* childController is aborted
  script,    \* scriptController is aborted
  deadline,  \* cleanupDeadline: "unset", "set", or in the past
  policy,    \* policyError: the first that was recorded
  fatal,     \* the executor drains: its worker broke a rule
  stage,     \* of the run: "preparing", "body", "recovering", "settled"
  failure,   \* what the recovery is about
  fiber,     \* of a call: "idle", "queued" for a permit, "running", "over"
  told,      \* the calls that answered the script with a policy error
  committed, \* the calls whose result was recorded and published
  attached,  \* the outcome carries a cleanupError
  outcome    \* what the promise of runWorkflow() settles with

controllers == <<signal, children, script, deadline>>
calls == <<fiber, told, committed>>
verdict == <<attached, outcome>>
body == <<fatal, stage, failure>>
vars == <<controllers, policy, body, calls, verdict>>

TypeOK ==
  /\ {signal, children, script, fatal, attached} \subseteq BOOLEAN
  /\ deadline \in {"unset", "set", "past"}
  /\ policy \in PolicyError \cup {None}
  /\ stage \in {"preparing", "body", "recovering", "settled"}
  /\ failure \in PolicyError \cup {None, "thrown", "abort"}
  /\ fiber \in [Call -> {"idle", "queued", "running", "over"}]
  /\ told \subseteq Call /\ committed \subseteq Call
  /\ outcome \in PolicyError \cup {None, "ok", "thrown", "abort", "cleanup"}

Init ==
  /\ signal = FALSE /\ children = FALSE /\ script = FALSE
  /\ deadline = "unset"
  /\ policy = None
  /\ fatal = FALSE
  /\ stage = "preparing"
  /\ failure = None
  /\ fiber = [c \in Call |-> "idle"]
  /\ told = {} /\ committed = {}
  /\ attached = FALSE /\ outcome = None

\* The set `pending': fibers that were forked and have not exited.
Pending == {c \in Call : fiber[c] \in {"queued", "running"}}

----------------------------------------------------------------------------
(***************************************************************************)
(* Aborting.                                                               *)
(***************************************************************************)
\* Mutant: only the drain itself, which never starts here, sets the deadline.
LeaveDeadline == UNCHANGED deadline

SetDeadline == deadline' = IF deadline = "unset" THEN "set" ELSE deadline

AbortChildren == children' = TRUE /\ SetDeadline

\* abort()
Abort == AbortChildren /\ script' = TRUE

\* recordPolicyError()
RecordPolicyError(e) ==
  /\ policy' = IF policy = None THEN e ELSE policy
  /\ AbortChildren

\* The caller aborts.  The listener is there from the end of the preparation to
\* the settlement; before it the flag is read.
SignalAborts ==
  /\ ~ signal /\ stage # "settled"
  /\ signal' = TRUE
  /\ IF stage = "preparing" THEN UNCHANGED <<children, script, deadline>> ELSE Abort
  /\ UNCHANGED <<policy, body, calls, verdict>>

DeadlinePasses ==
  /\ deadline = "set"
  /\ deadline' = "past"
  /\ UNCHANGED <<signal, children, script, policy, body, calls, verdict>>

----------------------------------------------------------------------------
(***************************************************************************)
(* The calls: agentBatch() and runAgent().                                 *)
(***************************************************************************)
CallUnchanged == UNCHANGED <<signal, script, body, verdict>>

\* The body's executor forks a fiber for the call, even after an abort, as long
\* as it takes messages from its queue.
Fork(c) ==
  /\ stage = "body" /\ fiber[c] = "idle"
  /\ fiber' = [fiber EXCEPT ![c] = "queued"]
  /\ UNCHANGED <<children, deadline, policy, told, committed>> /\ CallUnchanged

\* checkOpen() after the permit
Start(c) ==
  /\ fiber[c] = "queued" /\ ~ children
  /\ fiber' = [fiber EXCEPT ![c] = "running"]
  /\ UNCHANGED <<children, deadline, policy, told, committed>> /\ CallUnchanged

\* The runner returns: throwIfAborted() and, in the same step, the record.
Commit(c) ==
  /\ fiber[c] = "running" /\ ~ children
  /\ fiber' = [fiber EXCEPT ![c] = "over"]
  /\ committed' = committed \cup {c}
  /\ UNCHANGED <<children, deadline, policy, told>> /\ CallUnchanged

\* The call is refused, fails or is aborted; or a runner that ignored the abort
\* comes back and its result is dropped.
Fail(c) ==
  /\ c \in Pending
  /\ fiber' = [fiber EXCEPT ![c] = "over"]
  /\ UNCHANGED <<children, deadline, policy, told, committed>> /\ CallUnchanged

\* The call fails with a policy error, and tells the script; or its worktree
\* cannot be removed either, and that error takes its place in the answer.
FailPolicy(c) ==
  /\ c \in Pending
  /\ fiber' = [fiber EXCEPT ![c] = "over"]
  /\ RecordPolicyError(c)
  /\ told' \in {told, told \cup {c}}
  /\ UNCHANGED committed /\ CallUnchanged

----------------------------------------------------------------------------
(***************************************************************************)
(* The run.                                                                *)
(***************************************************************************)
IsPolicy(e) == e \in PolicyError

Settle(o, withCleanup) ==
  /\ stage' = "settled" /\ outcome' = o /\ attached' = withCleanup
  /\ UNCHANGED <<signal, children, script, deadline, policy, fatal, failure, calls>>

\* recoverWorkflowFailure(), up to its drain
Recover(e) ==
  /\ Abort
  /\ stage' = "recovering" /\ failure' = e
  /\ UNCHANGED <<signal, policy, fatal, calls, verdict>>

\* prepareWorkflow() and initializeWorkflowRuntime() fail, with nothing to drain.
PrepareFails ==
  /\ stage = "preparing"
  /\ \/ signal /\ Settle("abort", FALSE)
     \/ Settle("thrown", FALSE)
     \/ Settle(ScriptPolicy, FALSE)

\* The listener is installed; a signal that came during the preparation aborts
\* the runtime, and runBody() refuses to start.
StartBody ==
  /\ stage = "preparing"
  /\ IF signal
     THEN Recover("abort")
     ELSE /\ stage' = "body"
          /\ UNCHANGED <<controllers, policy, fatal, failure, calls, verdict>>

\* The worker reported a value.  By then every call was answered (SuccessIsQuiet
\* of ScriptProtocol), none of them with a policy error, so that drain() has
\* nothing to wait for; the abort may have come when the report was in the
\* queue.  A policy error that no answer carried is found by checkPolicy, and
\* the value may be beyond the output limit.
BodySucceeds ==
  /\ stage = "body"
  /\ Pending = {} /\ told = {} /\ ~ fatal
  /\ IF policy # None THEN Recover(policy)
     ELSE Settle("ok", FALSE) \/ Recover(ScriptPolicy)

\* The body fails: the script threw, its worker stalled or crashed; an abort; the
\* answer of a call that the executor drained, for as long as its own deadline;
\* or a policy error of the worker's, which nothing but an observer replaces.
BodyFails ==
  /\ stage = "body"
  /\ \/ Recover("thrown")
     \/ children /\ ~ fatal /\ Recover("abort")
     \/ ~ fatal /\ \E c \in told : Recover(c)
     \/ Recover(ScriptPolicy)

\* The executor is told of a policy error by the worker and stops the children.
BodyFatal ==
  /\ stage = "body" /\ ~ fatal
  /\ fatal' = TRUE
  /\ AbortChildren
  /\ UNCHANGED <<signal, script, policy, stage, failure, calls, verdict>>

\* Mutant: the recovery trusts the failure it was given.
RecoverDrainedUnchecked ==
  /\ stage = "recovering" /\ Pending = {}
  /\ Settle(IF signal /\ ~ IsPolicy(failure) THEN "abort" ELSE failure, FALSE)

\* The drain succeeds: checkPolicy, then the abort, then the failure itself.
RecoverDrained ==
  /\ stage = "recovering" /\ Pending = {}
  /\ LET aborted == signal /\ ~ IsPolicy(failure)
     IN  Settle(IF policy # None THEN policy ELSE IF aborted THEN "abort" ELSE failure, FALSE)

\* The drain fails: a policy error keeps its place and carries the cleanup's.
RecoverExpired ==
  /\ stage = "recovering" /\ Pending # {} /\ deadline = "past"
  /\ LET error == IF policy # None THEN policy ELSE failure
     IN  IF IsPolicy(error) THEN Settle(error, TRUE) ELSE Settle("cleanup", FALSE)

Quiet == stage = "settled" /\ Pending = {} /\ UNCHANGED vars

CallStep(c) == Fork(c) \/ Start(c) \/ Commit(c) \/ Fail(c) \/ FailPolicy(c)

Next ==
  \/ SignalAborts \/ DeadlinePasses
  \/ \E c \in Call : CallStep(c)
  \/ PrepareFails \/ StartBody \/ BodySucceeds \/ BodyFails \/ BodyFatal
  \/ RecoverDrained \/ RecoverExpired
  \/ Quiet

Spec == Init /\ [][Next]_vars

(***************************************************************************)
(* Fairness: time passes, the run's own fiber is scheduled, and the body   *)
(* of an aborted script, or of one that a policy error stopped, ends       *)
(* (FailureEndsExecution of ScriptProtocol).  Of agents and scripts that   *)
(* nothing stopped, nothing is assumed.                                    *)
(***************************************************************************)
Fairness ==
  /\ WF_vars(DeadlinePasses)
  /\ WF_vars(PrepareFails \/ StartBody)
  /\ WF_vars((script \/ told # {}) /\ (BodySucceeds \/ BodyFails))
  /\ WF_vars(RecoverDrained \/ RecoverExpired)

LiveSpec == Spec /\ Fairness

----------------------------------------------------------------------------
(***************************************************************************)
(* Properties                                                              *)
(***************************************************************************)
Settles == stage # "settled" /\ stage' = "settled"

\* Whatever the script made of it, the first policy error that the run recorded
\* is its outcome: no success, abort, later failure or cleanup error hides it.
FirstPolicyErrorWins == policy # None => outcome' = policy

\* A policy failure that ended the body is never reported as something else than
\* a policy failure, even when the caller aborts while the run recovers.
PolicyStaysPolicy == IsPolicy(failure) => outcome' \in PolicyError

\* The caller is told of an abort only when it asked for one, although agents
\* are aborted by policy errors too and their scripts see that.
AbortWasAsked == outcome' = "abort" => signal

\* A run that leaves agents behind says so, in its error or beside it, and one
\* that says so has left agents behind.
SurvivorsAreReported == Pending # {} <=> (outcome' = "cleanup" \/ attached')

\* No agent starts and no result is recorded once the caller has its answer, for
\* all that fibers of the run may still exist.
NothingBehindTheAnswer ==
  /\ committed' = committed
  /\ \A c \in Call : fiber'[c] = "running" => fiber[c] = "running"

\* The answer that the caller gets is true in each of these respects, and stays so.
AnswerIsTrue ==
  [][/\ Settles => /\ FirstPolicyErrorWins /\ PolicyStaysPolicy
                   /\ AbortWasAsked /\ SurvivorsAreReported
     /\ stage = "settled" => NothingBehindTheAnswer]_vars

\* An abort, and a policy error that the script was told of, end the run, whether
\* its agents come to an end or not.
AbortSettles == (signal \/ told # {}) ~> stage = "settled"
=============================================================================
