---------------------------- MODULE AgentSession ----------------------------
(***************************************************************************)
(* One agent call in src/workflow/agent-runner.ts: it creates an SDK       *)
(* session, listens for the abort of the run, chooses an effort, takes the *)
(* permit, subscribes to the session's events, prompts it, and takes all   *)
(* of that down again.  How calls wait for each other (model runtime,      *)
(* batch, permit) is the subject of AgentScheduling; here each wait is a   *)
(* step that may fail.                                                     *)
(*                                                                         *)
(* Synchronous code runs callbacks of its callers (observers, subscribe,   *)
(* the selector), any of which may abort the run: the steps between two of *)
(* them are separate actions, and Abort may come between any two.  The     *)
(* SDK's own operations (prompt, abort, events) settle when they like.     *)
(***************************************************************************)
EXTENDS Naturals

CONSTANT MaxEvents  \* bound on the events a session emits

\* What an instance of this module assumes of its constant.
SessionAssumption == MaxEvents \in Nat

VARIABLES
  pc,          \* where the call's fiber is
  aborted,     \* call.signal.aborted
  which,       \* the session in use: 1, or 2 for the compatibility replacement
  session,     \* "none", "creating", "live", "disposed"
  listener,    \* the abort listener: "none", "on", "off"
  aborting,    \* the fiber of session.abort(): "no", "running", "done"
  prompt,      \* session.prompt(): "idle", "preflight", "streaming", "ok", "failed"
  subscribed,  \* the event subscription: "none", "open", "closed"
  emitted,     \* how many usage events the session has produced
  body,        \* how the body of the call ended: "none", "value", "aborted", "sdk"
  reported,    \* the events counted in the run_error telemetry; none yet if > MaxEvents
  cleanup      \* firstFailure of withCleanup: "none" or the finalizer that failed

vars == <<pc, aborted, which, session, listener, aborting, prompt, subscribed,
          emitted, body, reported, cleanup>>
sdkVars == <<aborted, aborting, prompt, emitted>>

NotReported == MaxEvents + 1

TypeOK ==
  /\ pc \in {"start", "creating", "created", "replacing", "listening", "preAborted",
             "selecting", "acquiring", "subscribing", "prompting", "prompted", "draining",
             "removing", "joining", "unsubscribing", "disposing", "over"}
  /\ aborted \in BOOLEAN
  /\ which \in 1..2
  /\ session \in [1..2 -> {"none", "creating", "live", "disposed"}]
  /\ listener \in {"none", "on", "off"}
  /\ aborting \in {"no", "running", "done"}
  /\ prompt \in {"idle", "preflight", "streaming", "ok", "failed"}
  /\ subscribed \in {"none", "open", "closed"}
  /\ emitted \in 0..MaxEvents
  /\ body \in {"none", "value", "aborted", "sdk"}
  /\ reported \in 0..NotReported
  /\ cleanup \in {"none", "listener", "unsubscribe", "dispose"}

Init ==
  /\ pc = "start"
  /\ aborted \in BOOLEAN
  /\ which = 1
  /\ session = [s \in 1..2 |-> "none"]
  /\ listener = "none"
  /\ aborting = "no"
  /\ prompt = "idle"
  /\ subscribed = "none"
  /\ emitted = 0
  /\ body = "none"
  /\ reported = NotReported
  /\ cleanup = "none"

----------------------------------------------------------------------------
\* reportFailure(): a failing body tells the observers, with the usage so far.
Reports(why, next) ==
  /\ body' = why
  /\ reported' = emitted
  /\ pc' = next

\* A failure outside reportFailure().
FailsUnreported(why, next) ==
  /\ body' = why
  /\ pc' = next
  /\ UNCHANGED reported

GoesOn(next) ==
  /\ pc' = next
  /\ UNCHANGED <<body, reported>>

\* A step that awaits the SDK or a hook and looks at the signal afterwards.
Checked(next, closing) ==
  \/ Reports("sdk", closing)
  \/ aborted /\ Reports("aborted", closing)
  \/ ~aborted /\ GoesOn(next)

----------------------------------------------------------------------------
(***************************************************************************)
(* The session.                                                            *)
(***************************************************************************)
\* checkAborted and the preparation of tools and model selection.
Enter ==
  /\ pc = "start"
  /\ \/ /\ FailsUnreported(IF aborted THEN "aborted" ELSE "sdk", "over")
        /\ UNCHANGED session
     \/ /\ ~aborted
        /\ GoesOn("creating")
        /\ session' = [session EXCEPT ![1] = "creating"]
  /\ UNCHANGED <<sdkVars, which, listener, subscribed, cleanup>>

Create ==
  /\ pc = "creating"
  /\ \/ /\ session' = [session EXCEPT ![which] = "live"]
        /\ GoesOn("created")
     \/ /\ session' = [session EXCEPT ![which] = "none"]
        /\ Reports("sdk", "over")
  /\ UNCHANGED <<sdkVars, which, listener, subscribed, cleanup>>

\* The session is owned before anything of it is read.  A max-effort session
\* that turns out clamped is provisional; reading the model and the effort of
\* a session that stays may fail without a report.
CheckFallback ==
  /\ pc = "created"
  /\ \/ Checked("listening", "disposing")
     \/ ~aborted /\ FailsUnreported("sdk", "disposing")
     \/ ~aborted /\ which = 1 /\ GoesOn("replacing")
  /\ UNCHANGED <<sdkVars, which, session, listener, subscribed, cleanup>>

\* The provisional session is disposed of, whether or not that fails, and then
\* its replacement is created.
Replace ==
  /\ pc = "replacing"
  /\ session' = [session EXCEPT ![1] = "disposed", ![2] = "creating"]
  /\ which' = 2
  /\ GoesOn("creating")
  /\ UNCHANGED <<sdkVars, listener, subscribed, cleanup>>

----------------------------------------------------------------------------
(***************************************************************************)
(* Cancellation, effort, permit, subscription, prompt.                     *)
(***************************************************************************)
\* listenForCancellation(): register, and abort at once what is aborted
\* already.  A registration that throws may have happened all the same.
Listen ==
  /\ pc = "listening"
  /\ \/ /\ Reports("sdk", "removing")
        /\ listener' \in {"none", "on"}
        /\ UNCHANGED aborting
     \/ /\ listener' = "on"
        /\ IF aborted
           THEN aborting' = "running" /\ GoesOn("preAborted")
           ELSE UNCHANGED aborting /\ GoesOn("selecting")
  /\ UNCHANGED <<aborted, prompt, emitted, which, session, subscribed, cleanup>>

PreAborted ==
  /\ pc = "preAborted"
  /\ aborting = "done"
  /\ Reports("aborted", "removing")
  /\ UNCHANGED <<sdkVars, which, session, listener, subscribed, cleanup>>

SelectEffort ==
  /\ pc = "selecting"
  /\ Checked("acquiring", "removing")
  /\ UNCHANGED <<sdkVars, which, session, listener, subscribed, cleanup>>

AcquireExecution ==
  /\ pc = "acquiring"
  /\ Checked("subscribing", "removing")
  /\ UNCHANGED <<sdkVars, which, session, listener, subscribed, cleanup>>

\* Nobody may be interested in the events.
Subscribe ==
  /\ pc = "subscribing"
  /\ \/ subscribed' \in {"none", "open"} /\ GoesOn("prompting")
     \/ Reports("sdk", "removing") /\ UNCHANGED subscribed
  /\ UNCHANGED <<sdkVars, which, session, listener, cleanup>>

Prompt ==
  /\ pc = "prompting"
  /\ IF aborted
     THEN Reports("aborted", "removing") /\ UNCHANGED prompt
     ELSE GoesOn("prompted") /\ prompt' = "preflight"
  /\ UNCHANGED <<aborted, aborting, emitted, which, session, listener, subscribed, cleanup>>

\* The prompt has settled.  A success of an aborted run waits for the abort to
\* end; otherwise the value is read, which fails without structured output.
Prompted ==
  /\ pc = "prompted"
  /\ \/ prompt = "failed" /\ Reports("sdk", "removing")
     \/ prompt = "ok" /\ aborted /\ GoesOn("draining")
     \/ prompt = "ok" /\ ~aborted /\ (Reports("sdk", "removing") \/ FailsUnreported("value", "removing"))
  /\ UNCHANGED <<sdkVars, which, session, listener, subscribed, cleanup>>

Drained ==
  /\ pc = "draining"
  /\ aborting = "done"
  /\ Reports("aborted", "removing")
  /\ UNCHANGED <<sdkVars, which, session, listener, subscribed, cleanup>>

----------------------------------------------------------------------------
(***************************************************************************)
(* The finalizers, innermost scope first.  Each of them may fail; none is  *)
(* skipped, and the first failure is kept.                                 *)
(***************************************************************************)
Notes(what) == cleanup' \in {cleanup, IF cleanup = "none" THEN what ELSE cleanup}

RemoveListener ==
  /\ pc = "removing"
  /\ listener' = "off"
  /\ Notes("listener")
  /\ GoesOn("joining")
  /\ UNCHANGED <<sdkVars, which, session, subscribed>>

\* Mutants: the abort is not joined; an abort that never began is awaited.
JoinAbortNot ==
  /\ pc = "joining"
  /\ GoesOn("unsubscribing")
  /\ UNCHANGED <<sdkVars, which, session, listener, subscribed, cleanup>>

JoinAbortAlways ==
  /\ pc = "joining"
  /\ IF aborting = "done" THEN GoesOn("unsubscribing") ELSE GoesOn("joining")
  /\ UNCHANGED <<sdkVars, which, session, listener, subscribed, cleanup>>

\* drain: an abort() that was begun is joined.
JoinAbort ==
  /\ pc = "joining"
  /\ aborting # "running"
  /\ GoesOn("unsubscribing")
  /\ UNCHANGED <<sdkVars, which, session, listener, subscribed, cleanup>>

Unsubscribe ==
  /\ pc = "unsubscribing"
  /\ IF subscribed = "open"
     THEN subscribed' = "closed" /\ Notes("unsubscribe")
     ELSE UNCHANGED <<subscribed, cleanup>>
  /\ GoesOn("disposing")
  /\ UNCHANGED <<sdkVars, which, session, listener>>

Dispose ==
  /\ pc = "disposing"
  /\ session' = [session EXCEPT ![which] = "disposed"]
  /\ Notes("dispose")
  /\ GoesOn("over")
  /\ UNCHANGED <<sdkVars, which, listener, subscribed>>

\* withCleanup(): a failing body comes first, then the first failing finalizer.
Outcome == IF body = "value" /\ cleanup # "none" THEN cleanup ELSE body

----------------------------------------------------------------------------
(***************************************************************************)
(* The environment: the run's abort and the SDK.                           *)
(***************************************************************************)
Abort ==
  /\ ~aborted
  /\ aborted' = TRUE
  /\ aborting' = IF listener = "on" THEN "running" ELSE aborting
  /\ UNCHANGED <<prompt, emitted, pc, which, session, listener, subscribed, body,
                 reported, cleanup>>

\* session.abort() settles; whether it fails does not matter.
AbortSettles ==
  /\ aborting = "running"
  /\ aborting' = "done"
  /\ UNCHANGED <<aborted, prompt, emitted, pc, which, session, listener, subscribed, body,
                 reported, cleanup>>

\* Mutant: the preflight callback does not look at the signal.
PreflightUnchecked ==
  /\ prompt = "preflight"
  /\ prompt' \in {"streaming", "failed"}
  /\ UNCHANGED <<aborted, aborting, emitted, pc, which, session, listener, subscribed, body,
                 reported, cleanup>>

\* The SDK is about to stream: preflightResult throws for an aborted run.
Preflight ==
  /\ prompt = "preflight"
  /\ prompt' \in (IF aborted THEN {"failed"} ELSE {"streaming", "failed"})
  /\ UNCHANGED <<aborted, aborting, emitted, pc, which, session, listener, subscribed, body,
                 reported, cleanup>>

PromptSettles ==
  /\ prompt = "streaming"
  /\ prompt' \in {"ok", "failed"}
  /\ UNCHANGED <<aborted, aborting, emitted, pc, which, session, listener, subscribed, body,
                 reported, cleanup>>

\* The session produces usage while it streams, and while it is torn down.
Emit ==
  /\ prompt = "streaming" \/ aborting = "running"
  /\ emitted < MaxEvents
  /\ emitted' = emitted + 1
  /\ UNCHANGED <<aborted, aborting, prompt, pc, which, session, listener, subscribed, body,
                 reported, cleanup>>

Over == pc = "over" /\ UNCHANGED vars

Step ==
  \/ Enter \/ Create \/ CheckFallback \/ Replace
  \/ Listen \/ PreAborted \/ SelectEffort \/ AcquireExecution
  \/ Subscribe \/ Prompt \/ Prompted \/ Drained
  \/ RemoveListener \/ JoinAbort \/ Unsubscribe \/ Dispose

Next == Step \/ Abort \/ AbortSettles \/ Preflight \/ PromptSettles \/ Emit \/ Over

Spec == Init /\ [][Next]_vars

(***************************************************************************)
(* The fiber runs whenever it can.  Of the SDK it is assumed that abort()  *)
(* settles and that a prompt settles: nothing in the runner bounds either. *)
(***************************************************************************)
Fairness ==
  /\ WF_vars(Step)
  /\ WF_vars(AbortSettles) /\ WF_vars(Preflight) /\ WF_vars(PromptSettles)

LiveSpec == Spec /\ Fairness

----------------------------------------------------------------------------
(***************************************************************************)
(* Properties                                                              *)
(***************************************************************************)

\* Nothing of the session is still running when its events are no longer
\* observed, and no listener or subscription is left when it is disposed of:
\* cancellation joins both SDK operations before it closes the scopes.
QuietBeforeDisposal ==
  /\ subscribed = "closed" => aborting # "running" /\ prompt \in {"idle", "ok", "failed"}
  /\ session[which] = "disposed" => /\ listener # "on"
                                    /\ subscribed # "open"
                                    /\ aborting # "running"
                                    /\ prompt \in {"idle", "ok", "failed"}

\* At most one session is alive at a time, replacement included, and none is
\* left when the call is over.
SessionsDisposed ==
  /\ \E s \in 1..2 : session[s] \in {"none", "disposed"}
  /\ pc = "over" => \A s \in 1..2 : session[s] \in {"none", "disposed"}

\* The telemetry of a call cancelled after its prompt succeeded counts all that
\* the session used, including what it used while it was aborted.
CancelledUsageComplete ==
  pc = "over" /\ body = "aborted" /\ prompt = "ok" => reported = emitted

\* Whatever streams when the run is aborted has been told so.
AbortReachesPrompt == aborted /\ prompt = "streaming" => aborting # "no"

\* So a call leaves nothing behind, and accounts for all it did.
SessionSound ==
  /\ TypeOK
  /\ QuietBeforeDisposal
  /\ SessionsDisposed
  /\ CancelledUsageComplete
  /\ AbortReachesPrompt

\* An aborted call never begins to stream, not even from an asynchronous
\* preflight that was under way when the abort came.
NoStreamAfterAbort ==
  [][aborted /\ prompt' = "streaming" => prompt = "streaming"]_vars

\* An aborted call ends, wherever the abort met it.
AbortedCallEnds == aborted ~> (pc = "over")
=============================================================================
