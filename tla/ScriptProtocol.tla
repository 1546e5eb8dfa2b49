--------------------------- MODULE ScriptProtocol ---------------------------
(***************************************************************************)
(* The protocol between executeWorkflowScript() of script-executor.ts and  *)
(* the worker thread of script-worker.mjs that runs a workflow's script.   *)
(* The worker posts calls (agents, panels, releases of panels) and at the  *)
(* end its result; the host answers each call when its promise settles.    *)
(* Both directions are ordered, but the host's events (settled calls, the  *)
(* drain's deadline) overtake what is still in the worker's port.          *)
(*                                                                         *)
(* A policy failure is fatal on both sides: the worker remembers the first *)
(* (sticky) and starts nothing more, the host waits for the calls it has   *)
(* dispatched, and for no longer than the drain's deadline.                *)
(***************************************************************************)
EXTENDS Naturals, Sequences, FiniteSets

CONSTANTS
  Agent,    \* the agent() calls a script may make
  Panel,    \* the reservePanel calls of its parallel() calls
  Cleanup,  \* the releasePanel calls that end them
  panelOf,  \* of a release: the panel it ends
  Scripts   \* sets of calls: a script may make those of one set

Rpc == Agent \cup Panel \cup Cleanup
None == "none"

\* Errors: a call that failed with a policy error is named by the call.
WorkerMade == "limit"       \* makePolicyError() in the worker
OutOfMemory == "memory"     \* made by the host when the worker's heap is full
PolicyError == Rpc \cup {WorkerMade, OutOfMemory}
Verdict == {"running", "ok", "thrown", "crash", "exit", "abort", "stall", "observer"} \cup PolicyError

\* What an instance of this module assumes of its constants.  A parallel() call
\* makes its release with its panel: the finally block of parallelImpl().
ScriptAssumption ==
  /\ IsFiniteSet(Rpc)
  /\ Agent \cap Panel = {} /\ Agent \cap Cleanup = {} /\ Panel \cap Cleanup = {}
  /\ panelOf \in [Cleanup -> Panel]
  /\ Scripts \subseteq SUBSET Rpc
  /\ \A calls \in Scripts, c \in Cleanup : c \in calls <=> panelOf[c] \in calls
  /\ Rpc \cap {"none", "limit", "memory", "running", "ok", "thrown", "crash", "exit",
                "abort", "stall", "observer"} = {}

VARIABLES
  thread,    \* the worker: "alive", "hung" in script code, or "dead"
  waiter,    \* of a call, in the worker: "absent" when the script does not
             \* make it, "new", "waiting", "resolved", "rejected"
  sticky,    \* stickyFatalError
  finished,  \* the worker has posted its result
  logged,    \* the script has logged (bounded)
  outbox,    \* messages in the worker's port, oldest first
  inbox,     \* replies in the host's port, oldest first
  events,    \* the host's event queue
  reply,     \* of a call, at the host: "none", "running", or how it settled
  pending,   \* pendingRpcCount
  fatal,     \* fatalError
  reported,  \* workerReportedResult
  aborted,   \* the run's abort signal
  cancelled, \* the children were aborted
  deadline,  \* of the drain: "off", "armed", "fired"
  outcome    \* what executeWorkflowScript() settles with

worker == <<thread, waiter, sticky, finished, logged>>
drain == <<fatal, reported, cancelled, deadline>>
vars == <<worker, outbox, inbox, events, reply, pending, drain, aborted, outcome>>

Message(type, calls, error) == [type |-> type, calls |-> calls, error |-> error]
Fatal(e) == Message("fatal", {}, e)
Result(e) == Message("result", {}, e)
Exit == Message("exit", {}, None)
RpcSettled == Message("rpcSettled", {}, None)

AnyMessage == [type : {"rpc", "event", "fatal", "result", "error", "exit", "rpcSettled", "fatalDeadline"},
               calls : SUBSET Rpc,
               error : PolicyError \cup {None, "thrown", "crash"}]

TypeOK ==
  /\ thread \in {"alive", "hung", "dead"}
  /\ waiter \in [Rpc -> {"absent", "new", "waiting", "resolved", "rejected"}]
  /\ sticky \in PolicyError \cup {None}
  /\ outbox \in Seq(AnyMessage) /\ events \in Seq(AnyMessage)
  /\ inbox \in Seq(Rpc)
  /\ reply \in [Rpc -> {"none", "running", "ok", "error", "policy", "abort"}]
  /\ pending \in Nat
  /\ fatal \in PolicyError \cup {None}
  /\ deadline \in {"off", "armed", "fired"}
  /\ outcome \in Verdict
  /\ {finished, logged, reported, aborted, cancelled} \subseteq BOOLEAN

Init ==
  /\ thread = "alive"
  /\ \E calls \in Scripts : waiter = [c \in Rpc |-> IF c \in calls THEN "new" ELSE "absent"]
  /\ sticky = None
  /\ finished = FALSE
  /\ logged = FALSE
  /\ outbox = <<>> /\ inbox = <<>> /\ events = <<>>
  /\ reply = [c \in Rpc |-> "none"]
  /\ pending = 0
  /\ fatal = None
  /\ reported = FALSE
  /\ aborted = FALSE
  /\ cancelled = FALSE
  /\ deadline = "off"
  /\ outcome = "running"

Post(messages) == outbox' = outbox \o messages
HostUnchanged == UNCHANGED <<events, reply, pending, drain, aborted, outcome>>

----------------------------------------------------------------------------
(***************************************************************************)
(* The worker.  What the script does is free, but it runs under the rules  *)
(* of startOrchestration(), parallelImpl() and runRoot().                  *)
(***************************************************************************)
Working == thread = "alive" /\ outcome = "running"

\* rpc() and collectAgentBatch(): one call, or the agents of a fan-out sealed
\* into one message.  throwIfAborted() lets nothing start after a fatal error.
PostCalls(S) ==
  /\ Working /\ sticky = None /\ ~finished
  /\ S # {} /\ \A c \in S : waiter[c] = "new"
  /\ S \subseteq Agent \/ (S \subseteq Panel /\ Cardinality(S) = 1)
  /\ waiter' = [c \in Rpc |-> IF c \in S THEN "waiting" ELSE waiter[c]]
  /\ Post(<<Message("rpc", S, None)>>)
  /\ UNCHANGED <<thread, sticky, finished, logged, inbox>>
  /\ HostUnchanged

\* cleanupRpc(): a finally block releases its panel whatever has happened.
PostCleanup(c) ==
  /\ Working
  /\ waiter[c] = "new" /\ waiter[panelOf[c]] = "resolved"
  /\ waiter' = [waiter EXCEPT ![c] = "waiting"]
  /\ Post(<<Message("rpc", {c}, None)>>)
  /\ UNCHANGED <<thread, sticky, finished, logged, inbox>>
  /\ HostUnchanged

\* logLine() and phase() are posted and not answered.  (Bound: a script logs once,
\* before its calls.)
PostEvent ==
  /\ Working /\ ~finished /\ ~logged
  /\ \A c \in Rpc : waiter[c] \in {"absent", "new"}
  /\ logged' = TRUE
  /\ Post(<<Message("event", {}, None)>>)
  /\ UNCHANGED <<thread, waiter, sticky, finished, inbox>>
  /\ HostUnchanged

\* The "rpcResult" handler; a policy error is marked fatal before the script
\* sees it, and the first one is the one that every mark posts.
Receive ==
  /\ Working /\ inbox # <<>>
  /\ LET c == Head(inbox)
         first == IF sticky = None THEN c ELSE sticky
     IN  /\ waiter' = [waiter EXCEPT ![c] = IF reply[c] = "ok" THEN "resolved" ELSE "rejected"]
         /\ IF reply[c] = "policy"
            THEN sticky' = first /\ Post(<<Fatal(first)>>)
            ELSE UNCHANGED <<sticky, outbox>>
  /\ inbox' = Tail(inbox)
  /\ UNCHANGED <<thread, finished, logged>>
  /\ HostUnchanged

\* makePolicyError(): a limit of the worker, or a rule the script broke.
BreakPolicy ==
  /\ Working /\ sticky = None /\ ~finished
  /\ sticky' = WorkerMade
  /\ Post(<<Fatal(WorkerMade)>>)
  /\ UNCHANGED <<thread, waiter, finished, logged, inbox>>
  /\ HostUnchanged

\* Mutant: a script may return while calls that it observed are pending.
OnlyPanelsPending ==
  \A c \in Cleanup : waiter[panelOf[c]] = "resolved" => waiter[c] # "new"

\* Every orchestration promise has settled, its panels' releases included.
NothingPending ==
  /\ \A c \in Rpc : waiter[c] # "waiting"
  /\ \A c \in Cleanup : waiter[panelOf[c]] = "resolved" => waiter[c] # "new"

\* runRoot() and finish(): the script returned; it threw, or its value cannot be
\* cloned; it returned with calls unobserved or pending, which is a policy
\* error; or a fatal error stands, and then nothing else is reported.
Finish ==
  /\ Working /\ ~finished
  /\ finished' = TRUE
  /\ \/ /\ sticky = None /\ NothingPending
        /\ Post(<<Result(None)>>)
        /\ UNCHANGED sticky
     \/ /\ sticky = None
        /\ Post(<<Result("thrown")>>)
        /\ UNCHANGED sticky
     \/ /\ sticky = None /\ ~ NothingPending
        /\ sticky' = WorkerMade
        /\ Post(<<Fatal(WorkerMade), Result(WorkerMade)>>)
     \/ /\ sticky # None
        /\ Post(<<Result(sticky)>>)
        /\ UNCHANGED sticky
  /\ UNCHANGED <<thread, waiter, logged, inbox>>
  /\ HostUnchanged

\* The script loops without a checkpoint, and no message is handled any more.
Hang ==
  /\ Working /\ ~finished
  /\ thread' = "hung"
  /\ UNCHANGED <<waiter, sticky, finished, logged, outbox, inbox>>
  /\ HostUnchanged

\* The thread ends by itself: its heap is full, an error escapes, or it exits.
\* Node delivers what was posted first, then the error, then the exit.
Die ==
  /\ thread # "dead" /\ outcome = "running"
  /\ thread' = "dead"
  /\ \/ Post(<<Message("error", {}, OutOfMemory), Exit>>)
     \/ Post(<<Message("error", {}, "crash"), Exit>>)
     \/ Post(<<Exit>>)
  /\ UNCHANGED <<waiter, sticky, finished, logged, inbox>>
  /\ HostUnchanged

----------------------------------------------------------------------------
(***************************************************************************)
(* The host: promises that settle, the abort signal and timers are events  *)
(* that any interleaving may put into the queue; one fiber consumes it.    *)
(***************************************************************************)
Running == outcome = "running"
WorkerUnchanged == UNCHANGED <<worker>>

\* onMessage, onError, onExit
Deliver ==
  /\ Running /\ outbox # <<>>
  /\ events' = Append(events, Head(outbox))
  /\ outbox' = Tail(outbox)
  /\ WorkerUnchanged
  /\ UNCHANGED <<inbox, reply, pending, drain, aborted, outcome>>

\* handleRpc(): the reply is posted (and lost when the thread is dead), then the
\* settlement is queued.  A call fails with the abort only when it was aborted.
Settle(c, how) ==
  /\ Running /\ reply[c] = "running"
  /\ how = "abort" => cancelled
  /\ reply' = [reply EXCEPT ![c] = how]
  /\ inbox' = IF thread = "dead" THEN inbox ELSE Append(inbox, c)
  /\ events' = Append(events, RpcSettled)
  /\ WorkerUnchanged
  /\ UNCHANGED <<outbox, pending, drain, aborted, outcome>>

\* abort() of the runtime: the children's signal, then onAbort(), which
\* terminates the thread inside the callback.
Abort ==
  /\ Running /\ ~aborted
  /\ aborted' = TRUE
  /\ cancelled' = TRUE
  /\ thread' = "dead"
  /\ outbox' = IF thread = "dead" THEN outbox ELSE Append(outbox, Exit)
  /\ UNCHANGED <<waiter, sticky, finished, logged, inbox, events, reply, pending,
                 fatal, reported, deadline, outcome>>

\* The drain's timer
DeadlineFires ==
  /\ Running /\ deadline = "armed"
  /\ deadline' = "fired"
  /\ events' = Append(events, Message("fatalDeadline", {}, None))
  /\ WorkerUnchanged
  /\ UNCHANGED <<outbox, inbox, reply, pending, fatal, reported, cancelled, aborted, outcome>>

\* No call runs and nothing is under way.
NoProgress == pending = 0 /\ events = <<>> /\ outbox = <<>> /\ inbox = <<>>

\* checkWatchdog(), with its times abstracted: the thread is
\* hung, its termination takes too long, or the script waits for nothing.
WatchdogExpires ==
  /\ Running /\ fatal = None
  /\ \/ /\ thread = "hung" \/ aborted
        /\ outcome' = IF aborted THEN "abort" ELSE "stall"
     \/ NoProgress /\ thread = "alive" /\ outcome' = "stall"
  /\ WorkerUnchanged
  /\ UNCHANGED <<outbox, inbox, events, reply, pending, drain, aborted>>

\* The test at the head of consumeEvents()
Drained == fatal # None /\ reported /\ pending = 0

FailDrained ==
  /\ Running /\ Drained
  /\ outcome' = fatal
  /\ WorkerUnchanged
  /\ UNCHANGED <<outbox, inbox, events, reply, pending, drain, aborted>>

\* Mutant: the deadline is left out.
BeginFatalDrainForever(e) ==
  /\ fatal' = IF fatal = None THEN e ELSE fatal
  /\ cancelled' = TRUE
  /\ UNCHANGED deadline

\* beginFatalDrain()
BeginFatalDrain(e) ==
  /\ fatal' = IF fatal = None THEN e ELSE fatal
  /\ cancelled' = TRUE
  /\ deadline' = IF fatal = None THEN "armed" ELSE deadline

\* Take the next event, of the given type.
Take(type) ==
  /\ Running /\ ~ Drained
  /\ events # <<>> /\ Head(events).type = type
  /\ events' = Tail(events)
  /\ WorkerUnchanged
  /\ UNCHANGED <<outbox, inbox, aborted>>

Event == Head(events)
DrainUnchanged == UNCHANGED <<drain>>

\* Mutant: a message counts once, however many agents it starts.
HandleRpcPerMessage ==
  /\ Take("rpc")
  /\ reply' = [c \in Rpc |-> IF c \in Event.calls THEN "running" ELSE reply[c]]
  /\ pending' = pending + 1
  /\ DrainUnchanged /\ UNCHANGED outcome

\* dispatchRpc(), for each call of the message
HandleRpc ==
  /\ Take("rpc")
  /\ reply' = [c \in Rpc |-> IF c \in Event.calls THEN "running" ELSE reply[c]]
  /\ pending' = pending + Cardinality(Event.calls)
  /\ DrainUnchanged /\ UNCHANGED outcome

HandleSettled ==
  /\ Take("rpcSettled")
  /\ pending' = IF pending = 0 THEN 0 ELSE pending - 1
  /\ DrainUnchanged /\ UNCHANGED <<reply, outcome>>

\* The observers of logs and phases may throw, and that ends the script.
HandleEvent ==
  /\ Take("event")
  /\ outcome' \in {"running", "observer"}
  /\ DrainUnchanged /\ UNCHANGED <<reply, pending>>

HandleFatal ==
  /\ Take("fatal")
  /\ BeginFatalDrain(Event.error)
  /\ UNCHANGED <<reported, reply, pending, outcome>>

HandleResult ==
  /\ Take("result")
  /\ reported' = TRUE
  /\ \/ fatal # None /\ UNCHANGED <<fatal, cancelled, deadline, outcome>>
     \/ /\ fatal = None /\ Event.error \in PolicyError
        /\ BeginFatalDrain(Event.error) /\ UNCHANGED outcome
     \/ /\ fatal = None /\ Event.error \notin PolicyError
        /\ outcome' = IF Event.error = None THEN "ok" ELSE Event.error
        /\ UNCHANGED <<fatal, cancelled, deadline>>
  /\ UNCHANGED <<reply, pending>>

HandleError ==
  /\ Take("error")
  /\ IF Event.error = OutOfMemory
     THEN reported' = TRUE /\ BeginFatalDrain(OutOfMemory) /\ UNCHANGED outcome
     ELSE outcome' = Event.error /\ DrainUnchanged
  /\ UNCHANGED <<reply, pending>>

HandleExit ==
  /\ Take("exit")
  /\ IF fatal # None
     THEN reported' = TRUE /\ UNCHANGED outcome
     ELSE outcome' = (IF aborted THEN "abort" ELSE "exit") /\ UNCHANGED reported
  /\ UNCHANGED <<fatal, cancelled, deadline, reply, pending>>

HandleDeadline ==
  /\ Take("fatalDeadline")
  /\ outcome' = fatal
  /\ DrainUnchanged /\ UNCHANGED <<reply, pending>>

Consume ==
  \/ HandleRpc \/ HandleSettled \/ HandleEvent \/ HandleFatal
  \/ HandleResult \/ HandleError \/ HandleExit \/ HandleDeadline

Settled == ~ Running /\ UNCHANGED vars

Next ==
  \/ \E S \in SUBSET (Agent \cup Panel) : PostCalls(S)
  \/ \E c \in Cleanup : PostCleanup(c)
  \/ PostEvent \/ Receive \/ BreakPolicy \/ Finish \/ Hang \/ Die
  \/ Deliver
  \/ \E c \in Rpc, how \in {"ok", "error", "policy", "abort"} : Settle(c, how)
  \/ Abort \/ DeadlineFires \/ WatchdogExpires \/ FailDrained \/ Consume
  \/ Settled

Spec == Init /\ [][Next]_vars

(***************************************************************************)
(* Fairness: Node delivers what was posted and fires timers, the consumer  *)
(* is scheduled.  Of the script and of the agents nothing is assumed: a    *)
(* native runner may ignore its abort signal for ever.                     *)
(***************************************************************************)
Fairness ==
  /\ WF_vars(Deliver)
  /\ WF_vars(Consume)
  /\ WF_vars(FailDrained)
  /\ WF_vars(DeadlineFires)
  /\ WF_vars(WatchdogExpires)

LiveSpec == Spec /\ Fairness

----------------------------------------------------------------------------
(***************************************************************************)
(* Properties                                                              *)
(***************************************************************************)
\* A workflow succeeds only when nothing of it is under way: every call was
\* served and its answer reached the script, every panel was released, and no
\* fatal error was marked.
SuccessIsQuiet ==
  outcome = "ok" =>
    /\ sticky = None /\ fatal = None
    /\ \A c \in Rpc : waiter[c] # "waiting" /\ reply[c] # "running"
    /\ \A c \in Cleanup : reply[panelOf[c]] = "ok" => reply[c] # "none"

\* A policy failure of any call is never swallowed: not by a script that catches
\* it, not by a result that crosses it, not by a worker that dies.
PolicyFailureNeverSucceeds ==
  (\E c \in Rpc : reply[c] = "policy") => outcome # "ok"

\* The failure that is reported is the first: the one that stopped the script.
FirstFailureReported ==
  outcome \in PolicyError => outcome = IF sticky = None THEN OutOfMemory ELSE sticky

\* So the verdict tells what happened to the script.
VerdictIsTrue == SuccessIsQuiet /\ PolicyFailureNeverSucceeds /\ FirstFailureReported

\* Before its deadline, a fatal error is reported only after every call that the
\* host dispatched has settled, so nothing runs on behind the verdict.
FatalDrainsCalls ==
  outcome \in PolicyError /\ deadline # "fired" =>
    \A c \in Rpc : reply[c] # "running"

\* A worker that sends its heartbeats is not stopped as stalled while the host
\* is serving one of its calls, however long that takes.
WaitingIsNotStalling ==
  outcome = "stall" /\ thread = "alive" => \A c \in Rpc : reply[c] # "running"

\* pendingRpcCount counts the calls that run and the settlements in the queue.
PendingCountsCalls ==
  Running => pending = Cardinality({c \in Rpc : reply[c] = "running"})
                       + Cardinality({i \in DOMAIN events : events[i] = RpcSettled})

\* So the executor knows which calls run, and settles on that.
CallsAccounted ==
  TypeOK /\ PendingCountsCalls /\ FatalDrainsCalls /\ WaitingIsNotStalling

\* However agents, script and worker behave, a fatal error, an abort, a hung or a
\* dead worker end the execution.
FailureEndsExecution ==
  (fatal # None \/ aborted \/ thread # "alive") ~> ~ Running
=============================================================================
