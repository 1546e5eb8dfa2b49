------------------------------ MODULE ToolHost ------------------------------
(***************************************************************************)
(* Calls of the workflow tool in one session: src/workflow/tool.ts with    *)
(* the leases of leases.ts.  A call acquires, in this order, an abort      *)
(* listener, the lease of its run, the script artifact, the journal, the   *)
(* run details and a heartbeat, runs the runtime, concludes the run and    *)
(* releases everything in the reverse order.  A run may be resumed by a    *)
(* later call, or by one made while it still runs, which must be refused.  *)
(*                                                                         *)
(* The runtime is known by what it does to the host: it starts and ends    *)
(* agents, returns a result only after all of them have ended, or throws,  *)
(* after which agents that ignore their abort may still end.  Observers    *)
(* (onUpdate) may throw from any update, the heartbeat's included.         *)
(***************************************************************************)
EXTENDS Naturals, FiniteSets

CONSTANTS
  Call,      \* the calls of the tool
  Run,       \* run ids
  NoRun,     \* the target of a call that has none yet
  Agent,     \* the agents of a run
  MaxActive  \* MAX_ACTIVE_WORKFLOWS_PER_SESSION

ASSUME HostAssumption ==
  /\ IsFiniteSet(Call)
  /\ MaxActive \in Nat \ {0}
  /\ NoRun \notin Run

VARIABLES
  script, journal,  \* the runs whose script, or journal, is on disk
  active,           \* activeRunIds of the session's lease scope
  pc,               \* how far a call has come
  target,           \* the run of a call
  resuming,         \* the call names a run to resume
  holds,            \* what the call must release: "listener", "lease", "journal", ...
  requested,        \* abort.requested
  aborted,          \* abort.controller.signal.aborted
  runtime,          \* "idle", "running", "returned", "threw"
  observing,        \* updateObserverEnabled
  accepting,        \* acceptingEvents
  beatFailed,       \* heartbeatFailure
  agents,           \* the status of each agent in the snapshot
  ended,            \* the agents whose fibers have ended
  status,           \* of the snapshot: "running", "completed", "aborted", "failed"
  record,           \* the terminal record: "none", "ok", "failed", "unsure"
  outcome           \* what the caller gets: "none", "ok", or a cause of failure

diskVars == <<script, journal>>
runVars == <<runtime, observing, accepting, beatFailed, agents, ended, status>>
vars == <<script, journal, active, pc, target, resuming, holds, requested, aborted,
          runtime, observing, accepting, beatFailed, agents, ended, status, record, outcome>>

TypeOK ==
  /\ script \subseteq Run /\ journal \subseteq Run
  /\ active \subseteq Run
  /\ pc \in [Call -> {"start", "preparing", "leasing", "persisting", "opening",
                      "detailing", "registering", "running", "closing", "over"}]
  /\ target \in [Call -> Run \cup {NoRun}]
  /\ resuming \in [Call -> BOOLEAN]
  /\ holds \in [Call -> SUBSET {"listener", "lease", "journal", "details", "heartbeat"}]
  /\ requested \in [Call -> BOOLEAN] /\ aborted \in [Call -> BOOLEAN]
  /\ runtime \in [Call -> {"idle", "running", "returned", "threw"}]
  /\ observing \in [Call -> BOOLEAN] /\ accepting \in [Call -> BOOLEAN]
  /\ beatFailed \in [Call -> BOOLEAN]
  /\ agents \in [Call -> [Agent -> {"none", "running", "done", "error", "cancelled"}]]
  /\ ended \in [Call -> SUBSET Agent]
  /\ status \in [Call -> {"running", "completed", "aborted", "failed"}]
  /\ record \in [Call -> {"none", "ok", "failed", "unsure"}]
  /\ outcome \in [Call -> {"none", "ok", "setup", "runtime", "cancelled", "heartbeat",
                           "journal"}]

Init ==
  /\ script = {} /\ journal = {} /\ active = {}
  /\ pc = [c \in Call |-> "start"]
  /\ target = [c \in Call |-> NoRun]
  /\ resuming = [c \in Call |-> FALSE]
  /\ holds = [c \in Call |-> {}]
  /\ requested = [c \in Call |-> FALSE] /\ aborted = [c \in Call |-> FALSE]
  /\ runtime = [c \in Call |-> "idle"]
  /\ observing = [c \in Call |-> TRUE] /\ accepting = [c \in Call |-> TRUE]
  /\ beatFailed = [c \in Call |-> FALSE]
  /\ agents = [c \in Call |-> [g \in Agent |-> "none"]]
  /\ ended = [c \in Call |-> {}]
  /\ status = [c \in Call |-> "running"]
  /\ record = [c \in Call |-> "none"]
  /\ outcome = [c \in Call |-> "none"]

----------------------------------------------------------------------------
Goto(c, where) == pc' = [pc EXCEPT ![c] = where] /\ UNCHANGED outcome
Acquires(c, what) == holds' = [holds EXCEPT ![c] = @ \cup {what}]

\* A step of the acquisition fails: what is held is released, nothing is run.
SetupFails(c) ==
  /\ pc' = [pc EXCEPT ![c] = "closing"]
  /\ outcome' = [outcome EXCEPT ![c] = "setup"]
  /\ UNCHANGED <<diskVars, active, target, resuming, holds>>

(***************************************************************************)
(* Acquisition.                                                            *)
(***************************************************************************)
\* The abort listener; without /ultracode the tool refuses to run.
Begin(c) ==
  /\ pc[c] = "start"
  /\ \/ SetupFails(c)
     \/ /\ Goto(c, "preparing")
        /\ Acquires(c, "listener")
        /\ UNCHANGED <<diskVars, active, target, resuming>>
  /\ UNCHANGED <<requested, aborted, runVars, record>>

\* The script is resolved and parsed; a new call draws a fresh run id, a
\* resuming one needs a journal of this session.
Prepare(c) ==
  /\ pc[c] = "preparing"
  /\ \/ SetupFails(c)
     \/ /\ ~aborted[c]
        /\ Goto(c, "leasing")
        /\ \/ /\ \E r \in Run \ ({target[d] : d \in Call} \cup script) :
                   target' = [target EXCEPT ![c] = r]
              /\ UNCHANGED resuming
           \/ /\ \E r \in journal : target' = [target EXCEPT ![c] = r]
              /\ resuming' = [resuming EXCEPT ![c] = TRUE]
        /\ UNCHANGED <<diskVars, active, holds>>
  /\ UNCHANGED <<requested, aborted, runVars, record>>

\* acquireWorkflowLease(): one call per run, and no more than the session's
\* bound; a call aborted by now stops here.
Lease(c) ==
  /\ pc[c] = "leasing"
  /\ IF aborted[c] \/ target[c] \in active \/ Cardinality(active) >= MaxActive
     THEN SetupFails(c)
     ELSE /\ Goto(c, "persisting")
          /\ active' = active \cup {target[c]}
          /\ Acquires(c, "lease")
          /\ UNCHANGED <<diskVars, target, resuming>>
  /\ UNCHANGED <<requested, aborted, runVars, record>>

\* persistScript(): written once; a resumed run must find the same script.
PersistScript(c) ==
  /\ pc[c] = "persisting"
  /\ \/ SetupFails(c)
     \/ /\ resuming[c] <=> target[c] \in script
        /\ script' = script \cup {target[c]}
        /\ Goto(c, "opening")
        /\ UNCHANGED <<journal, active, target, resuming, holds>>
  /\ UNCHANGED <<requested, aborted, runVars, record>>

OpenJournal(c) ==
  /\ pc[c] = "opening"
  /\ \/ SetupFails(c)
     \/ /\ journal' = journal \cup {target[c]}
        /\ Acquires(c, "journal")
        /\ Goto(c, "detailing")
        /\ UNCHANGED <<script, active, target, resuming>>
  /\ UNCHANGED <<requested, aborted, runVars, record>>

OpenDetails(c) ==
  /\ pc[c] = "detailing"
  /\ \/ SetupFails(c)
     \/ /\ Acquires(c, "details")
        /\ Goto(c, "registering")
        /\ UNCHANGED <<diskVars, active, target, resuming>>
  /\ UNCHANGED <<requested, aborted, runVars, record>>

\* The last look at the signal, the registration with the session's registry,
\* the heartbeat, and the runtime starts.
Register(c) ==
  /\ pc[c] = "registering"
  /\ \/ SetupFails(c) /\ UNCHANGED runtime
     \/ /\ ~aborted[c]
        /\ Acquires(c, "heartbeat")
        /\ Goto(c, "running")
        /\ runtime' = [runtime EXCEPT ![c] = "running"]
        /\ UNCHANGED <<diskVars, active, target, resuming>>
  /\ UNCHANGED <<requested, aborted, observing, accepting, beatFailed, agents, ended,
                 status, record>>

----------------------------------------------------------------------------
(***************************************************************************)
(* The run, as its observers see it.                                       *)
(***************************************************************************)
\* updateRun(): the observer may throw, once; it is not called again.
Observer(c, throws) ==
  /\ throws => observing[c]
  /\ observing' = [observing EXCEPT ![c] = @ /\ ~throws]

\* onAgentStart; a throwing observer fails the run (the runtime's own step).
AgentStart(c, g) ==
  /\ runtime[c] = "running" /\ ~aborted[c]
  /\ g \notin ended[c] /\ agents[c][g] = "none"
  /\ agents' = [agents EXCEPT ![c][g] = "running"]
  /\ \E throws \in BOOLEAN : Observer(c, throws)
  /\ UNCHANGED <<diskVars, active, pc, target, resuming, holds, requested, aborted, runtime,
                 accepting, beatFailed, ended, status, record, outcome>>

\* onAgentEnd, of an agent of a running run or of one that outlived it.
AgentEnd(c, g) ==
  /\ agents[c][g] # "none" /\ g \notin ended[c]
  /\ ended' = [ended EXCEPT ![c] = @ \cup {g}]
  /\ IF accepting[c]
     THEN /\ \E how \in {"done", "error"} : agents' = [agents EXCEPT ![c][g] = how]
          /\ \E throws \in BOOLEAN : Observer(c, throws)
     ELSE UNCHANGED <<agents, observing>>
  /\ UNCHANGED <<diskVars, active, pc, target, resuming, holds, requested, aborted, runtime,
                 accepting, beatFailed, status, record, outcome>>

\* The heartbeat updates the observer every second.  Its failure is kept and
\* aborts the run, without being the user's request to abort.
Heartbeat(c) ==
  /\ "heartbeat" \in holds[c]
  /\ accepting[c] /\ observing[c] /\ ~beatFailed[c]
  /\ Observer(c, TRUE)
  /\ beatFailed' = [beatFailed EXCEPT ![c] = TRUE]
  /\ aborted' = [aborted EXCEPT ![c] = TRUE]
  /\ UNCHANGED <<diskVars, active, pc, target, resuming, holds, requested, runtime, accepting,
                 agents, ended, status, record, outcome>>

\* abort.request(): by the host's signal or, once registered, by the registry.
RequestAbort(c) ==
  /\ "listener" \in holds[c] /\ ~requested[c]
  /\ requested' = [requested EXCEPT ![c] = TRUE]
  /\ aborted' = [aborted EXCEPT ![c] = TRUE]
  /\ UNCHANGED <<diskVars, active, pc, target, resuming, holds, runVars, record, outcome>>

\* The runtime returns when all its agents have ended, or throws: a failure of
\* the script, a policy failure, an abort drained or out of time.
RuntimeEnds(c) ==
  /\ runtime[c] = "running"
  /\ \/ /\ \A g \in Agent : agents[c][g] # "none" => g \in ended[c]
        /\ runtime' = [runtime EXCEPT ![c] = "returned"]
     \/ runtime' = [runtime EXCEPT ![c] = "threw"]
  /\ UNCHANGED <<diskVars, active, pc, target, resuming, holds, requested, aborted, observing,
                 accepting, beatFailed, agents, ended, status, record, outcome>>

----------------------------------------------------------------------------
(***************************************************************************)
(* The conclusion: completeRun() and failRun() await nothing.              *)
(***************************************************************************)
\* Mutant: the abort that the heartbeat caused is told instead of its failure.
FailRunForgetful(c, cause) ==
  /\ accepting' = [accepting EXCEPT ![c] = FALSE]
  /\ aborted' = [aborted EXCEPT ![c] = TRUE]
  /\ agents' = [agents EXCEPT ![c] = [g \in Agent |-> IF @[g] = "running" THEN "error" ELSE @[g]]]
  /\ status' = [status EXCEPT ![c] = IF requested[c] THEN "aborted" ELSE "failed"]
  /\ outcome' = [outcome EXCEPT ![c] = cause]

\* failRun(): stop listening, abort what still runs, finish the agents, and
\* record the failure if the journal still takes a record.
FailRun(c, cause) ==
  /\ accepting' = [accepting EXCEPT ![c] = FALSE]
  /\ aborted' = [aborted EXCEPT ![c] = TRUE]
  /\ agents' = [agents EXCEPT ![c] = [g \in Agent |->
       IF @[g] = "running" THEN IF requested[c] THEN "cancelled" ELSE "error" ELSE @[g]]]
  /\ status' = [status EXCEPT ![c] = IF requested[c] THEN "aborted" ELSE "failed"]
  /\ outcome' = [outcome EXCEPT ![c] = IF beatFailed[c] THEN "heartbeat" ELSE cause]

\* Mutant: a run that returned is published whatever happened meanwhile.
CleanReturnUnchecked(c) == runtime[c] = "returned"

\* completeRun() publishes only what was neither aborted nor lost its observer.
CleanReturn(c) ==
  /\ runtime[c] = "returned"
  /\ ~beatFailed[c] /\ ~requested[c] /\ ~aborted[c]

Publish(c) ==
  /\ pc[c] = "running"
  /\ CleanReturn(c)
  /\ record' = [record EXCEPT ![c] = "ok"]
  /\ accepting' = [accepting EXCEPT ![c] = FALSE]
  /\ status' = [status EXCEPT ![c] = "completed"]
  /\ outcome' = [outcome EXCEPT ![c] = "ok"]
  /\ pc' = [pc EXCEPT ![c] = "closing"]
  /\ UNCHANGED <<diskVars, active, target, resuming, holds, requested, aborted, runtime,
                 observing, beatFailed, agents, ended>>

\* The record of a success cannot be made durable: the journal is unusable
\* from then on, and may or may not show the record later.
PublishFails(c) ==
  /\ pc[c] = "running"
  /\ CleanReturn(c)
  /\ record' = [record EXCEPT ![c] = "unsure"]
  /\ FailRun(c, "journal")
  /\ pc' = [pc EXCEPT ![c] = "closing"]
  /\ UNCHANGED <<diskVars, active, target, resuming, holds, requested, runtime, observing,
                 beatFailed, ended>>

Fail(c) ==
  /\ pc[c] = "running"
  /\ runtime[c] \in {"returned", "threw"} /\ ~CleanReturn(c)
  /\ FailRun(c, IF runtime[c] = "threw" THEN "runtime" ELSE "cancelled")
  /\ record' \in {[record EXCEPT ![c] = "failed"], [record EXCEPT ![c] = "unsure"]}
  /\ pc' = [pc EXCEPT ![c] = "closing"]
  /\ UNCHANGED <<diskVars, active, target, resuming, holds, requested, runtime, observing,
                 beatFailed, ended>>

(***************************************************************************)
(* Release, in the reverse order of the acquisition.                       *)
(***************************************************************************)
\* Mutant: everything is released in any order.
LaterIgnored(what) == {}

Later(what) ==
  CASE what = "listener" -> {"lease", "journal", "details", "heartbeat"}
    [] what = "lease" -> {"journal", "details", "heartbeat"}
    [] what = "journal" -> {"details", "heartbeat"}
    [] what = "details" -> {"heartbeat"}
    [] what = "heartbeat" -> {}

Release(c, what) ==
  /\ pc[c] = "closing"
  /\ what \in holds[c] /\ holds[c] \cap Later(what) = {}
  /\ holds' = [holds EXCEPT ![c] = @ \ {what}]
  /\ active' = IF what = "lease" THEN active \ {target[c]} ELSE active
  /\ UNCHANGED <<diskVars, pc, target, resuming, requested, aborted, runVars, record, outcome>>

Return(c) ==
  /\ pc[c] = "closing" /\ holds[c] = {}
  /\ pc' = [pc EXCEPT ![c] = "over"]
  /\ UNCHANGED <<diskVars, active, target, resuming, holds, requested, aborted, runVars, record,
                 outcome>>

Settled ==
  /\ \A c \in Call : pc[c] = "over"
  /\ UNCHANGED vars

CallStep(c) ==
  \/ Begin(c) \/ Prepare(c) \/ Lease(c) \/ PersistScript(c)
  \/ OpenJournal(c) \/ OpenDetails(c) \/ Register(c)
  \/ Publish(c) \/ PublishFails(c) \/ Fail(c)
  \/ \E what \in holds[c] : Release(c, what)
  \/ Return(c)

Next ==
  \/ \E c \in Call :
       \/ CallStep(c)
       \/ \E g \in Agent : AgentStart(c, g) \/ AgentEnd(c, g)
       \/ Heartbeat(c) \/ RequestAbort(c) \/ RuntimeEnds(c)
  \/ Settled

Spec == Init /\ [][Next]_vars

----------------------------------------------------------------------------
(***************************************************************************)
(* Properties                                                              *)
(***************************************************************************)

\* A run's journal is open in one call at a time, which holds its lease: a
\* resumption made while the run is active, or not yet closed, is refused.
JournalExclusive ==
  \A c \in Call : "journal" \in holds[c] =>
    /\ "lease" \in holds[c]
    /\ \A d \in Call \ {c} : "journal" \in holds[d] => target[d] # target[c]

\* The session's count of active runs is the number of calls that hold a lease:
\* refused and failed calls neither leak a lease nor give back another's.
LeasesBalanced ==
  /\ active = {target[c] : c \in {d \in Call : "lease" \in holds[d]}}
  /\ Cardinality({c \in Call : "lease" \in holds[c]}) = Cardinality(active)
  /\ Cardinality(active) <= MaxActive

\* So leases guard the journals, and every call gives back what it took.
LeasesGuardJournals == TypeOK /\ JournalExclusive /\ LeasesBalanced

\* The journal, the snapshot and the caller agree on how a run ended, no agent is
\* left running in it, and a heartbeat that failed is the cause that is told, not
\* the abort it caused.
OneVerdict ==
  \A c \in Call : status[c] # "running" =>
    /\ (record[c] = "ok") = (outcome[c] = "ok")
    /\ (status[c] = "completed") = (outcome[c] = "ok")
    /\ beatFailed[c] => outcome[c] = "heartbeat"
    /\ \A g \in Agent : agents[c][g] # "running"

\* An abort requested before a run is published keeps it from being published,
\* whatever the runtime still returns; and a concluded run is final: late events
\* of agents that outlived it change neither its agents nor its status.
VerdictStands ==
  [][\A c \in Call :
       /\ requested[c] /\ record[c] # "ok" => record'[c] # "ok"
       /\ status[c] # "running" => agents'[c] = agents[c] /\ status'[c] = status[c]]_vars
=============================================================================
