----------------------------- MODULE HostProofs -----------------------------
(***************************************************************************)
(* Proofs about what one session keeps about its workflows (HostSession).  *)
(* Of the calls of the workflow tool (ToolHost): the lease that a call     *)
(* holds protects its journal and is counted, and the verdict that the     *)
(* caller gets is the one on disk, for every set of calls, runs and agents *)
(* and every bound on the active runs.  Of the list of runs (RunRegistry): *)
(* it is bounded and shows each of its runs once, and every run under way  *)
(* is in it and can be aborted, for every capacity above that bound.       *)
(***************************************************************************)
EXTENDS HostSession, SequenceTheorems, FiniteSetTheorems, FunctionTheorems, TLAPS

----------------------------------------------------------------------------
(***************************************************************************)
(* The inductive invariant.                                                *)
(***************************************************************************)
Places == {"start", "preparing", "leasing", "persisting", "opening", "detailing",
           "registering", "running", "closing", "over"}
Things == {"listener", "lease", "journal", "details", "heartbeat"}
Statuses == {"none", "running", "done", "error", "cancelled"}
Outcomes == {"none", "ok", "setup", "runtime", "cancelled", "heartbeat", "journal"}

\* The calls that hold a thing.
HoldersOf(what) == {c \in Call : what \in holds[c]}

\* Before the lease, and after the verdict.
Beginning == {"start", "preparing", "leasing"}
Concluded == {"closing", "over"}

\* What a call holds and where it is: acquired in one order, released in the
\* other.
HoldsOfPlace ==
  \A c \in Call :
    /\ "heartbeat" \in holds[c] => "details" \in holds[c]
    /\ "details" \in holds[c] => "journal" \in holds[c]
    /\ "journal" \in holds[c] => "lease" \in holds[c]
    /\ pc[c] \in Beginning => "lease" \notin holds[c]
    /\ pc[c] \in {"persisting", "opening", "detailing", "registering", "running"} =>
         "lease" \in holds[c]
    /\ pc[c] \in {"detailing", "registering", "running"} => "journal" \in holds[c]
    /\ pc[c] \in {"registering", "running"} => "details" \in holds[c]
    /\ pc[c] \notin {"start", "preparing"} \cup Concluded => target[c] \in Run

\* A lease is held for the run that it names, by one call, and no lease is held
\* by nobody.
LeasesFollow ==
  /\ \A c \in Call : "lease" \in holds[c] => target[c] \in active
  /\ \A c, d \in Call :
       "lease" \in holds[c] /\ "lease" \in holds[d] /\ target[c] = target[d] => c = d
  /\ \A r \in active : \E c \in Call : "lease" \in holds[c] /\ target[c] = r

\* As many leases as holders: what the bound of acquireWorkflowLease() counts.
LeasesCounted ==
  /\ IsFiniteSet(active)
  /\ Cardinality(HoldersOf("lease")) = Cardinality(active)
  /\ Cardinality(active) <= MaxActive

\* How far the run of a call is: it accepts events until its verdict, which is
\* given after the runtime has ended, and an agent that is shown running has not
\* ended, nor has the runtime returned.
RunConsistent(c) ==
  /\ runtime[c] # "idle" => pc[c] \in {"running"} \cup Concluded
  /\ accepting[c] = (status[c] = "running")
  /\ status[c] # "running" => pc[c] \in Concluded /\ runtime[c] \in {"returned", "threw"}
  /\ pc[c] \in Concluded => runtime[c] = "idle" \/ status[c] # "running"
  /\ \A g \in Agent :
       agents[c][g] = "running" => /\ g \notin ended[c]
                                   /\ runtime[c] # "returned"
                                   /\ status[c] = "running"

AgentsOfPlace == \A c \in Call : RunConsistent(c)

\* The snapshot, the record and the answer to the caller were set together, and
\* a heartbeat that failed before them is their cause.
VerdictOfPlace ==
  \A c \in Call : status[c] # "running" =>
    /\ (record[c] = "ok") = (outcome[c] = "ok")
    /\ (status[c] = "completed") = (outcome[c] = "ok")
    /\ beatFailed[c] => outcome[c] = "heartbeat"

\* TypeOK in two parts: of what a call acquires, and of its run.
SetupTypes ==
  /\ script \subseteq Run /\ journal \subseteq Run
  /\ active \subseteq Run
  /\ pc \in [Call -> Places]
  /\ target \in [Call -> Run \cup {NoRun}]
  /\ resuming \in [Call -> BOOLEAN]
  /\ holds \in [Call -> SUBSET Things]

RunTypes ==
  /\ requested \in [Call -> BOOLEAN] /\ aborted \in [Call -> BOOLEAN]
  /\ runtime \in [Call -> {"idle", "running", "returned", "threw"}]
  /\ observing \in [Call -> BOOLEAN] /\ accepting \in [Call -> BOOLEAN]
  /\ beatFailed \in [Call -> BOOLEAN]
  /\ agents \in [Call -> [Agent -> Statuses]]
  /\ ended \in [Call -> SUBSET Agent]
  /\ status \in [Call -> {"running", "completed", "aborted", "failed"}]
  /\ record \in [Call -> {"none", "ok", "failed", "unsure"}]
  /\ outcome \in [Call -> Outcomes]

HostInvariant ==
  /\ SetupTypes /\ RunTypes
  /\ HoldsOfPlace /\ LeasesFollow /\ LeasesCounted
  /\ AgentsOfPlace /\ VerdictOfPlace

\* The session starts without calls and without leases.
LEMMA InitInvariant == Init => HostInvariant
<1> SUFFICES ASSUME Init PROVE HostInvariant
  OBVIOUS
<1>1. SetupTypes /\ RunTypes /\ HoldsOfPlace /\ LeasesFollow /\ AgentsOfPlace /\ VerdictOfPlace
  BY DEF Init, SetupTypes, RunTypes, Places, Statuses, Outcomes, HoldsOfPlace,
    LeasesFollow, AgentsOfPlace, RunConsistent, VerdictOfPlace, Beginning, Concluded
<1>2. HoldersOf("lease") = {} /\ active = {}
  BY DEF Init, HoldersOf
<1>3. LeasesCounted
  BY <1>2, FS_EmptySet, HostAssumption DEF LeasesCounted
<1>4. QED
  BY <1>1, <1>3 DEF HostInvariant

\* A step that neither takes nor gives back a lease keeps their count.
LEMMA HoldersKept ==
  ASSUME LeasesCounted, HoldersOf("lease")' = HoldersOf("lease"), active' = active
  PROVE  LeasesCounted'
BY DEF LeasesCounted

----------------------------------------------------------------------------
(***************************************************************************)
(* The steps, in the order of execute().  Each is described first by the   *)
(* variables it sets, and then one step per part of the invariant.         *)
(***************************************************************************)
\* A step of the acquisition that fails changes the place and the answer only.
LEMMA SetupFailsLemma ==
  ASSUME HostInvariant, NEW c \in Call, pc[c] \notin {"running"} \cup Concluded,
         SetupFails(c), UNCHANGED <<requested, aborted, runVars, record>>
  PROVE  HostInvariant'
<1>1. /\ pc' = [pc EXCEPT ![c] = "closing"]
      /\ outcome' = [outcome EXCEPT ![c] = "setup"]
      /\ UNCHANGED <<script, journal, active, target, resuming, holds, requested, aborted,
                     runtime, observing, accepting, beatFailed, agents, ended, status,
                     record>>
  BY DEF SetupFails, diskVars, runVars
<1>2. SetupTypes' /\ RunTypes'
  BY <1>1 DEF HostInvariant, SetupTypes, RunTypes, Places, Statuses, Outcomes
<1>3. HoldsOfPlace' /\ LeasesFollow'
  BY <1>1 DEF HostInvariant, SetupTypes, HoldsOfPlace, LeasesFollow, Beginning, Concluded
<1>4. LeasesCounted'
  BY <1>1, HoldersKept DEF HostInvariant, HoldersOf
<1>5. AgentsOfPlace' /\ VerdictOfPlace'
  BY <1>1 DEF HostInvariant, SetupTypes, RunTypes, AgentsOfPlace, RunConsistent,
    VerdictOfPlace, Concluded
<1>6. QED
  BY <1>2, <1>3, <1>4, <1>5 DEF HostInvariant

\* Every step of the acquisition but the lease.
LEMMA Acquisition ==
  ASSUME HostInvariant, NEW c \in Call,
         \/ Begin(c) \/ Prepare(c) \/ PersistScript(c) \/ OpenJournal(c)
         \/ OpenDetails(c) \/ Register(c)
  PROVE  HostInvariant'
<1>1. CASE SetupFails(c)
  <2>1. pc[c] \notin {"running"} \cup Concluded
    BY DEF Begin, Prepare, PersistScript, OpenJournal, OpenDetails, Register, Concluded
  <2>2. UNCHANGED <<requested, aborted, runVars, record>>
    <3>1. ~Register(c) => UNCHANGED <<requested, aborted, runVars, record>>
      BY DEF Begin, Prepare, PersistScript, OpenJournal, OpenDetails
    <3>2. pc' # [pc EXCEPT ![c] = "running"]
      BY <1>1 DEF SetupFails, HostInvariant, SetupTypes
    <3>3. Register(c) => UNCHANGED <<requested, aborted, runVars, record>>
      BY <3>2 DEF Register, Goto, runVars
    <3>4. QED
      BY <3>1, <3>3
  <2>3. QED
    BY <1>1, <2>1, <2>2, SetupFailsLemma
<1>2. CASE Begin(c) /\ ~SetupFails(c)
  <2>1. /\ pc[c] = "start" /\ pc' = [pc EXCEPT ![c] = "preparing"]
        /\ holds' = [holds EXCEPT ![c] = @ \cup {"listener"}]
        /\ UNCHANGED <<script, journal, active, target>>
        /\ UNCHANGED <<resuming, runtime>>
        /\ UNCHANGED <<requested, aborted, observing, accepting, beatFailed,
                       agents, ended, status, record, outcome>>
    BY <1>2 DEF Begin, Goto, Acquires, diskVars, runVars, HostInvariant, SetupTypes
  <2>2. SetupTypes' /\ RunTypes'
    BY <2>1 DEF HostInvariant, SetupTypes, RunTypes, HoldsOfPlace, Places, Things,
      Concluded
  <2>3. HoldsOfPlace'
    BY <2>1 DEF HostInvariant, SetupTypes, HoldsOfPlace, Beginning, Concluded
  <2>4. LeasesFollow'
    BY <2>1 DEF HostInvariant, SetupTypes, HoldsOfPlace, LeasesFollow, Beginning
  <2>5. LeasesCounted'
    BY <2>1, HoldersKept DEF HostInvariant, SetupTypes, HoldersOf
  <2>6. AgentsOfPlace' /\ VerdictOfPlace'
    BY <2>1 DEF HostInvariant, SetupTypes, RunTypes, AgentsOfPlace, RunConsistent,
      VerdictOfPlace, Concluded
  <2>7. QED
    BY <2>2, <2>3, <2>4, <2>5, <2>6 DEF HostInvariant
<1>3. CASE Prepare(c) /\ ~SetupFails(c)
  <2>1. /\ pc[c] = "preparing" /\ pc' = [pc EXCEPT ![c] = "leasing"]
        /\ UNCHANGED <<script, journal, active, holds>>
        /\ \E r \in Run : target' = [target EXCEPT ![c] = r]
        /\ resuming' \in {resuming, [resuming EXCEPT ![c] = TRUE]} /\ UNCHANGED runtime
        /\ UNCHANGED <<requested, aborted, observing, accepting, beatFailed,
                       agents, ended, status, record, outcome>>
    BY <1>3 DEF Prepare, Goto, Acquires, diskVars, runVars, HostInvariant, SetupTypes
  <2>2. SetupTypes' /\ RunTypes'
    <3>1. target' \in [Call -> Run \cup {NoRun}] /\ resuming' \in [Call -> BOOLEAN]
      BY <2>1 DEF HostInvariant, SetupTypes
    <3>2. QED
      BY <2>1, <3>1 DEF HostInvariant, SetupTypes, RunTypes, Places
  <2>3. HoldsOfPlace'
    BY <2>1 DEF HostInvariant, SetupTypes, HoldsOfPlace, Beginning, Concluded
  <2>4. LeasesFollow'
    BY <2>1 DEF HostInvariant, SetupTypes, HoldsOfPlace, LeasesFollow, Beginning
  <2>5. LeasesCounted'
    BY <2>1, HoldersKept DEF HostInvariant, SetupTypes, HoldersOf
  <2>6. AgentsOfPlace' /\ VerdictOfPlace'
    BY <2>1 DEF HostInvariant, SetupTypes, RunTypes, AgentsOfPlace, RunConsistent,
      VerdictOfPlace, Concluded
  <2>7. QED
    BY <2>2, <2>3, <2>4, <2>5, <2>6 DEF HostInvariant
<1>4. CASE PersistScript(c) /\ ~SetupFails(c)
  <2>1. /\ pc[c] = "persisting" /\ pc' = [pc EXCEPT ![c] = "opening"]
        /\ UNCHANGED <<journal, active, target, holds>>
        /\ script' = script \cup {target[c]}
        /\ UNCHANGED <<resuming, runtime>>
        /\ UNCHANGED <<requested, aborted, observing, accepting, beatFailed,
                       agents, ended, status, record, outcome>>
    BY <1>4 DEF PersistScript, Goto, Acquires, diskVars, runVars, HostInvariant,
      SetupTypes
  <2>2. SetupTypes' /\ RunTypes'
    BY <2>1 DEF HostInvariant, SetupTypes, RunTypes, HoldsOfPlace, Places, Things,
      Concluded
  <2>3. HoldsOfPlace'
    BY <2>1 DEF HostInvariant, SetupTypes, HoldsOfPlace, Beginning, Concluded
  <2>4. LeasesFollow'
    BY <2>1 DEF HostInvariant, SetupTypes, HoldsOfPlace, LeasesFollow, Beginning
  <2>5. LeasesCounted'
    BY <2>1, HoldersKept DEF HostInvariant, SetupTypes, HoldersOf
  <2>6. AgentsOfPlace' /\ VerdictOfPlace'
    BY <2>1 DEF HostInvariant, SetupTypes, RunTypes, AgentsOfPlace, RunConsistent,
      VerdictOfPlace, Concluded
  <2>7. QED
    BY <2>2, <2>3, <2>4, <2>5, <2>6 DEF HostInvariant
<1>5. CASE OpenJournal(c) /\ ~SetupFails(c)
  <2>1. /\ pc[c] = "opening" /\ pc' = [pc EXCEPT ![c] = "detailing"]
        /\ holds' = [holds EXCEPT ![c] = @ \cup {"journal"}]
        /\ UNCHANGED <<script, active, target>>
        /\ journal' = journal \cup {target[c]}
        /\ UNCHANGED <<resuming, runtime>>
        /\ UNCHANGED <<requested, aborted, observing, accepting, beatFailed,
                       agents, ended, status, record, outcome>>
    BY <1>5 DEF OpenJournal, Goto, Acquires, diskVars, runVars, HostInvariant, SetupTypes
  <2>2. SetupTypes' /\ RunTypes'
    BY <2>1 DEF HostInvariant, SetupTypes, RunTypes, HoldsOfPlace, Places, Things,
      Concluded
  <2>3. HoldsOfPlace'
    BY <2>1 DEF HostInvariant, SetupTypes, HoldsOfPlace, Beginning, Concluded
  <2>4. LeasesFollow'
    BY <2>1 DEF HostInvariant, SetupTypes, HoldsOfPlace, LeasesFollow, Beginning
  <2>5. LeasesCounted'
    BY <2>1, HoldersKept DEF HostInvariant, SetupTypes, HoldersOf
  <2>6. AgentsOfPlace' /\ VerdictOfPlace'
    BY <2>1 DEF HostInvariant, SetupTypes, RunTypes, AgentsOfPlace, RunConsistent,
      VerdictOfPlace, Concluded
  <2>7. QED
    BY <2>2, <2>3, <2>4, <2>5, <2>6 DEF HostInvariant
<1>6. CASE OpenDetails(c) /\ ~SetupFails(c)
  <2>1. /\ pc[c] = "detailing" /\ pc' = [pc EXCEPT ![c] = "registering"]
        /\ holds' = [holds EXCEPT ![c] = @ \cup {"details"}]
        /\ UNCHANGED <<script, journal, active, target>>
        /\ UNCHANGED <<resuming, runtime>>
        /\ UNCHANGED <<requested, aborted, observing, accepting, beatFailed,
                       agents, ended, status, record, outcome>>
    BY <1>6 DEF OpenDetails, Goto, Acquires, diskVars, runVars, HostInvariant, SetupTypes
  <2>2. SetupTypes' /\ RunTypes'
    BY <2>1 DEF HostInvariant, SetupTypes, RunTypes, HoldsOfPlace, Places, Things,
      Concluded
  <2>3. HoldsOfPlace'
    BY <2>1 DEF HostInvariant, SetupTypes, HoldsOfPlace, Beginning, Concluded
  <2>4. LeasesFollow'
    BY <2>1 DEF HostInvariant, SetupTypes, HoldsOfPlace, LeasesFollow, Beginning
  <2>5. LeasesCounted'
    BY <2>1, HoldersKept DEF HostInvariant, SetupTypes, HoldersOf
  <2>6. AgentsOfPlace' /\ VerdictOfPlace'
    BY <2>1 DEF HostInvariant, SetupTypes, RunTypes, AgentsOfPlace, RunConsistent,
      VerdictOfPlace, Concluded
  <2>7. QED
    BY <2>2, <2>3, <2>4, <2>5, <2>6 DEF HostInvariant
<1>7. CASE Register(c) /\ ~SetupFails(c)
  <2>1. /\ pc[c] = "registering" /\ pc' = [pc EXCEPT ![c] = "running"]
        /\ holds' = [holds EXCEPT ![c] = @ \cup {"heartbeat"}]
        /\ UNCHANGED <<script, journal, active, target>>
        /\ UNCHANGED resuming /\ runtime' = [runtime EXCEPT ![c] = "running"]
        /\ UNCHANGED <<requested, aborted, observing, accepting, beatFailed,
                       agents, ended, status, record, outcome>>
    BY <1>7 DEF Register, Goto, Acquires, diskVars, runVars, HostInvariant, SetupTypes
  <2>2. SetupTypes' /\ RunTypes'
    BY <2>1 DEF HostInvariant, SetupTypes, RunTypes, HoldsOfPlace, Places, Things,
      Concluded
  <2>3. HoldsOfPlace'
    BY <2>1 DEF HostInvariant, SetupTypes, HoldsOfPlace, Beginning, Concluded
  <2>4. LeasesFollow'
    BY <2>1 DEF HostInvariant, SetupTypes, HoldsOfPlace, LeasesFollow, Beginning
  <2>5. LeasesCounted'
    BY <2>1, HoldersKept DEF HostInvariant, SetupTypes, HoldersOf
  <2>6. AgentsOfPlace' /\ VerdictOfPlace'
    BY <2>1 DEF HostInvariant, SetupTypes, RunTypes, AgentsOfPlace, RunConsistent,
      VerdictOfPlace, Concluded
  <2>7. QED
    BY <2>2, <2>3, <2>4, <2>5, <2>6 DEF HostInvariant
<1>8. QED
  BY <1>1, <1>2, <1>3, <1>4, <1>5, <1>6, <1>7

\* acquireWorkflowLease() refuses a run that is active, and a run too many.
LEMMA LeaseLemma ==
  ASSUME HostInvariant, NEW c \in Call, Lease(c)
  PROVE  HostInvariant'
<1>1. CASE SetupFails(c)
  BY <1>1, SetupFailsLemma DEF Lease, Concluded
<1>2. CASE ~SetupFails(c)
  <2>1. /\ pc[c] = "leasing" /\ pc' = [pc EXCEPT ![c] = "persisting"]
        /\ active' = active \cup {target[c]} /\ target[c] \notin active
        /\ ~(Cardinality(active) >= MaxActive)
        /\ holds' = [holds EXCEPT ![c] = @ \cup {"lease"}]
        /\ UNCHANGED <<script, journal, target, resuming, requested, aborted, runtime, observing,
                       accepting, beatFailed, agents, ended, status, record, outcome>>
    BY <1>2 DEF Lease, Goto, Acquires, diskVars, runVars
  <2>2. SetupTypes' /\ RunTypes'
    BY <2>1 DEF HostInvariant, SetupTypes, RunTypes, HoldsOfPlace, Places, Things,
      Concluded
  <2>3. HoldsOfPlace'
    BY <2>1 DEF HostInvariant, SetupTypes, HoldsOfPlace, Beginning, Concluded
  <2>4. LeasesFollow'
    BY <2>1 DEF HostInvariant, SetupTypes, HoldsOfPlace, LeasesFollow, Beginning
  <2>5. LeasesCounted'
    <3>1. HoldersOf("lease")' = HoldersOf("lease") \cup {c} /\ c \notin HoldersOf("lease")
      BY <2>1 DEF HostInvariant, SetupTypes, HoldersOf, HoldsOfPlace, Beginning
    <3>2. IsFiniteSet(HoldersOf("lease"))
      BY FS_Subset, HostAssumption DEF HoldersOf
    <3>3. /\ Cardinality(HoldersOf("lease")') = Cardinality(HoldersOf("lease")) + 1
          /\ Cardinality(active') = Cardinality(active) + 1 /\ IsFiniteSet(active')
      BY <2>1, <3>1, <3>2, FS_AddElement DEF HostInvariant, LeasesCounted
    <3>4. Cardinality(active) \in Nat
      BY FS_CardinalityType DEF HostInvariant, LeasesCounted
    <3>5. QED
      BY <2>1, <3>3, <3>4, HostAssumption DEF HostInvariant, LeasesCounted
  <2>6. AgentsOfPlace' /\ VerdictOfPlace'
    BY <2>1 DEF HostInvariant, SetupTypes, RunTypes, AgentsOfPlace, RunConsistent,
      VerdictOfPlace, Concluded
  <2>7. QED
    BY <2>2, <2>3, <2>4, <2>5, <2>6 DEF HostInvariant
<1>3. QED
  BY <1>1, <1>2

\* While the runtime runs, and after it, agents and timers leave the leases and
\* the verdict alone; a late end of an agent is dropped once events are not accepted.
LEMMA RunLemma ==
  ASSUME HostInvariant, NEW c \in Call,
         \/ \E g \in Agent : AgentStart(c, g) \/ AgentEnd(c, g)
         \/ Heartbeat(c) \/ RequestAbort(c) \/ RuntimeEnds(c)
  PROVE  HostInvariant'
<1>1. UNCHANGED <<script, journal, active, pc, target, resuming, holds, accepting, status,
                  record, outcome>>
  BY DEF AgentStart, AgentEnd, Heartbeat, RequestAbort, RuntimeEnds, diskVars, runVars
<1>2. SetupTypes' /\ HoldsOfPlace' /\ LeasesFollow'
  BY <1>1 DEF HostInvariant, SetupTypes, HoldsOfPlace, LeasesFollow
<1>3. LeasesCounted'
  BY <1>1, HoldersKept DEF HostInvariant, HoldersOf
<1>4. ASSUME NEW g \in Agent, AgentStart(c, g)
      PROVE  RunTypes' /\ AgentsOfPlace' /\ VerdictOfPlace'
  <2>1. /\ agents' = [agents EXCEPT ![c] = [@ EXCEPT ![g] = "running"]]
        /\ observing' \in [Call -> BOOLEAN]
        /\ runtime[c] = "running" /\ g \notin ended[c]
        /\ UNCHANGED <<requested, aborted, runtime, beatFailed, ended>>
    BY <1>4 DEF AgentStart, Observer, HostInvariant, RunTypes, Statuses
  <2>2. RunTypes'
    BY <1>1, <2>1 DEF HostInvariant, RunTypes, Statuses
  <2>3. AgentsOfPlace'
    BY <1>1, <2>1 DEF HostInvariant, RunTypes, AgentsOfPlace, RunConsistent
  <2>4. QED
    BY <1>1, <2>1, <2>2, <2>3 DEF HostInvariant, VerdictOfPlace
<1>5. ASSUME NEW g \in Agent, AgentEnd(c, g)
      PROVE  RunTypes' /\ AgentsOfPlace' /\ VerdictOfPlace'
  <2>1. /\ \/ \E how \in {"done", "error"} :
                agents' = [agents EXCEPT ![c] = [@ EXCEPT ![g] = how]]
           \/ ~accepting[c] /\ agents' = agents
        /\ observing' \in [Call -> BOOLEAN]
        /\ ended' = [ended EXCEPT ![c] = @ \cup {g}]
        /\ UNCHANGED <<requested, aborted, runtime, beatFailed>>
    BY <1>5 DEF AgentEnd, Observer, HostInvariant, RunTypes, Statuses
  <2>2. RunTypes'
    <3>1. agents' \in [Call -> [Agent -> Statuses]]
      <4>1. agents \in [Call -> [Agent -> Statuses]]
        BY DEF HostInvariant, RunTypes
      <4>2. QED
        BY <2>1, <4>1 DEF Statuses
    <3>2. ended' \in [Call -> SUBSET Agent]
      BY <2>1 DEF HostInvariant, RunTypes, Statuses
    <3>3. QED
      BY <1>1, <2>1, <3>1, <3>2 DEF HostInvariant, RunTypes, Statuses
  <2>3. AgentsOfPlace'
    BY <1>1, <2>1 DEF HostInvariant, RunTypes, AgentsOfPlace, RunConsistent
  <2>4. QED
    BY <1>1, <2>1, <2>2, <2>3 DEF HostInvariant, VerdictOfPlace
<1>6. CASE Heartbeat(c) \/ RequestAbort(c) \/ RuntimeEnds(c)
  <2>1. observing' \in [Call -> BOOLEAN] /\ UNCHANGED <<agents, ended>>
    BY <1>6 DEF Heartbeat, RequestAbort, RuntimeEnds, Observer, runVars, HostInvariant,
      RunTypes
  <2>2. RunTypes' /\ AgentsOfPlace'
    <3>1. CASE Heartbeat(c) \/ RequestAbort(c)
      BY <1>1, <2>1, <3>1 DEF Heartbeat, RequestAbort, runVars, HostInvariant, RunTypes,
        AgentsOfPlace, RunConsistent
    <3>2. CASE RuntimeEnds(c)
      <4>1. runtime' \in [Call -> {"idle", "running", "returned", "threw"}]
        BY <3>2 DEF RuntimeEnds, HostInvariant, RunTypes
      <4>2. RunTypes'
        BY <1>1, <2>1, <3>2, <4>1 DEF RuntimeEnds, HostInvariant, RunTypes
      <4>3. AgentsOfPlace'
        BY <1>1, <2>1, <3>2 DEF RuntimeEnds, HostInvariant, RunTypes, AgentsOfPlace,
          RunConsistent
      <4>4. QED
        BY <4>2, <4>3
    <3>3. QED
      BY <1>6, <3>1, <3>2
  <2>3. VerdictOfPlace'
    BY <1>1, <1>6 DEF Heartbeat, RequestAbort, RuntimeEnds, runVars, HostInvariant,
      RunTypes, AgentsOfPlace, RunConsistent, VerdictOfPlace
  <2>4. QED
    BY <1>2, <1>3, <2>2, <2>3 DEF HostInvariant
<1>7. QED
  BY <1>1, <1>2, <1>3, <1>4, <1>5, <1>6 DEF HostInvariant

\* The verdict: the run is published, its record cannot be written, or it failed.
\* It is given once, and leaves no agent shown running.
LEMMA Conclusion ==
  ASSUME HostInvariant, NEW c \in Call, Publish(c) \/ PublishFails(c) \/ Fail(c)
  PROVE  HostInvariant'
<1>1. /\ pc[c] = "running" /\ pc' = [pc EXCEPT ![c] = "closing"]
      /\ accepting' = [accepting EXCEPT ![c] = FALSE]
      /\ runtime[c] \in {"returned", "threw"}
      /\ UNCHANGED <<script, journal, active, target, resuming, holds, requested, runtime,
                     observing, beatFailed, ended>>
  BY DEF Publish, PublishFails, Fail, FailRun, CleanReturn, diskVars
<1>2. \/ /\ UNCHANGED <<aborted, agents>> /\ runtime[c] = "returned" /\ ~beatFailed[c]
         /\ record' = [record EXCEPT ![c] = "ok"]
         /\ status' = [status EXCEPT ![c] = "completed"]
         /\ outcome' = [outcome EXCEPT ![c] = "ok"]
      \/ /\ aborted' = [aborted EXCEPT ![c] = TRUE]
         /\ agents' = [agents EXCEPT ![c] = [g \in Agent |->
              IF @[g] = "running" THEN IF requested[c] THEN "cancelled" ELSE "error" ELSE @[g]]]
         /\ \E how \in {"failed", "unsure"} : record' = [record EXCEPT ![c] = how]
         /\ \E how \in {"aborted", "failed"} : status' = [status EXCEPT ![c] = how]
         /\ \E cause \in {"journal", "runtime", "cancelled"} :
              outcome' = [outcome EXCEPT ![c] = IF beatFailed[c] THEN "heartbeat" ELSE cause]
  BY DEF Publish, PublishFails, Fail, FailRun, CleanReturn
<1>3. SetupTypes' /\ HoldsOfPlace' /\ LeasesFollow'
  BY <1>1 DEF HostInvariant, SetupTypes, Places, HoldsOfPlace, LeasesFollow, Beginning,
    Concluded
<1>4. LeasesCounted'
  BY <1>1, HoldersKept DEF HostInvariant, HoldersOf
<1>5. RunTypes'
  <2>1. RunTypes
    BY DEF HostInvariant
  <2>2. agents' \in [Call -> [Agent -> Statuses]]
    <3>1. agents \in [Call -> [Agent -> Statuses]]
      BY <2>1 DEF RunTypes
    <3>2. QED
      BY <1>2, <3>1 DEF Statuses
  <2>3. /\ record' \in [Call -> {"none", "ok", "failed", "unsure"}]
        /\ status' \in [Call -> {"running", "completed", "aborted", "failed"}]
        /\ outcome' \in [Call -> Outcomes]
        /\ aborted' \in [Call -> BOOLEAN]
    <3>1. /\ record \in [Call -> {"none", "ok", "failed", "unsure"}]
          /\ status \in [Call -> {"running", "completed", "aborted", "failed"}]
          /\ outcome \in [Call -> Outcomes]
          /\ aborted \in [Call -> BOOLEAN]
      BY <2>1 DEF RunTypes
    <3>2. QED
      BY <1>2, <3>1 DEF Outcomes
  <2>4. QED
    BY <1>1, <2>1, <2>2, <2>3 DEF RunTypes
<1>6. AgentsOfPlace'
  <2>1. /\ agents \in [Call -> [Agent -> Statuses]]
        /\ accepting \in [Call -> BOOLEAN]
        /\ status \in [Call -> {"running", "completed", "aborted", "failed"}]
        /\ pc \in [Call -> Places]
    BY DEF HostInvariant, SetupTypes, RunTypes
  <2>2. \A d \in Call \ {c} : agents'[d] = agents[d] /\ status'[d] = status[d]
    BY <1>2, <2>1
  <2>3. status'[c] # "running"
    BY <1>2, <2>1
  <2>4. \A g \in Agent : agents'[c][g] # "running"
    <3>1. CASE agents' = agents /\ runtime[c] = "returned"
      BY <3>1 DEF HostInvariant, AgentsOfPlace, RunConsistent
    <3>2. CASE agents' = [agents EXCEPT ![c] = [g \in Agent |->
              IF @[g] = "running" THEN IF requested[c] THEN "cancelled" ELSE "error" ELSE @[g]]]
      BY <2>1, <3>2
    <3>3. QED
      BY <1>2, <3>1, <3>2
  <2>5. ASSUME NEW d \in Call, d # c
        PROVE    /\ agents'[d] = agents[d] /\ status'[d] = status[d]
                 /\ pc'[d] = pc[d] /\ accepting'[d] = accepting[d]
                 /\ runtime'[d] = runtime[d] /\ ended'[d] = ended[d]
    BY <1>1, <2>1, <2>2, <2>5
  <2>6. /\ pc'[c] = "closing" /\ accepting'[c] = FALSE
        /\ runtime'[c] \in {"returned", "threw"}
    BY <1>1, <2>1
  <2>7. ASSUME NEW d \in Call PROVE RunConsistent(d)'
    <3>1. CASE d = c
      BY <2>3, <2>4, <2>6, <3>1 DEF RunConsistent, Concluded
    <3>2. CASE d # c
      <4>1. RunConsistent(d)
        BY DEF HostInvariant, AgentsOfPlace
      <4>2. QED
        BY <2>5, <3>2, <4>1 DEF RunConsistent
    <3>3. QED
      BY <3>1, <3>2
  <2>8. QED
    BY <2>7 DEF AgentsOfPlace
<1>7. VerdictOfPlace'
  BY <1>1, <1>2 DEF HostInvariant, RunTypes, VerdictOfPlace
<1>8. QED
  BY <1>3, <1>4, <1>5, <1>6, <1>7 DEF HostInvariant

\* A release in the reverse order of the acquisition.
LEMMA ReleaseLemma ==
  ASSUME HostInvariant, NEW c \in Call, NEW what \in holds[c], Release(c, what)
  PROVE  HostInvariant'
<1>1. /\ pc[c] = "closing" /\ holds' = [holds EXCEPT ![c] = @ \ {what}]
      /\ active' = IF what = "lease" THEN active \ {target[c]} ELSE active
      /\ UNCHANGED <<script, journal, pc, target, resuming, requested, aborted, runtime, observing,
                     accepting, beatFailed, agents, ended, status, record, outcome>>
  BY DEF Release, diskVars, runVars
<1>2. /\ what = "lease" => "journal" \notin holds[c]
      /\ what = "journal" => "details" \notin holds[c]
      /\ what = "details" => "heartbeat" \notin holds[c]
  BY DEF Release, Later
<1>3. SetupTypes' /\ RunTypes'
  BY <1>1 DEF HostInvariant, SetupTypes, RunTypes, Things
<1>4. HoldsOfPlace'
  BY <1>1, <1>2 DEF HostInvariant, SetupTypes, HoldsOfPlace, Beginning, Concluded
<1>5. LeasesFollow'
  BY <1>1 DEF HostInvariant, SetupTypes, LeasesFollow
<1>6. LeasesCounted'
  <2>1. CASE what = "lease"
    <3>1. /\ HoldersOf("lease")' = HoldersOf("lease") \ {c} /\ c \in HoldersOf("lease")
          /\ active' = active \ {target[c]} /\ target[c] \in active
      BY <1>1, <2>1 DEF HostInvariant, HoldersOf, SetupTypes, LeasesFollow
    <3>2. IsFiniteSet(HoldersOf("lease"))
      BY FS_Subset, HostAssumption DEF HoldersOf
    <3>3. /\ Cardinality(HoldersOf("lease")') = Cardinality(HoldersOf("lease")) - 1
          /\ Cardinality(active') = Cardinality(active) - 1 /\ IsFiniteSet(active')
      BY <3>1, <3>2, FS_RemoveElement DEF HostInvariant, LeasesCounted
    <3>4. Cardinality(active) \in Nat
      BY FS_CardinalityType DEF HostInvariant, LeasesCounted
    <3>5. QED
      BY <3>3, <3>4, HostAssumption DEF HostInvariant, LeasesCounted
  <2>2. CASE what # "lease"
    <3>1. HoldersOf("lease")' = HoldersOf("lease") /\ active' = active
      BY <1>1, <2>2 DEF HostInvariant, HoldersOf, SetupTypes
    <3>2. QED
      BY <3>1, HoldersKept DEF HostInvariant
  <2>3. QED
    BY <2>1, <2>2
<1>7. AgentsOfPlace' /\ VerdictOfPlace'
  BY <1>1 DEF HostInvariant, AgentsOfPlace, RunConsistent, VerdictOfPlace
<1>8. QED
  BY <1>3, <1>4, <1>5, <1>6, <1>7 DEF HostInvariant

\* The call returns when it holds nothing.
LEMMA ReturnLemma ==
  ASSUME HostInvariant, NEW c \in Call, Return(c)
  PROVE  HostInvariant'
<1>1. /\ pc[c] = "closing" /\ pc' = [pc EXCEPT ![c] = "over"]
      /\ UNCHANGED <<script, journal, active, target, resuming, holds, requested, aborted, runtime,
                     observing, accepting, beatFailed, agents, ended, status, record,
                     outcome>>
  BY DEF Return, diskVars, runVars
<1>2. SetupTypes' /\ RunTypes'
  BY <1>1 DEF HostInvariant, SetupTypes, RunTypes, Places
<1>3. HoldsOfPlace' /\ LeasesFollow'
  BY <1>1 DEF HostInvariant, SetupTypes, HoldsOfPlace, LeasesFollow, Beginning, Concluded
<1>4. LeasesCounted'
  BY <1>1, HoldersKept DEF HostInvariant, HoldersOf
<1>5. AgentsOfPlace' /\ VerdictOfPlace'
  BY <1>1 DEF HostInvariant, SetupTypes, AgentsOfPlace, RunConsistent, VerdictOfPlace,
    Concluded
<1>6. QED
  BY <1>2, <1>3, <1>4, <1>5 DEF HostInvariant

\* Every step keeps the invariant.
LEMMA InvariantStep == HostInvariant /\ [Next]_vars => HostInvariant'
<1> SUFFICES ASSUME HostInvariant, [Next]_vars PROVE HostInvariant'
  OBVIOUS
<1>1. ASSUME NEW c \in Call, CallStep(c) PROVE HostInvariant'
  BY <1>1, Acquisition, LeaseLemma, Conclusion, ReleaseLemma, ReturnLemma DEF CallStep
<1>2. ASSUME NEW c \in Call,
             \/ \E g \in Agent : AgentStart(c, g) \/ AgentEnd(c, g)
             \/ Heartbeat(c) \/ RequestAbort(c) \/ RuntimeEnds(c)
      PROVE  HostInvariant'
  BY <1>2, RunLemma
<1>3. CASE UNCHANGED vars
  BY <1>3, HoldersKept DEF vars, HostInvariant, SetupTypes, RunTypes, HoldsOfPlace,
    LeasesFollow, HoldersOf, AgentsOfPlace, RunConsistent, VerdictOfPlace
<1>4. QED
  BY <1>1, <1>2, <1>3 DEF Next, Settled

----------------------------------------------------------------------------
(***************************************************************************)
(* The theorems.                                                           *)
(***************************************************************************)
\* The invariant holds for every session.
THEOREM InvariantCorrect == Spec => []HostInvariant
  BY InitInvariant, InvariantStep, PTL DEF Spec

\* Journals have one writer: no two calls are between lease and release for one
\* run, and activeRunIds holds as many runs as calls hold leases, never more than
\* the bound, whatever that is.
THEOREM LeasesCorrect == Spec => []LeasesGuardJournals
<1>1. ASSUME HostInvariant PROVE LeasesGuardJournals
  <2> USE <1>1 DEF HostInvariant
  <2>1. JournalExclusive
    BY DEF JournalExclusive, HoldsOfPlace, LeasesFollow
  <2>2. active = {target[c] : c \in {d \in Call : "lease" \in holds[d]}}
    BY DEF LeasesFollow
  <2>3. LeasesBalanced
    BY <2>2 DEF LeasesBalanced, LeasesCounted, HoldersOf
  <2>4. TypeOK
    BY DEF TypeOK, SetupTypes, RunTypes, Places, Things, Statuses, Outcomes
  <2>5. QED
    BY <2>1, <2>3, <2>4 DEF LeasesGuardJournals
<1>2. QED
  BY <1>1, InvariantCorrect, PTL

\* A call has one verdict: its snapshot, the record on disk and the answer of the
\* caller agree, and no agent is shown running behind it.
THEOREM VerdictCorrect == Spec => []OneVerdict
<1>1. ASSUME HostInvariant PROVE OneVerdict
  BY <1>1 DEF HostInvariant, OneVerdict, VerdictOfPlace, AgentsOfPlace, RunConsistent
<1>2. QED
  BY <1>1, InvariantCorrect, PTL

\* The verdict stands: no late event, of an agent that ignores its abort or of a
\* heartbeat, changes the snapshot, and a requested abort is not recorded as success.
THEOREM FinalCorrect == Spec => VerdictStands
<1> DEFINE Stands ==
      \A c \in Call :
        /\ requested[c] /\ record[c] # "ok" => record'[c] # "ok"
        /\ status[c] # "running" => agents'[c] = agents[c] /\ status'[c] = status[c]
<1>1. ASSUME HostInvariant, [Next]_vars PROVE [Stands]_vars
  <2>1. SUFFICES ASSUME Next PROVE Stands
    BY <1>1
  <2> USE <1>1 DEF HostInvariant, RunTypes, diskVars, runVars
  <2>2. ASSUME NEW c \in Call, Publish(c) \/ PublishFails(c) \/ Fail(c) PROVE Stands
    BY <2>2 DEF Publish, PublishFails, Fail, CleanReturn, FailRun, AgentsOfPlace,
      RunConsistent, Concluded
  <2>3. ASSUME NEW c \in Call, NEW g \in Agent, AgentStart(c, g) \/ AgentEnd(c, g)
        PROVE  Stands
    BY <2>3 DEF AgentStart, AgentEnd, AgentsOfPlace, RunConsistent
  <2>4. ASSUME NEW c \in Call,
               \/ Begin(c) \/ Prepare(c) \/ Lease(c) \/ PersistScript(c) \/ OpenJournal(c)
               \/ OpenDetails(c) \/ Register(c) \/ Return(c) \/ Heartbeat(c)
               \/ RequestAbort(c) \/ RuntimeEnds(c) \/ \E what \in holds[c] : Release(c, what)
        PROVE  Stands
    BY <2>4 DEF Begin, Prepare, Lease, PersistScript, OpenJournal, OpenDetails,
      Register, Return, Heartbeat, RequestAbort, RuntimeEnds, Release
  <2>5. QED
    BY <2>1, <2>2, <2>3, <2>4 DEF Next, CallStep, Settled, vars
<1>2. QED
  BY <1>1, InvariantCorrect, PTL DEF Spec, VerdictStands

----------------------------------------------------------------------------
(***************************************************************************)
(* The list of runs.                                                       *)
(***************************************************************************)
\* The instance of RunRegistry counts as this module does.
LEMMA SameCount ==
  ASSUME NEW S
  PROVE  /\ Registry!IsFiniteSet(S) <=> IsFiniteSet(S)
         /\ Registry!Cardinality(S) = Cardinality(S)
BY DEF Registry!Cardinality, Cardinality, Registry!IsFiniteSet, IsFiniteSet

\* The leases admit only so many runs at a time.
FewUnderWay == Cardinality(Registry!UnderWay) <= MaxActive

RegistryInvariant == Registry!RegistrySound /\ FewUnderWay

\* Runs are finitely many.
LEMMA RunSets ==
  ASSUME Registry!RegistryAssumption, NEW S \in SUBSET ListedRun
  PROVE  IsFiniteSet(S) /\ Cardinality(S) \in Nat
<1>1. IsFiniteSet(ListedRun)
  BY SameCount DEF Registry!RegistryAssumption
<1>2. QED
  BY <1>1, FS_Subset, FS_CardinalityType

\* trimRuns() keeps every run that is shown as running: there are fewer of them than
\* handles, and all others go before them.
LEMMA RunningStay ==
  ASSUME Registry!RegistryAssumption, NEW h, DOMAIN h \in SUBSET ListedRun,
         NEW U \in SUBSET ListedRun, Cardinality(U) <= MaxActive,
         \A r \in DOMAIN h : h[r].status = "running" => r \in U,
         NEW kept \in Registry!Remaining(h)
  PROVE  /\ kept \in SUBSET DOMAIN h
         /\ Cardinality(kept) <= capacity
         /\ \A r \in DOMAIN h : h[r].status = "running" => r \in kept
<1>1. /\ kept \in SUBSET DOMAIN h /\ kept \in SUBSET ListedRun
      /\ Cardinality(kept) <= capacity
      /\ kept # DOMAIN h => Cardinality(kept) = capacity
      /\ \A r \in DOMAIN h \ kept, k \in kept : Registry!GoesBefore(h[r], h[k])
  <2>1. Registry!Cardinality(kept) = Cardinality(kept)
    BY SameCount
  <2>2. QED
    BY <2>1 DEF Registry!Remaining
<1>2. ASSUME NEW r \in DOMAIN h, h[r].status = "running", r \notin kept PROVE FALSE
  <2>1. \A k \in kept : h[k].status = "running"
    BY <1>1, <1>2 DEF Registry!GoesBefore
  <2>2. kept \in SUBSET U
    BY <1>1, <2>1
  <2>3. Cardinality(kept) <= Cardinality(U)
    BY <2>2, RunSets, FS_Subset
  <2>4. Cardinality(kept) = capacity
    BY <1>1, <1>2
  <2>5. Cardinality(U) \in Nat /\ capacity \in Nat /\ MaxActive \in Nat /\ MaxActive < capacity
    BY RunSets DEF Registry!RegistryAssumption
  <2>6. QED
    BY <2>3, <2>4, <2>5
<1>3. QED
  BY <1>1, <1>2

\* At these places of a list each of the runs S is once.
OneEach(list, places, S) ==
  /\ \A i, k \in places : list[i] = list[k] => i = k
  /\ \A r \in S : \E i \in places : list[i] = r

\* What is left of the list when the ids at these places that are not kept are gone.
Filtered(list, places, kept, new) ==
  \E at \in Registry!InOrder({i \in places : list[i] \in kept}) :
    new = [i \in DOMAIN at |-> list[at[i]]]

\* A list with each run once still has it once when it was filtered.
LEMMA FilteredList ==
  ASSUME Registry!RegistryAssumption, NEW list, NEW n \in Nat, NEW places \in SUBSET (1..n),
         NEW kept \in SUBSET ListedRun, OneEach(list, places, kept),
         NEW new, Filtered(list, places, kept, new)
  PROVE  /\ new \in Seq(ListedRun)
         /\ {new[i] : i \in DOMAIN new} = kept
         /\ Len(new) = Cardinality(kept)
<1> DEFINE here == {i \in places : list[i] \in kept}
           m == Cardinality(here)
<1>1. PICK at \in Registry!InOrder(here) : new = [i \in DOMAIN at |-> list[at[i]]]
  BY DEF Filtered
<1>2. IsFiniteSet(here) /\ m \in Nat
  <2>1. IsFiniteSet(1..n)
    BY FS_Interval
  <2>2. here \in SUBSET (1..n)
    OBVIOUS
  <2>3. QED
    BY <2>1, <2>2, FS_Subset, FS_CardinalityType
<1>3. /\ at \in [1..m -> here]
      /\ \A i, k \in 1..m : i < k => at[i] < at[k]
  <2>1. Registry!Cardinality(here) = m
    BY SameCount
  <2>2. QED
    BY <2>1 DEF Registry!InOrder
<1> HIDE DEF here, m
<1>4. \A i \in here : i \in places /\ i \in Nat /\ list[i] \in kept
  BY DEF here
<1>5. \A i, k \in 1..m : at[i] = at[k] => i = k
  <2>1. SUFFICES ASSUME NEW i \in 1..m, NEW k \in 1..m, at[i] = at[k], i # k PROVE FALSE
    OBVIOUS
  <2>2. at[i] \in Nat /\ at[k] \in Nat
    BY <1>3, <1>4
  <2>3. i < k \/ k < i
    BY <1>2, <2>1
  <2>4. QED
    BY <1>3, <2>1, <2>2, <2>3
<1>6. at \in Surjection(1..m, here)
  <2>1. at \in Injection(1..m, here)
    BY <1>3, <1>5 DEF Injection, IsInjective
  <2>2. Cardinality(1..m) = Cardinality(here)
    BY <1>2, FS_Interval DEF m
  <2>3. QED
    BY <1>2, <2>1, <2>2, FS_Injection
<1>7. \A j \in here : \E i \in 1..m : at[i] = j
  BY <1>6 DEF Surjection
<1>8. DOMAIN new = 1..m /\ \A i \in 1..m : new[i] = list[at[i]] /\ new[i] \in kept
  BY <1>1, <1>3, <1>4
<1>9. new \in [1..m -> kept]
  BY <1>1, <1>3, <1>4
<1>10. \A r \in kept : \E i \in 1..m : new[i] = r
  <2>1. SUFFICES ASSUME NEW r \in kept PROVE \E i \in 1..m : new[i] = r
    OBVIOUS
  <2>2. PICK j \in here : list[j] = r
    BY DEF here, OneEach
  <2>3. PICK i \in 1..m : at[i] = j
    BY <1>7
  <2>4. QED
    BY <1>8, <2>2, <2>3
<1>11. \A i, k \in 1..m : new[i] = new[k] => i = k
  <2>1. SUFFICES ASSUME NEW i \in 1..m, NEW k \in 1..m, new[i] = new[k] PROVE i = k
    OBVIOUS
  <2>2. at[i] \in places /\ at[k] \in places /\ list[at[i]] = list[at[k]]
    BY <1>3, <1>4, <1>8, <2>1
  <2>3. at[i] = at[k]
    BY <2>2 DEF OneEach
  <2>4. QED
    BY <1>5, <2>3
<1>12. Cardinality(kept) = m
  <2>1. new \in Bijection(1..m, kept)
    BY <1>9, <1>10, <1>11 DEF Bijection, Injection, IsInjective, Surjection
  <2>2. QED
    BY <1>2, <2>1, FS_CountingElements DEF ExistsBijection
<1>13. new \in Seq(ListedRun) /\ Len(new) = m
  <2>1. new \in [1..m -> ListedRun]
    BY <1>9
  <2>2. new \in Seq(ListedRun)
    BY <1>2, <2>1, IsASeq
  <2>3. QED
    BY <1>2, <1>8, <2>2, LenProperties
<1>14. {new[i] : i \in DOMAIN new} = kept
  BY <1>8, <1>10
<1>15. QED
  BY <1>12, <1>13, <1>14

\* list() shows every handle once: an id has one place.
LEMMA OnePlace ==
  ASSUME Registry!RegistryAssumption, Registry!TypeOK, Registry!OrderIsRuns
  PROVE  /\ Len(order) \in Nat /\ DOMAIN order = 1..Len(order)
         /\ \A i \in 1..Len(order) : order[i] \in DOMAIN runs
         /\ OneEach(order, 1..Len(order), DOMAIN runs)
<1>1. /\ order \in Seq(ListedRun) /\ DOMAIN runs \in SUBSET ListedRun
      /\ Len(order) \in Nat /\ DOMAIN order = 1..Len(order)
  BY LenProperties DEF Registry!TypeOK
<1>2. /\ \A i \in 1..Len(order) : order[i] \in DOMAIN runs
      /\ \A r \in DOMAIN runs : \E i \in 1..Len(order) : order[i] = r
  BY <1>1 DEF Registry!OrderIsRuns
<1>3. order \in Surjection(1..Len(order), DOMAIN runs)
  <2>1. order \in [1..Len(order) -> ListedRun]
    BY <1>1, LenProperties
  <2>2. order \in [1..Len(order) -> DOMAIN runs]
    BY <1>2, <2>1
  <2>3. QED
    BY <1>2, <2>2 DEF Surjection
<1>4. IsFiniteSet(1..Len(order)) /\ Cardinality(1..Len(order)) = Cardinality(DOMAIN runs)
  <2>1. Cardinality(DOMAIN runs) = Len(order)
    BY SameCount DEF Registry!OrderIsRuns
  <2>2. IsFiniteSet(1..Len(order)) /\ Cardinality(1..Len(order)) = Len(order)
    BY <1>1, FS_Interval
  <2>3. QED
    BY <2>1, <2>2
<1>5. order \in Injection(1..Len(order), DOMAIN runs)
  BY <1>3, <1>4, FS_Surjection
<1>6. QED
  BY <1>1, <1>2, <1>5 DEF Injection, IsInjective, OneEach

\* These handles show what is under way, and nothing else, as running.
ShowsTruly(h, stages) ==
  /\ \A r \in DOMAIN h : h[r].status = "running" => stages[r] = "executing"
  /\ \A r \in ListedRun : stages[r] = "executing" =>
       r \in DOMAIN h /\ h[r].own /\ h[r].status = "running"

\* The handles and their list are sound.
ListSound(h, list) ==
  /\ DOMAIN h \in SUBSET ListedRun
  /\ \A r \in DOMAIN h : h[r] \in Registry!Handle
  /\ Cardinality(DOMAIN h) <= capacity
  /\ list \in Seq(ListedRun)
  /\ {list[i] : i \in DOMAIN list} = DOMAIN h
  /\ Len(list) = Cardinality(DOMAIN h)

\* What the invariant says, in the words of the step lemmas.
LEMMA ListFacts ==
  ASSUME Registry!RegistryAssumption, RegistryInvariant
  PROVE  /\ Registry!TypeOK /\ Registry!OrderIsRuns
         /\ DOMAIN runs \in SUBSET ListedRun
         /\ \A r \in DOMAIN runs : runs[r] \in Registry!Handle
         /\ Registry!UnderWay \in SUBSET ListedRun
         /\ Cardinality(Registry!UnderWay) \in Nat
         /\ Cardinality(Registry!UnderWay) <= MaxActive
         /\ ShowsTruly(runs, stage)
<1>1. Registry!UnderWay \in SUBSET ListedRun
  BY DEF Registry!UnderWay
<1>2. \A r \in DOMAIN runs : r \in ListedRun
  BY DEF RegistryInvariant, Registry!RegistrySound, Registry!TypeOK
<1>3. QED
  BY <1>1, <1>2, RunSets
    DEF RegistryInvariant, Registry!RegistrySound, Registry!TypeOK, Registry!AbortReaches,
      Registry!NoGhosts, FewUnderWay, ShowsTruly

\* A list that was trimmed to these handles is sound again, if those that it says are
\* running are under way, and those that are executing are in it.
LEMMA TrimmedIsSound ==
  ASSUME Registry!RegistryAssumption, NEW h, DOMAIN h \in SUBSET ListedRun,
         \A r \in DOMAIN h : h[r] \in Registry!Handle,
         NEW list, NEW n \in Nat, NEW places \in SUBSET (1..n),
         OneEach(list, places, DOMAIN h), Registry!Trimmed(h, list, places),
         FewUnderWay', ShowsTruly(h, stage')
  PROVE  ListSound(runs', order') /\ ShowsTruly(runs', stage')
<1>1. PICK kept \in Registry!Remaining(h) :
        runs' = [r \in kept |-> h[r]] /\ Filtered(list, places, kept, order')
  BY DEF Registry!Trimmed, Filtered
<1>2. /\ Registry!UnderWay' \in SUBSET ListedRun
      /\ Cardinality(Registry!UnderWay') <= MaxActive
  BY DEF FewUnderWay, Registry!UnderWay
<1>3. \A r \in DOMAIN h : h[r].status = "running" => r \in Registry!UnderWay'
  BY DEF Registry!UnderWay, ShowsTruly
<1>4. /\ kept \in SUBSET DOMAIN h
      /\ Cardinality(kept) <= capacity
      /\ \A r \in DOMAIN h : h[r].status = "running" => r \in kept
  BY <1>2, <1>3, RunningStay
<1>5. kept \in SUBSET ListedRun /\ OneEach(list, places, kept)
  BY <1>4 DEF OneEach
<1>6. /\ order' \in Seq(ListedRun)
      /\ {order'[i] : i \in DOMAIN order'} = kept
      /\ Len(order') = Cardinality(kept)
  BY <1>1, <1>5, FilteredList
<1>7. DOMAIN runs' = kept /\ \A r \in kept : runs'[r] = h[r]
  BY <1>1
<1>8. ListSound(runs', order')
  BY <1>4, <1>5, <1>6, <1>7 DEF ListSound
<1>9. ShowsTruly(runs', stage')
  BY <1>4, <1>7 DEF ShowsTruly
<1>10. QED
  BY <1>8, <1>9

\* A sound list is what the invariant asks for.
LEMMA SoundAgain ==
  ASSUME ListSound(runs', order'), ShowsTruly(runs', stage'), FewUnderWay',
         stage' \in [ListedRun -> {"none", "executing", "completed", "aborted", "closed"}],
         asked' \in SUBSET ListedRun,
         disk' \in [ListedRun -> Registry!Status \cup {"none"}],
         mtime' \in [ListedRun -> 0..timeBound], now' \in 0..timeBound
  PROVE  RegistryInvariant'
<1>1. Registry!Cardinality(DOMAIN runs') = Cardinality(DOMAIN runs')
  BY SameCount
<1>2. Registry!TypeOK' /\ Registry!OrderIsRuns'
  BY <1>1 DEF Registry!TypeOK, Registry!OrderIsRuns, ListSound
<1>3. Registry!AbortReaches' /\ Registry!NoGhosts'
  BY DEF Registry!AbortReaches, Registry!NoGhosts, ShowsTruly
<1>4. QED
  BY <1>2, <1>3 DEF RegistryInvariant, Registry!RegistrySound

\* A run that is registered again has the last place only.
LEMMA RegisterKeeps ==
  ASSUME Registry!RegistryAssumption, RegistryInvariant, NEW r \in ListedRun,
         Registry!Register(r)
  PROVE  RegistryInvariant'
<1> DEFINE handle == [status |-> "running", startedAt |-> now', own |-> TRUE]
           h == [q \in DOMAIN runs \cup {r} |-> IF q \in {r} THEN handle ELSE runs[q]]
           list == Append(order, r)
           n == Len(order) + 1
           places == {i \in DOMAIN order : order[i] # r} \cup {Len(order) + 1}
<1>1. /\ stage[r] \in {"none", "closed"}
      /\ Cardinality(Registry!UnderWay) < MaxActive
      /\ now < timeBound /\ now' = now + 1
      /\ Registry!Trimmed(h, list, places)
      /\ stage' = [stage EXCEPT ![r] = "executing"]
      /\ asked' = asked \ {r} /\ disk' = disk /\ mtime' = mtime
  BY SameCount DEF Registry!Register, Registry!Extended, Registry!Tick, Registry!manifests
<1>2. /\ Registry!TypeOK /\ Registry!OrderIsRuns
      /\ DOMAIN runs \in SUBSET ListedRun
      /\ \A q \in DOMAIN runs : runs[q] \in Registry!Handle
      /\ Registry!UnderWay \in SUBSET ListedRun
      /\ Cardinality(Registry!UnderWay) \in Nat
      /\ ShowsTruly(runs, stage)
  BY ListFacts
<1>3. now' \in 0..timeBound /\ handle \in Registry!Handle
  BY <1>1, <1>2 DEF Registry!TypeOK, Registry!Handle, Registry!Status, Registry!RegistryAssumption
<1>4. stage' \in [ListedRun -> {"none", "executing", "completed", "aborted", "closed"}]
      /\ \A q \in ListedRun : stage'[q] = IF q = r THEN "executing" ELSE stage[q]
  BY <1>1, <1>2 DEF Registry!TypeOK
<1>5. Registry!UnderWay' = Registry!UnderWay \cup {r} /\ Registry!UnderWay' \in SUBSET ListedRun
  BY <1>4 DEF Registry!UnderWay
<1>6. FewUnderWay'
  <2>1. /\ Cardinality(Registry!UnderWay \cup {r}) <= Cardinality(Registry!UnderWay) + 1
        /\ Cardinality(Registry!UnderWay \cup {r}) \in Nat
    BY <1>2, RunSets, FS_AddElement
  <2>2. MaxActive \in Nat
    BY HostAssumption
  <2>3. Cardinality(Registry!UnderWay \cup {r}) <= MaxActive
    BY <1>1, <1>2, <2>1, <2>2
  <2>4. QED
    BY <1>5, <2>3 DEF FewUnderWay
<1>7. /\ Len(order) \in Nat /\ DOMAIN order = 1..Len(order)
      /\ OneEach(order, 1..Len(order), DOMAIN runs)
  BY <1>2, OnePlace
<1>8. n \in Nat /\ places \in SUBSET (1..n)
  BY <1>7
<1>9. \A i \in 1..Len(order) : list[i] = order[i]
  BY <1>2, AppendProperties DEF Registry!TypeOK
<1>10. list[n] = r
  BY <1>2, AppendProperties DEF Registry!TypeOK
<1>11. \A i \in places : i = n \/ (i \in 1..Len(order) /\ order[i] # r)
  BY <1>7
<1>12. n \in places /\ \A i \in 1..Len(order) : order[i] # r => i \in places
  BY <1>7
<1>13. DOMAIN h = DOMAIN runs \cup {r} /\ h[r] = handle
       /\ \A q \in DOMAIN runs : q # r => h[q] = runs[q]
  OBVIOUS
<1> HIDE DEF h, list, n, places, handle
<1>14. OneEach(list, places, DOMAIN h)
  BY <1>7, <1>9, <1>10, <1>11, <1>12, <1>13 DEF OneEach
<1>15. \A q \in DOMAIN h : h[q] \in Registry!Handle
  BY <1>2, <1>3, <1>13
<1>16. DOMAIN h \in SUBSET ListedRun
  BY <1>2, <1>13
<1>17. handle.status = "running" /\ handle.own
  BY DEF handle
<1>18. ShowsTruly(h, stage')
  BY <1>2, <1>4, <1>13, <1>17 DEF ShowsTruly
<1>19. ListSound(runs', order') /\ ShowsTruly(runs', stage')
  BY <1>1, <1>6, <1>8, <1>14, <1>15, <1>16, <1>18, TrimmedIsSound
<1>20. asked' \in SUBSET ListedRun
  BY <1>1, <1>2 DEF Registry!TypeOK
<1>21. /\ disk' \in [ListedRun -> Registry!Status \cup {"none"}]
       /\ mtime' \in [ListedRun -> 0..timeBound]
  BY <1>1, <1>2 DEF Registry!TypeOK
<1>22. QED
  BY <1>3, <1>4, <1>6, <1>19, <1>20, <1>21, SoundAgain

\* A list that is not touched stays sound.
LEMMA ListStays ==
  ASSUME Registry!RegistryAssumption, RegistryInvariant
  PROVE  ListSound(runs, order)
<1>1. Registry!Cardinality(DOMAIN runs) = Cardinality(DOMAIN runs)
  BY SameCount
<1>2. QED
  BY <1>1, ListFacts DEF Registry!TypeOK, Registry!OrderIsRuns, ListSound

\* Runs that stop being under way leave room.
LEMMA FewerUnderWay ==
  ASSUME Registry!RegistryAssumption, RegistryInvariant,
         Registry!UnderWay' \in SUBSET Registry!UnderWay
  PROVE  FewUnderWay'
<1>1. /\ Registry!UnderWay \in SUBSET ListedRun
      /\ Cardinality(Registry!UnderWay) \in Nat
      /\ Cardinality(Registry!UnderWay) <= MaxActive
  BY ListFacts
<1>2. /\ Cardinality(Registry!UnderWay') <= Cardinality(Registry!UnderWay)
      /\ Cardinality(Registry!UnderWay') \in Nat
  BY <1>1, RunSets, FS_Subset
<1>3. MaxActive \in Nat
  BY HostAssumption
<1>4. Cardinality(Registry!UnderWay') <= MaxActive
  BY <1>1, <1>2, <1>3
<1>5. QED
  BY <1>4 DEF FewUnderWay

\* No run is listed at first.
LEMMA RegistryInit ==
  ASSUME Registry!RegistryAssumption, Registry!Init
  PROVE  RegistryInvariant
<1>1. Cardinality({}) = 0 /\ Registry!Cardinality({}) = 0
  BY SameCount, FS_EmptySet
<1>2. DOMAIN runs = {} /\ order = << >>
  BY DEF Registry!Init
<1>3. timeBound \in Nat /\ capacity \in Nat /\ MaxActive \in Nat
  BY DEF Registry!RegistryAssumption
<1>4. Registry!UnderWay = {}
  BY DEF Registry!Init, Registry!UnderWay
<1>5. Registry!TypeOK
  <2>1. order \in Seq(ListedRun)
    BY <1>2, EmptySeq
  <2>2. QED
    BY <1>1, <1>2, <1>3, <2>1 DEF Registry!Init, Registry!TypeOK, Registry!Status
<1>6. Registry!OrderIsRuns
  <2>1. DOMAIN order = {} /\ Len(order) = 0
    BY <1>2, EmptySeq
  <2>2. QED
    BY <1>1, <1>2, <2>1 DEF Registry!OrderIsRuns
<1>7. Registry!AbortReaches /\ Registry!NoGhosts
  BY <1>2 DEF Registry!Init, Registry!AbortReaches, Registry!NoGhosts
<1>8. FewUnderWay
  BY <1>1, <1>3, <1>4 DEF FewUnderWay
<1>9. QED
  BY <1>5, <1>6, <1>7, <1>8 DEF RegistryInvariant, Registry!RegistrySound

\* A manifest that is written changes no list.
LEMMA PersistKeeps ==
  ASSUME Registry!RegistryAssumption, RegistryInvariant, NEW r \in ListedRun,
         Registry!Persist(r)
  PROVE  RegistryInvariant'
<1>1. /\ now < timeBound /\ now' = now + 1
      /\ disk' = [disk EXCEPT ![r] = "running"]
      /\ mtime' = [mtime EXCEPT ![r] = now']
      /\ runs' = runs /\ order' = order /\ stage' = stage /\ asked' = asked
  BY DEF Registry!Persist, Registry!Tick, Registry!registry
<1>2. Registry!TypeOK /\ ShowsTruly(runs, stage)
  BY ListFacts
<1>3. now' \in 0..timeBound
  BY <1>1, <1>2 DEF Registry!TypeOK, Registry!RegistryAssumption
<1>4. /\ disk' \in [ListedRun -> Registry!Status \cup {"none"}]
      /\ mtime' \in [ListedRun -> 0..timeBound]
  BY <1>1, <1>2, <1>3 DEF Registry!TypeOK, Registry!Status
<1>5. ListSound(runs', order') /\ ShowsTruly(runs', stage')
  BY <1>1, <1>2, ListStays
<1>6. FewUnderWay'
  <2>1. Registry!UnderWay' = Registry!UnderWay
    BY <1>1 DEF Registry!UnderWay
  <2>2. QED
    BY <2>1, FewerUnderWay
<1>7. /\ stage' \in [ListedRun -> {"none", "executing", "completed", "aborted", "closed"}]
      /\ asked' \in SUBSET ListedRun
  BY <1>1, <1>2 DEF Registry!TypeOK
<1>8. QED
  BY <1>3, <1>4, <1>5, <1>6, <1>7, SoundAgain

\* The run that ends is shown with its outcome.
LEMMA EndKeeps ==
  ASSUME Registry!RegistryAssumption, RegistryInvariant, NEW r \in ListedRun,
         Registry!End(r)
  PROVE  RegistryInvariant'
<1>1. PICK ending \in {"completed", "aborted"} :
        /\ stage' = [stage EXCEPT ![r] = ending]
        /\ runs' = [q \in DOMAIN runs |->
                      IF q = r /\ runs[q].own THEN [runs[q] EXCEPT !.status = ending]
                      ELSE runs[q]]
  BY DEF Registry!End
<1>2. /\ stage[r] = "executing"
      /\ order' = order /\ asked' = asked /\ disk' = disk /\ mtime' = mtime /\ now' = now
  BY DEF Registry!End, Registry!manifests
<1>3. /\ Registry!TypeOK /\ ShowsTruly(runs, stage)
      /\ DOMAIN runs \in SUBSET ListedRun
      /\ \A q \in DOMAIN runs : runs[q] \in Registry!Handle
  BY ListFacts
<1>4. /\ stage' \in [ListedRun -> {"none", "executing", "completed", "aborted", "closed"}]
      /\ \A q \in ListedRun : stage'[q] = IF q = r THEN ending ELSE stage[q]
  BY <1>1, <1>3 DEF Registry!TypeOK
<1>5. /\ DOMAIN runs' = DOMAIN runs
      /\ \A q \in DOMAIN runs : q # r => runs'[q] = runs[q]
      /\ r \in DOMAIN runs /\ runs[r].own
      /\ runs'[r] = [runs[r] EXCEPT !.status = ending]
  BY <1>1, <1>2, <1>3 DEF ShowsTruly
<1>6. runs'[r] \in Registry!Handle /\ runs'[r].status = ending
  BY <1>3, <1>5 DEF Registry!Handle, Registry!Status
<1>7. ListSound(runs', order')
  <2>1. ListSound(runs, order)
    BY ListStays
  <2>2. \A q \in DOMAIN runs' : runs'[q] \in Registry!Handle
    BY <1>3, <1>5, <1>6
  <2>3. QED
    BY <1>2, <1>5, <2>1, <2>2 DEF ListSound
<1>8. ShowsTruly(runs', stage')
  <2>1. \A q \in DOMAIN runs' : runs'[q].status = "running" => stage'[q] = "executing"
    BY <1>3, <1>4, <1>5, <1>6 DEF ShowsTruly
  <2>2. \A q \in ListedRun : stage'[q] = "executing" =>
          q \in DOMAIN runs' /\ runs'[q].own /\ runs'[q].status = "running"
    BY <1>3, <1>4, <1>5 DEF ShowsTruly
  <2>3. QED
    BY <2>1, <2>2 DEF ShowsTruly
<1>9. FewUnderWay'
  <2>1. Registry!UnderWay' = Registry!UnderWay
    BY <1>2, <1>4 DEF Registry!UnderWay
  <2>2. QED
    BY <2>1, FewerUnderWay
<1>10. /\ asked' \in SUBSET ListedRun /\ now' \in 0..timeBound
       /\ disk' \in [ListedRun -> Registry!Status \cup {"none"}]
       /\ mtime' \in [ListedRun -> 0..timeBound]
  BY <1>2, <1>3 DEF Registry!TypeOK
<1>11. QED
  BY <1>4, <1>7, <1>8, <1>9, <1>10, SoundAgain

\* The run whose details are closed has ended before.
LEMMA CloseKeeps ==
  ASSUME Registry!RegistryAssumption, RegistryInvariant, NEW r \in ListedRun,
         Registry!Close(r)
  PROVE  RegistryInvariant'
<1>1. /\ stage[r] \in {"completed", "aborted"}
      /\ now < timeBound /\ now' = now + 1
      /\ stage' = [stage EXCEPT ![r] = "closed"]
      /\ disk' = [disk EXCEPT ![r] = stage[r]]
      /\ mtime' = [mtime EXCEPT ![r] = now']
      /\ runs' = runs /\ order' = order /\ asked' = asked
  BY DEF Registry!Close, Registry!Tick, Registry!registry
<1>2. /\ Registry!TypeOK /\ ShowsTruly(runs, stage) /\ DOMAIN runs \in SUBSET ListedRun
  BY ListFacts
<1>3. now' \in 0..timeBound
  BY <1>1, <1>2 DEF Registry!TypeOK, Registry!RegistryAssumption
<1>4. /\ disk' \in [ListedRun -> Registry!Status \cup {"none"}]
      /\ mtime' \in [ListedRun -> 0..timeBound]
  BY <1>1, <1>2, <1>3 DEF Registry!TypeOK, Registry!Status
<1>5. /\ stage' \in [ListedRun -> {"none", "executing", "completed", "aborted", "closed"}]
      /\ \A q \in ListedRun : stage'[q] = IF q = r THEN "closed" ELSE stage[q]
  BY <1>1, <1>2 DEF Registry!TypeOK
<1>6. ListSound(runs', order')
  BY <1>1, ListStays
<1>7. ShowsTruly(runs', stage')
  BY <1>1, <1>2, <1>5 DEF ShowsTruly
<1>8. FewUnderWay'
  <2>1. Registry!UnderWay' \in SUBSET Registry!UnderWay
    BY <1>5 DEF Registry!UnderWay
  <2>2. QED
    BY <2>1, FewerUnderWay
<1>9. asked' \in SUBSET ListedRun
  BY <1>1, <1>2 DEF Registry!TypeOK
<1>10. QED
  BY <1>3, <1>4, <1>5, <1>6, <1>7, <1>8, <1>9, SoundAgain

\* The next process starts with an empty list and no run.
LEMMA CrashKeeps ==
  ASSUME Registry!RegistryAssumption, RegistryInvariant, Registry!Crash
  PROVE  RegistryInvariant'
<1>1. /\ DOMAIN runs' = {} /\ order' = << >>
      /\ stage' = [q \in ListedRun |-> "none"] /\ asked' = {}
      /\ disk' = disk /\ mtime' = mtime /\ now' = now
  BY DEF Registry!Crash, Registry!manifests
<1>2. Registry!TypeOK
  BY ListFacts
<1>3. ListSound(runs', order')
  <2>1. order' \in Seq(ListedRun) /\ DOMAIN order' = {} /\ Len(order') = 0
    BY <1>1, EmptySeq
  <2>2. Cardinality({}) = 0 /\ capacity \in Nat
    BY FS_EmptySet DEF Registry!RegistryAssumption
  <2>3. QED
    BY <1>1, <2>1, <2>2 DEF ListSound
<1>4. ShowsTruly(runs', stage')
  BY <1>1 DEF ShowsTruly
<1>5. FewUnderWay'
  <2>1. Registry!UnderWay' = {}
    BY <1>1 DEF Registry!UnderWay
  <2>2. QED
    BY <2>1, FewerUnderWay
<1>6. /\ stage' \in [ListedRun -> {"none", "executing", "completed", "aborted", "closed"}]
      /\ asked' \in SUBSET ListedRun /\ now' \in 0..timeBound
      /\ disk' \in [ListedRun -> Registry!Status \cup {"none"}]
      /\ mtime' \in [ListedRun -> 0..timeBound]
  BY <1>1, <1>2 DEF Registry!TypeOK
<1>7. QED
  BY <1>3, <1>4, <1>5, <1>6, SoundAgain

\* `/workflows abort' asks; the runs end later.
LEMMA AbortAllKeeps ==
  ASSUME Registry!RegistryAssumption, RegistryInvariant, Registry!AbortAll
  PROVE  RegistryInvariant'
<1>1. /\ asked' = asked \cup {q \in DOMAIN runs : runs[q].status = "running" /\ runs[q].own}
      /\ runs' = runs /\ order' = order /\ stage' = stage
      /\ disk' = disk /\ mtime' = mtime /\ now' = now
  BY DEF Registry!AbortAll, Registry!manifests, Registry!registry
<1>2. Registry!TypeOK /\ ShowsTruly(runs, stage) /\ DOMAIN runs \in SUBSET ListedRun
  BY ListFacts
<1>3. ListSound(runs', order') /\ ShowsTruly(runs', stage')
  BY <1>1, <1>2, ListStays
<1>4. FewUnderWay'
  <2>1. Registry!UnderWay' = Registry!UnderWay
    BY <1>1 DEF Registry!UnderWay
  <2>2. QED
    BY <2>1, FewerUnderWay
<1>5. /\ stage' \in [ListedRun -> {"none", "executing", "completed", "aborted", "closed"}]
      /\ asked' \in SUBSET ListedRun /\ now' \in 0..timeBound
      /\ disk' \in [ListedRun -> Registry!Status \cup {"none"}]
      /\ mtime' \in [ListedRun -> 0..timeBound]
  BY <1>1, <1>2 DEF Registry!TypeOK
<1>6. QED
  BY <1>3, <1>4, <1>5, SoundAgain

\* The manifests that are restored are put behind the list, each once.
LEMMA RestoredList ==
  ASSUME Registry!RegistryAssumption, Registry!TypeOK, Registry!OrderIsRuns,
         NEW restored \in SUBSET ListedRun, restored \cap DOMAIN runs = {},
         NEW added \in [1..Cardinality(restored) -> restored],
         \A i, k \in DOMAIN added : i < k => added[i] # added[k]
  PROVE  /\ Len(order) \in Nat /\ Len(added) \in Nat
         /\ OneEach(order \o added, 1..(Len(order) + Len(added)), DOMAIN runs \cup restored)
<1> DEFINE m == Cardinality(restored)
           n == Len(order)
           list == order \o added
<1>1. IsFiniteSet(restored) /\ m \in Nat
  BY RunSets
<1>2. added \in [1..m -> restored] /\ \A i, k \in 1..m : i < k => added[i] # added[k]
  OBVIOUS
<1>3. /\ n \in Nat
      /\ \A i \in 1..n : order[i] \in DOMAIN runs
      /\ OneEach(order, 1..n, DOMAIN runs)
  BY OnePlace
<1>4. order \in Seq(ListedRun)
  BY DEF Registry!TypeOK
<1>5. added \in Seq(ListedRun) /\ Len(added) = m
  <2>1. added \in [1..m -> ListedRun]
    BY <1>2
  <2>2. added \in Seq(ListedRun)
    BY <1>1, <2>1, IsASeq
  <2>3. QED
    BY <1>1, <2>1, <2>2, LenProperties
<1>6. \A i \in 1..(n + m) : list[i] = IF i <= n THEN order[i] ELSE added[i - n]
  BY <1>4, <1>5, ConcatProperties
<1> HIDE DEF m, n, list
<1>7. \A i \in 1..(n + m) : i \notin 1..n => i - n \in 1..m
  BY <1>1, <1>3
<1>8. \A i \in 1..m : n + i \in 1..(n + m) /\ n + i \notin 1..n /\ (n + i) - n = i
  BY <1>1, <1>3
<1>9. \A i \in 1..n : i \in 1..(n + m) /\ i <= n
  BY <1>1, <1>3
<1>10. \A i \in 1..(n + m) : i \notin 1..n => list[i] = added[i - n]
  BY <1>1, <1>3, <1>6
<1>11. \A i \in 1..n : list[i] = order[i]
  BY <1>6, <1>9
<1>12. \A i, k \in 1..m : added[i] = added[k] => i = k
  BY <1>1, <1>2
<1>13. \A q \in restored : \E i \in 1..m : added[i] = q
  <2>1. added \in Injection(1..m, restored)
    BY <1>2, <1>12 DEF Injection, IsInjective
  <2>2. Cardinality(1..m) = m
    BY <1>1, FS_Interval
  <2>3. added \in Surjection(1..m, restored)
    BY <1>1, <2>1, <2>2, FS_Injection DEF m
  <2>4. QED
    BY <2>3 DEF Surjection
<1>14. \A i, k \in 1..(n + m) : list[i] = list[k] => i = k
  <2>1. SUFFICES ASSUME NEW i \in 1..(n + m), NEW k \in 1..(n + m), list[i] = list[k]
                 PROVE  i = k
    OBVIOUS
  <2>2. CASE i \in 1..n /\ k \in 1..n
    BY <1>3, <1>11, <2>1, <2>2 DEF OneEach
  <2>3. CASE i \notin 1..n /\ k \notin 1..n
    <3>1. i - n \in 1..m /\ k - n \in 1..m
      BY <1>7, <2>3
    <3>2. added[i - n] = added[k - n]
      BY <1>10, <2>1, <2>3
    <3>3. i - n = k - n
      BY <1>12, <3>1, <3>2
    <3>4. QED
      BY <1>1, <1>3, <3>3
  <2>4. CASE i \in 1..n /\ k \notin 1..n
    <3>1. list[i] \in DOMAIN runs /\ list[k] \in restored
      BY <1>2, <1>3, <1>7, <1>10, <1>11, <2>4
    <3>2. QED
      BY <2>1, <3>1
  <2>5. CASE i \notin 1..n /\ k \in 1..n
    <3>1. list[k] \in DOMAIN runs /\ list[i] \in restored
      BY <1>2, <1>3, <1>7, <1>10, <1>11, <2>5
    <3>2. QED
      BY <2>1, <3>1
  <2>6. QED
    BY <2>2, <2>3, <2>4, <2>5
<1>15. \A q \in DOMAIN runs \cup restored : \E i \in 1..(n + m) : list[i] = q
  <2>1. SUFFICES ASSUME NEW q \in DOMAIN runs \cup restored
                 PROVE  \E i \in 1..(n + m) : list[i] = q
    OBVIOUS
  <2>2. CASE q \in DOMAIN runs
    <3>1. PICK i \in 1..n : order[i] = q
      BY <1>3, <2>2 DEF OneEach
    <3>2. QED
      BY <1>9, <1>11, <3>1
  <2>3. CASE q \in restored
    <3>1. PICK i \in 1..m : added[i] = q
      BY <1>13, <2>3
    <3>2. n + i \in 1..(n + m) /\ list[n + i] = added[i]
      BY <1>8, <1>10
    <3>3. QED
      BY <3>1, <3>2
  <2>4. QED
    BY <2>1, <2>2, <2>3
<1>16. QED
  BY <1>1, <1>3, <1>5, <1>14, <1>15 DEF OneEach, n, m, list

\* A run that is restored has not been listed, and is not shown as running.
LEMMA RestoreKeeps ==
  ASSUME Registry!RegistryAssumption, RegistryInvariant, Registry!RestoreRuns
  PROVE  RegistryInvariant'
<1>1. PICK s \in Registry!Newest :
        LET restored == Registry!Unlisted(s)
            interrupted == {r \in restored : disk[r] = "running"}
            handle(r) == [status |-> Registry!RestoredStatus(r), startedAt |-> mtime'[r],
                          own |-> FALSE]
        IN  /\ restored # {}
            /\ IF interrupted = {} THEN UNCHANGED now ELSE Registry!Tick
            /\ disk' = [r \in ListedRun |-> IF r \in interrupted THEN Registry!RestoredStatus(r)
                                            ELSE disk[r]]
            /\ mtime' = [r \in ListedRun |-> IF r \in interrupted THEN now' ELSE mtime[r]]
            /\ \E added \in [1..Registry!Cardinality(restored) -> restored] :
                 /\ \A i, k \in DOMAIN added :
                      i < k => added[i] # added[k] /\ mtime[added[i]] <= mtime[added[k]]
                 /\ Registry!Trimmed(Registry!Extended(runs, restored, handle), order \o added,
                                     1..(Len(order) + Len(added)))
            /\ UNCHANGED <<stage, asked>>
  BY DEF Registry!RestoreRuns
<1> DEFINE restored == Registry!Unlisted(s)
           interrupted == {r \in restored : disk[r] = "running"}
           handle(r) == [status |-> Registry!RestoredStatus(r), startedAt |-> mtime'[r],
                         own |-> FALSE]
           h == [r \in DOMAIN runs \cup restored |-> IF r \in restored THEN handle(r) ELSE runs[r]]
<1>2. PICK added \in [1..Cardinality(restored) -> restored] :
        /\ \A i, k \in DOMAIN added : i < k => added[i] # added[k]
        /\ Registry!Trimmed(h, order \o added, 1..(Len(order) + Len(added)))
  BY <1>1, SameCount DEF Registry!Extended
<1>3. /\ IF interrupted = {} THEN now' = now ELSE now < timeBound /\ now' = now + 1
      /\ disk' = [r \in ListedRun |-> IF r \in interrupted THEN Registry!RestoredStatus(r)
                                      ELSE disk[r]]
      /\ mtime' = [r \in ListedRun |-> IF r \in interrupted THEN now' ELSE mtime[r]]
      /\ stage' = stage /\ asked' = asked
  BY <1>1 DEF Registry!Tick
<1>4. /\ Registry!TypeOK /\ Registry!OrderIsRuns
      /\ DOMAIN runs \in SUBSET ListedRun
      /\ \A r \in DOMAIN runs : runs[r] \in Registry!Handle
      /\ ShowsTruly(runs, stage)
  BY ListFacts
<1>5. /\ restored \in SUBSET ListedRun /\ restored \cap DOMAIN runs = {}
      /\ \A r \in restored : disk[r] # "none"
  BY <1>1 DEF Registry!Newest, Registry!Unlisted
<1>6. \A r \in restored : Registry!RestoredStatus(r) \in {"completed", "aborted"}
  BY <1>4, <1>5 DEF Registry!TypeOK, Registry!Status, Registry!RestoredStatus
<1>7. now' \in 0..timeBound
  BY <1>3, <1>4 DEF Registry!TypeOK, Registry!RegistryAssumption
<1>8. mtime' \in [ListedRun -> 0..timeBound]
  BY <1>3, <1>4, <1>7 DEF Registry!TypeOK
<1>9. disk' \in [ListedRun -> Registry!Status \cup {"none"}]
  BY <1>3, <1>4, <1>6 DEF Registry!TypeOK, Registry!Status
<1>10. /\ DOMAIN h = DOMAIN runs \cup restored
       /\ \A r \in DOMAIN runs : h[r] = runs[r]
       /\ \A r \in restored : h[r] = handle(r)
  BY <1>5
<1>11. \A r \in restored : h[r] \in Registry!Handle /\ h[r].status # "running"
  BY <1>5, <1>6, <1>8, <1>10 DEF Registry!Handle, Registry!Status
<1> HIDE DEF h, restored, interrupted, handle
<1>12. \A r \in DOMAIN h : h[r] \in Registry!Handle
  BY <1>4, <1>10, <1>11
<1>13. DOMAIN h \in SUBSET ListedRun
  BY <1>4, <1>5, <1>10
<1>14. ShowsTruly(h, stage')
  BY <1>3, <1>4, <1>10, <1>11 DEF ShowsTruly
<1>15. /\ Len(order) \in Nat /\ Len(added) \in Nat
       /\ OneEach(order \o added, 1..(Len(order) + Len(added)), DOMAIN runs \cup restored)
  BY <1>2, <1>4, <1>5, RestoredList
<1>16. FewUnderWay'
  <2>1. Registry!UnderWay' = Registry!UnderWay
    BY <1>3 DEF Registry!UnderWay
  <2>2. QED
    BY <2>1, FewerUnderWay
<1>17. ListSound(runs', order') /\ ShowsTruly(runs', stage')
  <2> DEFINE n == Len(order) + Len(added)
             list == order \o added
             places == 1..n
  <2>1. n \in Nat /\ places \in SUBSET (1..n)
    BY <1>15
  <2>2. OneEach(list, places, DOMAIN h) /\ Registry!Trimmed(h, list, places)
    BY <1>2, <1>10, <1>15
  <2> HIDE DEF n, list, places
  <2>3. QED
    BY <1>12, <1>13, <1>14, <1>16, <2>1, <2>2, TrimmedIsSound
<1>18. /\ stage' \in [ListedRun -> {"none", "executing", "completed", "aborted", "closed"}]
       /\ asked' \in SUBSET ListedRun
  BY <1>3, <1>4 DEF Registry!TypeOK
<1>19. QED
  BY <1>7, <1>8, <1>9, <1>16, <1>17, <1>18, SoundAgain

\* A stuttering step changes nothing.
LEMMA RegistryStutter ==
  ASSUME Registry!RegistryAssumption, RegistryInvariant, UNCHANGED Registry!vars
  PROVE  RegistryInvariant'
<1>1. /\ runs' = runs /\ order' = order /\ stage' = stage /\ asked' = asked
      /\ disk' = disk /\ mtime' = mtime /\ now' = now
  BY DEF Registry!vars, Registry!registry, Registry!manifests
<1>2. Registry!TypeOK /\ ShowsTruly(runs, stage)
  BY ListFacts
<1>3. ListSound(runs', order') /\ ShowsTruly(runs', stage')
  BY <1>1, <1>2, ListStays
<1>4. FewUnderWay'
  <2>1. Registry!UnderWay' = Registry!UnderWay
    BY <1>1 DEF Registry!UnderWay
  <2>2. QED
    BY <2>1, FewerUnderWay
<1>5. /\ stage' \in [ListedRun -> {"none", "executing", "completed", "aborted", "closed"}]
      /\ asked' \in SUBSET ListedRun /\ now' \in 0..timeBound
      /\ disk' \in [ListedRun -> Registry!Status \cup {"none"}]
      /\ mtime' \in [ListedRun -> 0..timeBound]
  BY <1>1, <1>2 DEF Registry!TypeOK
<1>6. QED
  BY <1>3, <1>4, <1>5, SoundAgain

\* The list stays sound, and the runs under way few, whatever is registered, restored,
\* aborted or lost with the process: trimRuns() never takes a run that can be aborted.
THEOREM RegistryHolds ==
  ASSUME Registry!RegistryAssumption
  PROVE  Registry!Spec => []RegistryInvariant
<1>1. Registry!Init => RegistryInvariant
  BY RegistryInit
<1>2. RegistryInvariant /\ [Registry!Next]_(Registry!vars) => RegistryInvariant'
  <2>1. SUFFICES ASSUME RegistryInvariant, [Registry!Next]_(Registry!vars)
                 PROVE  RegistryInvariant'
    OBVIOUS
  <2>2. ASSUME NEW r \in ListedRun, Registry!Register(r) PROVE RegistryInvariant'
    BY <2>1, <2>2, RegisterKeeps
  <2>3. ASSUME NEW r \in ListedRun, Registry!Persist(r) PROVE RegistryInvariant'
    BY <2>1, <2>3, PersistKeeps
  <2>4. ASSUME NEW r \in ListedRun, Registry!End(r) PROVE RegistryInvariant'
    BY <2>1, <2>4, EndKeeps
  <2>5. ASSUME NEW r \in ListedRun, Registry!Close(r) PROVE RegistryInvariant'
    BY <2>1, <2>5, CloseKeeps
  <2>6. CASE Registry!Crash
    BY <2>1, <2>6, CrashKeeps
  <2>7. CASE Registry!RestoreRuns
    BY <2>1, <2>7, RestoreKeeps
  <2>8. CASE Registry!AbortAll
    BY <2>1, <2>8, AbortAllKeeps
  <2>9. CASE UNCHANGED Registry!vars
    BY <2>1, <2>9, RegistryStutter
  <2>10. QED
    BY <2>1, <2>2, <2>3, <2>4, <2>5, <2>6, <2>7, <2>8, <2>9 DEF Registry!Next
<1>3. QED
  BY <1>1, <1>2, PTL DEF Registry!Spec

\* Every run under way is listed with its own abort(), nothing else is shown as running,
\* and each handle is listed once.
THEOREM ListCorrect ==
  ASSUME Registry!RegistryAssumption
  PROVE  Registry!Spec => []RegistrySound
<1>1. RegistryInvariant => RegistrySound
  BY DEF RegistryInvariant, RegistrySound
<1>2. QED
  BY <1>1, RegistryHolds, PTL
=============================================================================
