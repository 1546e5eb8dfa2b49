---------------------------- MODULE AgentProofs ----------------------------
(***************************************************************************)
(* Proofs about agent calls: how the calls of a run wait for each other    *)
(* (AgentScheduling), for every set of batches and every number of         *)
(* permits; what one call does with its session (AgentSession), for every  *)
(* number of events; and what the journal keeps of the calls of a panel    *)
(* (PanelLedger), for every script.  The calls queue at the execution      *)
(* gate, so the first part builds upon the invariant of                    *)
(* ExecutionGateProofs; the panels reserve slots, so the last one builds   *)
(* upon that of AdmissionProofs.                                           *)
(***************************************************************************)
EXTENDS AgentCalls, PanelLedger, FiniteSetTheorems, SequenceTheorems, TLAPS

GP == INSTANCE ExecutionGateProofs WITH Waiter <- Agent

----------------------------------------------------------------------------
(***************************************************************************)
(* The gate, as the calls use it.  Two instances of the gate's module are  *)
(* at hand, that of AgentScheduling and that of the proofs; each brings    *)
(* its own copy of the operators on finite sets.                           *)
(***************************************************************************)
\* Finiteness means the same in the gate's proofs and here.
LEMMA SameFinite == ASSUME NEW S PROVE GP!IsFiniteSet(S) <=> IsFiniteSet(S)
BY DEF GP!IsFiniteSet, IsFiniteSet

\* Cardinality means the same in the gate's proofs and here.
LEMMA SameCardinality == ASSUME NEW S PROVE GP!Cardinality(S) = Cardinality(S)
BY DEF GP!Cardinality, Cardinality, GP!IsFiniteSet, IsFiniteSet

\* The gate that the calls use pumps as the gate of the proofs does.
LEMMA SamePump ==
  ASSUME NEW q, NEW st, NEW rd, NEW used, Gate!Pump(q, st, rd, used)
  PROVE  GP!Pump(q, st, rd, used)
<1>1. ASSUME NEW S PROVE GP!Cardinality(S) = Gate!Cardinality(S)
  BY DEF GP!Cardinality, Gate!Cardinality, GP!IsFiniteSet, Gate!IsFiniteSet
<1>2. QED
  BY <1>1 DEF Gate!Pump, GP!Pump, Gate!PumpStops, GP!PumpStops, Gate!Taken, GP!Taken

----------------------------------------------------------------------------
(***************************************************************************)
(* The invariant of the calls.                                             *)
(***************************************************************************)
\* The call has something of the gate: a place in the queue or a permit.
Engaged(a) == state[a] \in {"queued", "held"}

CallTypes ==
  /\ hooks \in BOOLEAN
  /\ stage \in [Agent -> Stages]
  /\ member \in [Agent -> {"pending", "asked", "skipped"}]
  /\ selection \in [Batches -> {"open", "sealed", "asking", "answered", "failed"}]
  /\ answer \in [Batches -> SUBSET Agent]
  /\ effort \in [Agent -> {"inherited", "selected"}]
  /\ models \in {"unset", "starting", "up"}

\* A call answers its batch on the way to the gate, waits for an initialisation
\* that is under way, and has closed its scope once it is over.
CallsConsistent ==
  \A a \in Agent :
    /\ stage[a] \in {"choosing", "chosen"} \/ Engaged(a) => member[a] # "pending"
    /\ stage[a] = "initialising" => models # "unset"
    /\ stage[a] = "over" => ~scopeOpen[a]

\* An answer is for members that asked, and it is given once: an effort is
\* applied only when the selection has ended.
AnswersInBatch ==
  \A b \in Batches : \A a \in answer[b] : a \in b /\ member[a] = "asked"

EffortsFixed ==
  \A a \in Agent : effort[a] = "selected" =>
    a \in answer[BatchOf(a)] /\ selection[BatchOf(a)] = "answered"

SchedulingInvariant ==
  /\ GP!GateInvariant
  /\ CallTypes
  /\ CallsConsistent
  /\ AnswersInBatch
  /\ EffortsFixed

\* Every call belongs to the batch that BatchOf() finds for it.
LEMMA BatchLemma ==
  ASSUME NEW a \in Agent
  PROVE  BatchOf(a) \in Batches /\ a \in BatchOf(a)
BY DEF BatchOf, Agent

\* The types of the gate's variables, from its invariant.
LEMMA GateTypes ==
  ASSUME GP!GateInvariant
  PROVE  /\ state \in [Agent -> {"new", "queued", "held", "released"}]
         /\ fiber \in [Agent -> {"idle", "awaiting", "using", "done"}]
         /\ scopeOpen \in [Agent -> BOOLEAN]
         /\ closed \in BOOLEAN
BY DEF GP!GateInvariant, GP!TypeOK

\* Every step of the gate preserves the gate's invariant.
LEMMA GateStep ==
  ASSUME GP!GateInvariant, [GP!Next]_(GP!vars)
  PROVE  GP!GateInvariant'
BY SchedulingAssumption, GP!InvariantStep, SameFinite DEF GP!GateAssumption

\* A request keeps the gate consistent and engages nobody but the newcomer:
\* whoever it lets through was in the queue.
LEMMA RequestFrame ==
  ASSUME GP!GateInvariant, NEW a \in Agent, Gate!RequestOpen(a)
  PROVE  /\ GP!GateInvariant'
         /\ UNCHANGED <<closed, scopeOpen>>
         /\ \A w \in Agent : Engaged(w)' => w = a \/ Engaged(w)
<1>1. GP!RequestOpen(a)
  BY SamePump DEF Gate!RequestOpen, GP!RequestOpen
<1>2. GP!GateInvariant'
  BY <1>1, GateStep DEF GP!Next
<1>3. ASSUME NEW w \in Agent, Engaged(w)', w # a
      PROVE  Engaged(w)
  BY <1>3, GateTypes DEF Engaged, Gate!RequestOpen, Gate!Pump, Gate!Taken
<1>4. QED
  BY <1>2, <1>3 DEF Gate!RequestOpen

\* A fiber that wakes changes no waiter's state.
LEMMA ResumeFrame ==
  ASSUME GP!GateInvariant, NEW a \in Agent, Gate!Resume(a)
  PROVE  GP!GateInvariant' /\ UNCHANGED <<closed, scopeOpen, state>>
<1>1. GP!Resume(a)
  BY DEF Gate!Resume, GP!Resume, Gate!CheckOpen, GP!CheckOpen
<1>2. QED
  BY <1>1, GateStep DEF GP!Next, Gate!Resume

\* A scope that closes keeps the gate consistent and engages nobody.
LEMMA CloseScopeFrame ==
  ASSUME GP!GateInvariant, NEW a \in Agent, Gate!CloseScope(a)
  PROVE  /\ GP!GateInvariant'
         /\ UNCHANGED closed
         /\ scopeOpen' = [scopeOpen EXCEPT ![a] = FALSE]
         /\ \A w \in Agent : Engaged(w)' => Engaged(w)
<1>1. GP!CloseScope(a)
  BY SamePump DEF Gate!CloseScope, GP!CloseScope, Gate!Release, GP!Release, Gate!Fail,
    GP!Fail
<1>2. GP!GateInvariant'
  BY <1>1, GateStep DEF GP!Next
<1>3. ASSUME NEW w \in Agent, Engaged(w)'
      PROVE  Engaged(w)
  BY <1>3, GateTypes DEF Engaged, Gate!CloseScope, Gate!Release, Gate!Pump, Gate!Taken
<1>4. QED
  BY <1>2, <1>3 DEF Gate!CloseScope

\* close() keeps the gate consistent and engages nobody.
LEMMA CloseFrame ==
  ASSUME GP!GateInvariant, Gate!Close
  PROVE  /\ GP!GateInvariant'
         /\ UNCHANGED scopeOpen
         /\ \A w \in Agent : Engaged(w)' => Engaged(w)
<1>1. GP!Close
  BY DEF Gate!Close, GP!Close
<1>2. GP!GateInvariant'
  BY <1>1, GateStep DEF GP!Next
<1>3. QED
  BY <1>2, GateTypes DEF Engaged, Gate!Close

\* A step that leaves the gate alone keeps its invariant.
LEMMA GateFrame ==
  ASSUME GP!GateInvariant, UNCHANGED gateVars
  PROVE  /\ GP!GateInvariant'
         /\ UNCHANGED <<closed, scopeOpen>>
         /\ \A w \in Agent : Engaged(w)' => Engaged(w)
<1>1. UNCHANGED GP!vars
  BY DEF gateVars, GP!vars
<1>2. QED
  BY <1>1, GateStep DEF gateVars, Engaged

\* The invariant holds before any call has started.
LEMMA SchedulingInit == Init => SchedulingInvariant
<1> SUFFICES ASSUME Init PROVE SchedulingInvariant
  OBVIOUS
<1>1. GP!GateInvariant
  <2>1. GP!Init
    BY DEF Init, Gate!Init, GP!Init
  <2>2. GP!GateAssumption
    BY SchedulingAssumption, SameFinite DEF GP!GateAssumption
  <2>3. QED
    BY <2>1, <2>2, GP!InitInvariant
<1>2. CallTypes
  BY DEF Init, CallTypes, Stages
<1>3. CallsConsistent
  BY DEF Init, CallsConsistent, Engaged, Gate!Init
<1>4. AnswersInBatch /\ EffortsFixed
  BY DEF Init, AnswersInBatch, EffortsFixed
<1>5. QED
  BY <1>1, <1>2, <1>3, <1>4 DEF SchedulingInvariant

\* No step of a call breaks the invariant, whatever the other calls, the
\* batches and the gate are doing.
LEMMA CallLemma ==
  ASSUME SchedulingInvariant, NEW a \in Agent, CallStep(a)
  PROVE  SchedulingInvariant'
<1> USE DEF SchedulingInvariant, CallTypes, Stages, Goto, Submit, batchVars
<1>1. CASE StartWithoutRun(a)
  BY <1>1, GateFrame DEF StartWithoutRun, CallsConsistent, AnswersInBatch, EffortsFixed
<1>2. CASE StartHooked(a)
  BY <1>2, GateFrame DEF StartHooked, CallsConsistent, AnswersInBatch, EffortsFixed
<1>3. CASE StartUnhooked(a)
  BY <1>3, RequestFrame DEF StartUnhooked, CallsConsistent, AnswersInBatch, EffortsFixed
<1>4. CASE LeaveModels(a)
  BY <1>4, GateFrame DEF LeaveModels, CallsConsistent, AnswersInBatch, EffortsFixed
<1>5. CASE CreateFails(a)
  BY <1>5, GateFrame DEF CreateFails, CallsConsistent, AnswersInBatch, EffortsFixed
<1>6. CASE SingleLevel(a)
  BY <1>6, GateFrame DEF SingleLevel, CallsConsistent, AnswersInBatch, EffortsFixed
<1>7. CASE AskEffort(a)
  BY <1>7, GateFrame DEF AskEffort, CallsConsistent, AnswersInBatch, EffortsFixed
<1>8. CASE Joined(a)
  BY <1>8, GateFrame, BatchLemma DEF Joined, CallsConsistent, AnswersInBatch, EffortsFixed
<1>9. CASE Acquire(a)
  BY <1>9, GateFrame, RequestFrame DEF Acquire, CallsConsistent, AnswersInBatch,
    EffortsFixed
<1>10. CASE Acquired(a)
  BY <1>10, ResumeFrame DEF Acquired, CallsConsistent, AnswersInBatch, EffortsFixed,
    Engaged
<1>11. CASE WorkEnds(a)
  BY <1>11, GateFrame DEF WorkEnds, CallsConsistent, AnswersInBatch, EffortsFixed
<1>12. CASE End(a)
  <2>1. /\ GP!GateInvariant' /\ CallTypes' /\ closed' = closed
        /\ scopeOpen' = [scopeOpen EXCEPT ![a] = FALSE]
        /\ scopeOpen \in [Agent -> BOOLEAN]
        /\ \A w \in Agent : Engaged(w)' => Engaged(w)
    BY <1>12, CloseScopeFrame, GateTypes DEF End
  <2>2. CallsConsistent'
    BY <1>12, <2>1 DEF End, CallsConsistent
  <2>3. QED
    BY <1>12, <2>1, <2>2 DEF End, AnswersInBatch, EffortsFixed
<1>13. QED
  BY <1>1, <1>2, <1>3, <1>4, <1>5, <1>6, <1>7, <1>8, <1>9, <1>10, <1>11, <1>12
    DEF CallStep

\* No step of a batch breaks the invariant: what a member submitted stays.
LEMMA BatchStepLemma ==
  ASSUME SchedulingInvariant, NEW b \in Batches, BatchStep(b)
  PROVE  SchedulingInvariant'
<1> USE GateFrame DEF SchedulingInvariant, CallTypes, CallsConsistent, AnswersInBatch,
  EffortsFixed
<1>1. CASE Seal(b)
  BY <1>1 DEF Seal
<1>2. CASE AskSelector(b)
  BY <1>2 DEF AskSelector
<1>3. CASE Answer(b)
  BY <1>3, BatchLemma DEF Answer, Agent
<1>4. QED
  BY <1>1, <1>2, <1>3 DEF BatchStep

\* Every step of the calls, and every stutter, preserves the invariant.
LEMMA SchedulingStep == SchedulingInvariant /\ [Next]_vars => SchedulingInvariant'
<1> SUFFICES ASSUME SchedulingInvariant, [Next]_vars PROVE SchedulingInvariant'
  OBVIOUS
<1> USE DEF SchedulingInvariant, CallTypes, CallsConsistent, AnswersInBatch, EffortsFixed
<1>1. ASSUME NEW a \in Agent, CallStep(a) PROVE SchedulingInvariant'
  BY <1>1, CallLemma
<1>2. ASSUME NEW b \in Batches, BatchStep(b) PROVE SchedulingInvariant'
  BY <1>2, BatchStepLemma
<1>3. CASE ModelsUp
  BY <1>3, GateFrame DEF ModelsUp, batchVars
<1>4. CASE ModelsFail
  BY <1>4, GateFrame DEF ModelsFail, batchVars, Stages
<1>5. CASE Abort
  BY <1>5, CloseFrame DEF Abort
<1>6. CASE UNCHANGED vars
  BY <1>6, GateFrame DEF vars, gateVars
<1>7. QED
  BY <1>1, <1>2, <1>3, <1>4, <1>5, <1>6 DEF Next, Settled

\* The inductive invariant of the agent calls.
THEOREM SchedulingCorrect == Spec => []SchedulingInvariant
  BY SchedulingInit, SchedulingStep, PTL DEF Spec

\* No call queues for a permit, or holds one, that its batch still waits for; nobody
\* waits for a model runtime that nobody initialises; and every permit comes
\* back, whichever way the calls end.
THEOREM NobodyWaits == Spec => []NobodyWaitsInVain
<1>1. ASSUME SchedulingInvariant PROVE NobodyWaitsInVain
  <2> USE <1>1 DEF SchedulingInvariant
  <2>1. TypeOK
    BY DEF TypeOK, CallTypes, Gate!TypeOK, GP!GateInvariant, GP!TypeOK
  <2>2. AnswersBeforeAcquiring /\ WaitersHaveModels
    BY DEF CallsConsistent, AnswersBeforeAcquiring, WaitersHaveModels, Engaged
  <2>3. PermitsReturned
    <3>1. SUFFICES ASSUME \A a \in Agent : stage[a] = "over" PROVE active = 0
      BY DEF PermitsReturned
    <3>2. GP!Held = {}
      BY <3>1 DEF CallsConsistent, GP!GateInvariant, GP!Consistent, GP!Held
    <3>3. active = Cardinality({})
      BY <3>2, SameCardinality DEF GP!GateInvariant, GP!ActiveCountsHolders
    <3>4. QED
      BY <3>3, FS_EmptySet
  <2>4. QED
    BY <2>1, <2>2, <2>3 DEF NobodyWaitsInVain
<1>2. QED
  BY <1>1, SchedulingCorrect, PTL

\* createJevBatch applies an effort only to a session that asked, and only the
\* effort of the batch's one answer.
THEOREM EffortsCorrect == Spec => []EffortsAsAsked
<1>1. ASSUME SchedulingInvariant PROVE EffortsAsAsked
  BY <1>1, BatchLemma DEF SchedulingInvariant, AnswersInBatch, EffortsFixed,
    EffortsAsAsked
<1>2. QED
  BY <1>1, SchedulingCorrect, PTL

\* After an abort no selector is asked, no effort is applied and no session
\* starts to run.
THEOREM QuietCorrect == Spec => QuietAfterAbort
<1> DEFINE Quiet ==
      closed => /\ \A b \in Batches : selection'[b] = "asking" => selection[b] = "asking"
                /\ effort' = effort
                /\ \A a \in Agent : stage'[a] = "running" => stage[a] = "running"
<1>1. ASSUME SchedulingInvariant, [Next]_vars PROVE [Quiet]_vars
  <2>1. SUFFICES ASSUME closed, Next PROVE Quiet
    BY <1>1 DEF vars
  <2> USE <1>1, <2>1 DEF SchedulingInvariant, CallTypes, Goto
  <2>2. ASSUME NEW a \in Agent, CallStep(a) PROVE Quiet
    <3>1. CASE Joined(a)
      BY <3>1 DEF Joined, batchVars
    <3>2. CASE Acquired(a)
      BY <3>2, GateTypes DEF Acquired, batchVars, Gate!Resume, Gate!CheckOpen
    <3>3. QED
      BY <2>2, <3>1, <3>2 DEF CallStep, StartWithoutRun, StartHooked, StartUnhooked,
        LeaveModels, CreateFails, SingleLevel, AskEffort, Acquire, WorkEnds, End,
        batchVars
  <2>3. ASSUME NEW b \in Batches, BatchStep(b) PROVE Quiet
    BY <2>3 DEF BatchStep, Seal, AskSelector, Answer
  <2>4. CASE ModelsUp \/ ModelsFail \/ Abort \/ Settled
    BY <2>4 DEF ModelsUp, ModelsFail, Abort, Settled, batchVars, vars
  <2>5. QED
    BY <2>2, <2>3, <2>4 DEF Next
<1>2. QED
  BY <1>1, SchedulingCorrect, PTL DEF Spec, QuietAfterAbort

\* The calls use the gate as it may be used: a step of the calls is a step of the
\* gate or leaves it alone.
THEOREM CallsUseGate == Spec => GP!Spec
<1>1. Init => GP!Init
  BY DEF Init, Gate!Init, GP!Init
<1>2. SchedulingInvariant /\ [Next]_vars => [GP!Next]_(GP!vars)
  <2> SUFFICES ASSUME SchedulingInvariant, Next, ~UNCHANGED gateVars PROVE GP!Next
    BY DEF vars, gateVars, GP!vars
  <2>1. ASSUME NEW a \in Agent, CallStep(a) PROVE GP!Next
    <3>1. Gate!RequestOpen(a) \/ Gate!Resume(a) \/ Gate!CloseScope(a)
      BY <2>1 DEF CallStep, StartWithoutRun, StartHooked, StartUnhooked, LeaveModels,
        CreateFails, SingleLevel, AskEffort, Joined, Acquire, Acquired, WorkEnds, End
    <3>2. CASE Gate!RequestOpen(a)
      BY <3>2, SamePump DEF Gate!RequestOpen, GP!RequestOpen, GP!Next
    <3>3. CASE Gate!Resume(a)
      BY <3>3 DEF Gate!Resume, GP!Resume, Gate!CheckOpen, GP!CheckOpen, GP!Next
    <3>4. CASE Gate!CloseScope(a)
      <4>1. GP!CloseScope(a)
        BY <3>4, SamePump DEF Gate!CloseScope, GP!CloseScope, Gate!Release, GP!Release,
          Gate!Fail, GP!Fail
      <4>2. QED
        BY <4>1 DEF GP!Next
    <3>5. QED
      BY <3>1, <3>2, <3>3, <3>4
  <2>2. CASE Abort
    BY <2>2 DEF Abort, Gate!Close, GP!Close, GP!Next
  <2>3. QED
    BY <2>1, <2>2 DEF Next, BatchStep, Seal, AskSelector, Answer, ModelsUp, ModelsFail,
      Settled, vars, gateVars
<1>3. QED
  BY <1>1, <1>2, SchedulingCorrect, PTL DEF Spec, GP!Spec

\* So no more calls run at once than there are permits.
THEOREM CallsBounded == Spec => []GP!PermitsBoundAgents
<1>1. GP!GateAssumption
  BY SchedulingAssumption, SameFinite DEF GP!GateAssumption
<1>2. QED
  BY <1>1, CallsUseGate, GP!BoundCorrect, PTL

----------------------------------------------------------------------------
(***************************************************************************)
(* One call and its session.                                               *)
(***************************************************************************)
\* The places of the call where its finalizers run, and those between the
\* registration of the abort listener and the end of the prompt.
Closing == {"removing", "joining", "unsubscribing", "disposing", "over"}
Selected == {"selecting", "acquiring", "subscribing", "prompting", "prompted", "draining"}

\* The session in use is there from its creation until it is disposed of.
SessionOfPlace ==
  /\ pc = "start" => session[which] = "none"
  /\ pc = "creating" => session[which] = "creating"
  /\ pc \notin {"start", "creating", "over"} => session[which] = "live"
  /\ pc \in {"start", "replacing"} => which = 1
  /\ pc = "over" => session[which] \in {"none", "disposed"}
  /\ which = 1 => session[2] = "none"
  /\ which = 2 => session[1] = "disposed"

\* From its registration on the listener passes an abort to the session, until it
\* is removed; an abort that runs is joined before the subscription goes.
ListenerOfPlace ==
  /\ listener = "on" => pc \in Selected \cup {"preAborted", "removing"}
  /\ pc \in Selected => listener = "on" /\ (aborted => aborting # "no")
  /\ aborting = "running" =>
       aborted /\ pc \in Selected \cup {"preAborted", "removing", "joining"}

\* The call waits while the prompt runs, and subscribes around it.
PromptOfPlace ==
  /\ prompt # "idle" => pc \in {"prompted", "draining"} \cup Closing
  /\ prompt \in {"preflight", "streaming"} => pc = "prompted"
  /\ pc = "draining" => prompt = "ok" /\ aborted
  /\ subscribed = "open" =>
       pc \in {"prompting", "prompted", "draining", "removing", "joining", "unsubscribing"}
  /\ subscribed = "closed" => pc \in {"disposing", "over"}

\* A cancelled call whose prompt succeeded reports after the abort has ended.
UsageReported ==
  /\ body # "none" => pc \in Closing
  /\ body = "aborted" /\ prompt = "ok" =>
       aborting = "done" /\ reported = emitted /\ aborted

SessionInvariant ==
  Session!TypeOK /\ SessionOfPlace /\ ListenerOfPlace /\ PromptOfPlace /\ UsageReported

\* The invariant holds before the call has entered.
LEMMA InitSession == ASSUME Session!SessionAssumption, Session!Init PROVE SessionInvariant
BY DEF Session!SessionAssumption, Session!Init, SessionInvariant, Session!TypeOK,
  SessionOfPlace, ListenerOfPlace, PromptOfPlace, UsageReported, Selected, Closing,
  Session!NotReported

\* The invariant says that a call leaves nothing behind.
LEMMA SessionImplies == SessionInvariant => Session!SessionSound
BY DEF SessionInvariant, SessionOfPlace, ListenerOfPlace, PromptOfPlace, UsageReported,
  Selected, Closing, Session!SessionSound, Session!QuietBeforeDisposal,
  Session!SessionsDisposed, Session!CancelledUsageComplete, Session!AbortReachesPrompt,
  Session!TypeOK

\* Every step of a call, of its session and of the abort preserves the
\* invariant.
LEMMA NextSession ==
  ASSUME Session!SessionAssumption, SessionInvariant, [Session!Next]_(Session!vars)
  PROVE  SessionInvariant'
<1> USE DEF Session!SessionAssumption, SessionInvariant, Session!TypeOK, SessionOfPlace,
  ListenerOfPlace, PromptOfPlace, UsageReported, Selected, Closing, Session!NotReported,
  Session!Reports, Session!GoesOn, Session!FailsUnreported, Session!Checked,
  Session!Notes, Session!sdkVars
<1>1. CASE Session!Enter  BY <1>1 DEF Session!Enter
<1>2. CASE Session!Create BY <1>2 DEF Session!Create
<1>3. CASE Session!CheckFallback BY <1>3 DEF Session!CheckFallback
<1>4. CASE Session!Replace BY <1>4 DEF Session!Replace
<1>5. CASE Session!Listen BY <1>5 DEF Session!Listen
<1>6. CASE Session!PreAborted BY <1>6 DEF Session!PreAborted
<1>7. CASE Session!SelectEffort BY <1>7 DEF Session!SelectEffort
<1>8. CASE Session!AcquireExecution BY <1>8 DEF Session!AcquireExecution
<1>9. CASE Session!Subscribe BY <1>9 DEF Session!Subscribe
<1>10. CASE Session!Prompt BY <1>10 DEF Session!Prompt
<1>11. CASE Session!Prompted BY <1>11 DEF Session!Prompted
<1>12. CASE Session!Drained BY <1>12 DEF Session!Drained
<1>13. CASE Session!RemoveListener BY <1>13 DEF Session!RemoveListener
<1>14. CASE Session!JoinAbort BY <1>14 DEF Session!JoinAbort
<1>15. CASE Session!Unsubscribe BY <1>15 DEF Session!Unsubscribe
<1>16. CASE Session!Dispose BY <1>16 DEF Session!Dispose
<1>17. CASE Session!Abort BY <1>17 DEF Session!Abort
<1>18. CASE Session!AbortSettles BY <1>18 DEF Session!AbortSettles
<1>19. CASE Session!Preflight BY <1>19 DEF Session!Preflight
<1>20. CASE Session!PromptSettles BY <1>20 DEF Session!PromptSettles
<1>21. CASE Session!Emit BY <1>21 DEF Session!Emit
<1>22. CASE UNCHANGED Session!vars BY <1>22 DEF Session!vars
<1>23. QED
  BY <1>1, <1>2, <1>3, <1>4, <1>5, <1>6, <1>7, <1>8, <1>9, <1>10, <1>11, <1>12, <1>13,
    <1>14, <1>15, <1>16, <1>17, <1>18, <1>19, <1>20, <1>21, <1>22 DEF Session!Next,
    Session!Step, Session!Over

\* A call of the runner disposes of its sessions, listener and subscription with
\* nothing still running in them, tells what streams of the abort, and accounts
\* for all that a cancelled session used.
THEOREM SessionCorrect ==
  ASSUME Session!SessionAssumption
  PROVE  Session!Spec => []SessionSound
<1>1. Session!Init => SessionInvariant
  BY InitSession
<1>2. SessionInvariant /\ [Session!Next]_(Session!vars) => SessionInvariant'
  BY NextSession
<1>3. SessionInvariant => SessionSound
  BY SessionImplies DEF SessionSound
<1>4. QED
  BY <1>1, <1>2, <1>3, PTL DEF Session!Spec

\* The session of an aborted call never begins to stream.
THEOREM StreamCorrect ==
  ASSUME Session!SessionAssumption
  PROVE  Session!Spec => Session!NoStreamAfterAbort
<1>1. [Session!Next]_(Session!vars)
      => [aborted /\ prompt' = "streaming" => prompt = "streaming"]_(Session!vars)
  BY DEF Session!Next, Session!Step, Session!Over, Session!Enter, Session!Create,
    Session!CheckFallback, Session!Replace, Session!Listen, Session!PreAborted,
    Session!SelectEffort, Session!AcquireExecution, Session!Subscribe, Session!Prompt,
    Session!Prompted, Session!Drained, Session!RemoveListener, Session!JoinAbort,
    Session!Unsubscribe, Session!Dispose, Session!Abort, Session!AbortSettles,
    Session!Preflight, Session!PromptSettles, Session!Emit, Session!sdkVars, Session!vars
<1>2. QED
  BY <1>1, PTL DEF Session!Spec, Session!NoStreamAfterAbort

\* Neither the scheduling of the calls nor a session begins anything for a run
\* that was aborted.
THEOREM NothingBegun ==
  ASSUME Session!SessionAssumption
  PROVE  Spec /\ Session!Spec => NothingBegunAfterAbort
BY QuietCorrect, StreamCorrect DEF NothingBegunAfterAbort

----------------------------------------------------------------------------
(***************************************************************************)
(* The ledger of panels: where the calls and the panels of a script lie,   *)
(* and the branches they lie in.                                           *)
(***************************************************************************)
\* What a function is after it has got a value at one place.
LEMMA PutFacts ==
  ASSUME NEW f, NEW x, NEW v
  PROVE  /\ DOMAIN Put(f, x, v) = DOMAIN f \cup {x}
         /\ Put(f, x, v)[x] = v
         /\ \A y \in DOMAIN f : y # x => Put(f, x, v)[y] = f[y]
BY DEF Put

\* The branches of a panel are those that name it.
LEMMA BranchFacts ==
  ASSUME NEW b \in BranchPath, b # RootBranch
  PROVE  /\ b[1] \in PanelPath /\ b[1] \in DOMAIN Within
         /\ b = <<b[1], b[2]>> /\ b[2] \in 1..BranchCount(b[1])
BY PanelLedgerAssumption DEF BranchesOf

\* The branch of a panel by its number.
LEMMA BranchOfPanel ==
  ASSUME NEW p \in PanelPath, NEW i \in 1..BranchCount(p)
  PROVE  /\ <<p, i>> \in BranchPath /\ <<p, i>> # RootBranch
         /\ <<p, i>>[1] = p /\ <<p, i>>[2] = i
<1>1. <<p, i>> \in BranchesOf(p)
  BY DEF BranchesOf
<1>2. p # RootBranch[1]
  BY PanelLedgerAssumption
<1>3. QED
  BY <1>1, <1>2, PanelLedgerAssumption

\* What is on the path of a call or panel, position by position.
LEMMA OnTheWay ==
  ASSUME NEW x \in DOMAIN Within
  PROVE  /\ Len(Within[x]) \in Nat /\ DOMAIN Within[x] = 1..Len(Within[x])
         /\ \A k \in 1..Len(Within[x]) :
              /\ Within[x][k] \in BranchPath /\ Within[x][k] # RootBranch
              /\ Within[x][k][1] \in DOMAIN Within
              /\ Len(Within[Within[x][k][1]]) = k - 1
              /\ \A j \in 1..(k - 1) : Within[Within[x][k][1]][j] = Within[x][j]
         /\ \A b : b \in Above[x] <=> \E k \in 1..Len(Within[x]) : Within[x][k] = b
<1> DEFINE w == Within[x]
<1>1. w \in Seq(BranchPath \ {RootBranch})
  BY PathAssumption
<1>2. Len(w) \in Nat /\ DOMAIN w = 1..Len(w)
  BY <1>1, LenProperties
<1>3. \A k \in 1..Len(w) : w[k] \in BranchPath \ {RootBranch}
  BY <1>1, ElementOfSeq
<1>4. ASSUME NEW k \in 1..Len(w)
      PROVE  /\ w[k][1] \in DOMAIN Within
             /\ Len(Within[w[k][1]]) = k - 1
             /\ \A j \in 1..(k - 1) : Within[w[k][1]][j] = w[j]
  <2>1. w[k][1] \in DOMAIN Within
    BY <1>3, BranchFacts
  <2>2. Within[w[k][1]] = SubSeq(w, 1, k - 1)
    BY <1>2, PathAssumption
  <2>3. k \in Nat /\ k - 1 \in Nat /\ k <= Len(w)
    BY <1>2
  <2>4. \A j \in 1..(k - 1) : w[j] \in BranchPath \ {RootBranch}
    BY <1>2, <1>3, <2>3
  <2>5. /\ Len(SubSeq(w, 1, k - 1)) = IF 1 <= k - 1 THEN k - 1 - 1 + 1 ELSE 0
        /\ \A j \in 1..(k - 1 - 1 + 1) : SubSeq(w, 1, k - 1)[j] = w[1 + j - 1]
    BY <2>3, <2>4, SubSeqProperties
  <2>6. Len(SubSeq(w, 1, k - 1)) = k - 1
    BY <2>3, <2>5
  <2>7. \A j \in 1..(k - 1) : SubSeq(w, 1, k - 1)[j] = w[j]
    <3>1. SUFFICES ASSUME NEW j \in 1..(k - 1) PROVE SubSeq(w, 1, k - 1)[j] = w[j]
      OBVIOUS
    <3>2. 1 + j - 1 = j /\ j \in 1..(k - 1 - 1 + 1)
      BY <2>3
    <3>3. QED
      BY <2>5, <3>2
  <2>8. QED
    BY <2>1, <2>2, <2>6, <2>7
<1>5. Above[x] = Range(w)
  BY DEF Above
<1>6. \A b : b \in Above[x] <=> \E k \in 1..Len(w) : w[k] = b
  BY <1>2, <1>5 DEF Range
<1>7. QED
  BY <1>2, <1>3, <1>4, <1>6

\* A call is made by the innermost of the branches around it; around the panel of
\* any of these branches are those that are farther out, and what is inside a branch
\* but not made by it is inside a panel that it made.
LEMMA PathFacts ==
  ASSUME NEW x \in DOMAIN Within
  PROVE  /\ Home[x] \in BranchPath
         /\ Home[x] = RootBranch => Above[x] = {}
         /\ Home[x] # RootBranch =>
              Home[x] \in Above[x] /\ Above[x] = {Home[x]} \cup Above[Home[x][1]]
         /\ \A b \in Above[x] :
              /\ b \in BranchPath /\ b # RootBranch /\ b[1] \in DOMAIN Within
              /\ Above[b[1]] \subseteq Above[x] /\ b[1] # x
              /\ Home[x] = b \/ \E c \in Above[x] : Home[c[1]] = b
              /\ \A c \in Above[x] : c = b \/ c \in Above[b[1]] \/ b \in Above[c[1]]
<1> DEFINE w == Within[x]
           n == Len(w)
<1>1. n \in Nat /\ DOMAIN w = 1..n /\ w \in Seq(BranchPath \ {RootBranch})
  BY OnTheWay, PathAssumption
<1>2. \A k \in 1..n :
        /\ w[k] \in BranchPath /\ w[k] # RootBranch /\ w[k][1] \in DOMAIN Within
        /\ Len(Within[w[k][1]]) = k - 1
        /\ \A j \in 1..(k - 1) : Within[w[k][1]][j] = w[j]
  BY OnTheWay
<1>3. \A b : b \in Above[x] <=> \E k \in 1..n : w[k] = b
  BY OnTheWay
<1>4. \A k \in 1..n : \A b : b \in Above[w[k][1]] <=> \E j \in 1..(k - 1) : w[j] = b
  <2>1. SUFFICES ASSUME NEW k \in 1..n PROVE \A b : b \in Above[w[k][1]] <=> \E j \in 1..(k - 1) : w[j] = b
    OBVIOUS
  <2> DEFINE y == w[k][1]
  <2>2. y \in DOMAIN Within /\ Len(Within[y]) = k - 1 /\ \A j \in 1..(k - 1) : Within[y][j] = w[j]
    BY <1>2
  <2>3. \A b : b \in Above[y] <=> \E j \in 1..Len(Within[y]) : Within[y][j] = b
    <3> HIDE DEF y
    <3>1. y \in DOMAIN Within
      BY <2>2
    <3>2. QED
      BY <3>1, OnTheWay
  <2>4. \A b : b \in Above[y] <=> \E j \in 1..(k - 1) : Within[y][j] = b
    BY <2>2, <2>3
  <2>5. QED
    BY <2>2, <2>4
<1>5. w = <<>> <=> n = 0
  BY <1>1, EmptySeq
<1>6. Home[x] = IF w = <<>> THEN RootBranch ELSE w[n]
  BY DEF Home, Last
<1>7. \A k \in 1..n : k # n => Home[w[k + 1][1]] = w[k]
  <2>1. SUFFICES ASSUME NEW k \in 1..n, k # n PROVE Home[w[k + 1][1]] = w[k]
    OBVIOUS
  <2>2. k + 1 \in 1..n /\ (k + 1) - 1 = k /\ k \in 1..((k + 1) - 1)
    <3>1. n \in Nat
      BY <1>1
    <3> HIDE DEF n
    <3>2. QED
      BY <2>1, <3>1
  <2> DEFINE y == w[k + 1][1]
  <2>3. y \in DOMAIN Within /\ Len(Within[y]) = k /\ Within[y][k] = w[k]
    BY <1>2, <2>2
  <2>4. Within[y] # <<>>
    BY <2>2, <2>3, EmptySeq
  <2>5. Home[y] = Within[y][Len(Within[y])]
    BY <2>3, <2>4 DEF Home, Last
  <2>6. QED
    BY <2>3, <2>5
<1> HIDE DEF w, n
<1>8. CASE w = <<>>
  <2>1. Home[x] = RootBranch /\ \A b : b \notin Above[x]
    BY <1>3, <1>5, <1>6, <1>8
  <2>2. Above[x] = {}
    BY <2>1
  <2>3. QED
    BY <2>1, <2>2, PanelLedgerAssumption
<1>9. CASE w # <<>>
  <2>1. n \in 1..n /\ Home[x] = w[n]
    BY <1>1, <1>5, <1>6, <1>9
  <2>2. Home[x] \in BranchPath /\ Home[x] # RootBranch /\ Home[x] \in Above[x]
    BY <1>2, <1>3, <2>1
  <2>3. Above[x] = {Home[x]} \cup Above[Home[x][1]]
    <3>1. \A b : b \in Above[x] <=> b = w[n] \/ b \in Above[w[n][1]]
      <4>1. \A b : b \in Above[w[n][1]] <=> \E j \in 1..(n - 1) : w[j] = b
        BY <1>4, <2>1
      <4>2. \A k : k \in 1..n <=> k = n \/ k \in 1..(n - 1)
        BY <1>1, <2>1
      <4>3. QED
        BY <1>3, <4>1, <4>2
    <3>2. QED
      BY <2>1, <3>1
  <2>4. ASSUME NEW b \in Above[x]
        PROVE  /\ b \in BranchPath /\ b # RootBranch /\ b[1] \in DOMAIN Within
               /\ Above[b[1]] \subseteq Above[x] /\ b[1] # x
               /\ Home[x] = b \/ \E c \in Above[x] : Home[c[1]] = b
               /\ \A c \in Above[x] : c = b \/ c \in Above[b[1]] \/ b \in Above[c[1]]
    <3>1. PICK k \in 1..n : w[k] = b
      BY <1>3
    <3>2. b \in BranchPath /\ b # RootBranch /\ b[1] \in DOMAIN Within
      BY <1>2, <3>1
    <3>3. Above[b[1]] \subseteq Above[x]
      <4>1. \A j \in 1..(k - 1) : j \in 1..n
        BY <1>1
      <4>2. QED
        BY <1>3, <1>4, <3>1, <4>1
    <3>4. b[1] # x
      <4>1. Len(Within[b[1]]) = k - 1 /\ k - 1 # n
        BY <1>1, <1>2, <3>1
      <4>2. QED
        BY <4>1 DEF n, w
    <3>5. Home[x] = b \/ \E c \in Above[x] : Home[c[1]] = b
      <4>1. CASE k = n
        BY <2>1, <3>1, <4>1
      <4>2. CASE k # n
        <5>1. k + 1 \in 1..n
          BY <1>1, <4>2
        <5>2. w[k + 1] \in Above[x]
          BY <1>3, <5>1
        <5>3. QED
          BY <1>7, <3>1, <4>2, <5>2
      <4>3. QED
        BY <4>1, <4>2
    <3>6. ASSUME NEW c \in Above[x]
          PROVE  c = b \/ c \in Above[b[1]] \/ b \in Above[c[1]]
      <4>1. PICK j \in 1..n : w[j] = c
        BY <1>3
      <4>2. j = k \/ j \in 1..(k - 1) \/ k \in 1..(j - 1)
        BY <1>1
      <4>3. QED
        BY <1>4, <3>1, <4>1, <4>2
    <3>7. QED
      BY <3>2, <3>3, <3>4, <3>5, <3>6
  <2>5. QED
    BY <2>2, <2>3, <2>4
<1>10. QED
  BY <1>8, <1>9

----------------------------------------------------------------------------
(***************************************************************************)
(* The calls of a branch, in their order.                                  *)
(***************************************************************************)
\* The elements of a finite set of numbers have the ranks from one on.
LEMMA Ranks ==
  ASSUME NEW S, S \subseteq Nat, IsFiniteSet(S)
  PROVE  LET n == Cardinality(S)
             rank(i) == Cardinality({j \in S : j <= i})
         IN  /\ n \in Nat
             /\ \A i \in S : rank(i) \in 1..n
             /\ \A i, j \in S : rank(i) = rank(j) => i = j
             /\ \A k \in 1..n : \E i \in S : rank(i) = k
<1> DEFINE n == Cardinality(S)
           upto(i) == {j \in S : j <= i}
           rank == [i \in S |-> Cardinality(upto(i))]
<1>1. n \in Nat
  BY FS_CardinalityType
<1>2. ASSUME NEW i \in S PROVE IsFiniteSet(upto(i)) /\ rank[i] \in 1..n
  <2>1. IsFiniteSet(upto(i)) /\ Cardinality(upto(i)) <= n
    BY FS_Subset
  <2>2. Cardinality(upto(i)) \in Nat
    BY <2>1, FS_CardinalityType
  <2>3. i \in upto(i)
    OBVIOUS
  <2>4. Cardinality(upto(i)) # 0
    BY <2>1, <2>3, FS_EmptySet
  <2>5. QED
    BY <1>1, <2>1, <2>2, <2>4
<1>3. ASSUME NEW i \in S, NEW j \in S, rank[i] = rank[j], i < j PROVE FALSE
  <2>1. upto(i) \in SUBSET upto(j)
    <3>1. \A k \in S : k <= i => k <= j
      <4>1. i \in Nat /\ j \in Nat
        OBVIOUS
      <4>2. \A k \in Nat : k <= i => k <= j
        BY <1>3, <4>1
      <4>3. QED
        BY <4>2
    <3>2. QED
      BY <3>1
  <2>2. Cardinality(upto(i)) = Cardinality(upto(j))
    BY <1>3
  <2>3. upto(i) = upto(j)
    BY <1>2, <2>1, <2>2, FS_Subset
  <2>4. j \in upto(j) /\ j \notin upto(i)
    BY <1>3
  <2>5. QED
    BY <2>3, <2>4
<1>4. \A i, j \in S : rank[i] = rank[j] => i = j
  <2>1. \A i, j \in S : i < j \/ j < i \/ i = j
    OBVIOUS
  <2>2. QED
    BY <1>3, <2>1
<1>5. rank \in Injection(S, 1..n)
  BY <1>2, <1>4 DEF Injection, IsInjective
<1>6. IsFiniteSet(1..n) /\ Cardinality(1..n) = n
  <2>1. 1 \in Int /\ n \in Int
    BY <1>1
  <2>2. QED
    BY <1>1, <2>1, FS_Interval
<1>7. rank \in Surjection(S, 1..n)
  BY <1>5, <1>6, FS_Injection
<1>8. \A k \in 1..n : \E i \in S : rank[i] = k
  BY <1>7 DEF Surjection
<1>9. QED
  BY <1>1, <1>2, <1>4, <1>8

\* The calls of a branch are picked from the trace without repetition.
LEMMA CallsInFacts ==
  ASSUME NEW T, NEW calls \in Seq(T), NEW b
  PROVE  LET r == CallsIn(calls, b)
             in == {i \in DOMAIN calls : b \in Above[calls[i].at]}
         IN  /\ \E n \in Nat : DOMAIN r = 1..n
             /\ \A k \in DOMAIN r : \E i \in in : r[k] = calls[i]
             /\ \A i \in in : \E k \in DOMAIN r : r[k] = calls[i]
             /\ Range(r) = {call \in Range(calls) : b \in Above[call.at]}
             /\ (\A i, j \in DOMAIN calls : calls[i].at = calls[j].at => i = j)
                  => IsInjective([k \in DOMAIN r |-> r[k].at])
<1> DEFINE r == CallsIn(calls, b)
           in == {i \in DOMAIN calls : b \in Above[calls[i].at]}
           n == Cardinality(in)
           rank(i) == Cardinality({j \in in : j <= i})
           at(k) == CHOOSE i \in in : rank(i) = k
<1>1. /\ in \subseteq Nat /\ IsFiniteSet(in)
  <2>1. Len(calls) \in Nat /\ DOMAIN calls = 1..Len(calls)
    BY LenProperties
  <2>2. 1 \in Int /\ Len(calls) \in Int
    BY <2>1
  <2>3. IsFiniteSet(DOMAIN calls)
    BY <2>1, <2>2, FS_Interval
  <2>4. in \in SUBSET DOMAIN calls
    OBVIOUS
  <2>5. IsFiniteSet(in)
    BY <2>3, <2>4, FS_Subset
  <2>6. QED
    BY <2>1, <2>5
<1>2. /\ n \in Nat
      /\ \A i \in in : rank(i) \in 1..n
      /\ \A i, j \in in : rank(i) = rank(j) => i = j
      /\ \A k \in 1..n : \E i \in in : rank(i) = k
  <2> HIDE DEF in
  <2>1. QED
    BY <1>1, Ranks
<1>3. r = [k \in 1..n |-> calls[at(k)]]
  BY DEF CallsIn
<1>4. /\ \A k \in 1..n : at(k) \in in /\ rank(at(k)) = k
      /\ \A i \in in : rank(i) \in 1..n /\ at(rank(i)) = i
  <2> HIDE DEF in, n, rank
  <2>1. QED
    BY <1>2
<1> HIDE DEF r, at, n, rank
<1>5. DOMAIN r = 1..n /\ \A k \in 1..n : r[k] = calls[at(k)]
  BY <1>3
<1>6. \A k \in DOMAIN r : \E i \in in : r[k] = calls[i]
  BY <1>4, <1>5
<1>7. \A i \in in : \E k \in DOMAIN r : r[k] = calls[i]
  BY <1>4, <1>5
<1>8. Range(r) = {call \in Range(calls) : b \in Above[call.at]}
  BY <1>6, <1>7 DEF Range
<1>9. ASSUME \A i, j \in DOMAIN calls : calls[i].at = calls[j].at => i = j
      PROVE  IsInjective([k \in DOMAIN r |-> r[k].at])
  <2>1. \A k, l \in 1..n : r[k].at = r[l].at => k = l
    BY <1>4, <1>5, <1>9
  <2>2. QED
    BY <1>5, <2>1 DEF IsInjective
<1>10. QED
  BY <1>2, <1>5, <1>6, <1>7, <1>8, <1>9 DEF r

----------------------------------------------------------------------------
(***************************************************************************)
(* The account of slots, as the ledger uses it. Two instances of its       *)
(* module are at hand, that of the ledger and that of its proofs; each     *)
(* brings its own copy of the operators.                                   *)
(***************************************************************************)
SP == INSTANCE AdmissionProofs WITH
  usedAgents <- 0, Shape <- {},
  panelBound <- Cardinality(PanelPath),
  branchBound <- Cardinality(BranchPath)

\* There are finitely many branches and panels.
LEMMA Bounds ==
  /\ Cardinality(PanelPath) \in Nat /\ Cardinality(BranchPath) \in Nat
  /\ \A p \in PanelPath : BranchCount(p) \in Nat /\ BranchCount(p) <= Cardinality(BranchPath)
<1>1. Cardinality(PanelPath) \in Nat /\ Cardinality(BranchPath) \in Nat /\ IsFiniteSet(BranchPath)
  BY PanelLedgerAssumption, FS_CardinalityType
<1>2. ASSUME NEW p \in PanelPath
      PROVE  BranchCount(p) \in Nat /\ BranchCount(p) <= Cardinality(BranchPath)
  <2> DEFINE S == {b \in BranchPath : b[1] = p}
  <2>1. S \in SUBSET BranchPath
    OBVIOUS
  <2>2. IsFiniteSet(S) /\ Cardinality(S) <= Cardinality(BranchPath)
    BY <1>1, <2>1, FS_Subset
  <2>3. Cardinality(S) \in Nat
    BY <2>2, FS_CardinalityType
  <2>4. QED
    BY <2>2, <2>3 DEF BranchCount
<1>3. QED
  BY <1>1, <1>2

\* The constants of the panel ledger are such as the admission is proved for.
LEMMA SlotsAssumption == SP!AdmissionAssumption
<1>1. /\ maxAgents \in Nat \ {0} /\ IsFiniteSet(Slot) /\ Cardinality(Slot) >= maxAgents
  BY PanelLedgerAssumption
<1>2. /\ 0 \in 0..maxAgents /\ maxAgents - 0 = maxAgents
  BY <1>1
<1>3. SP!IsFiniteSet(Slot) /\ SP!Cardinality(Slot) = Cardinality(Slot)
  BY <1>1 DEF SP!IsFiniteSet, IsFiniteSet, SP!Cardinality, Cardinality
<1>4. QED
  BY <1>1, <1>2, <1>3, Bounds DEF SP!AdmissionAssumption

\* The invariant of the admission is that of the proofs' instance of it.
LEMMA SameInvariant == Slots!AdmissionInvariant <=> SP!AdmissionInvariant
BY DEF Slots!Account, SP!Account, Slots!AdmissionInvariant, SP!AdmissionInvariant,
       Slots!Beneath, SP!Beneath, Slots!Branch, SP!Branch,
       Slots!BranchesReturn, SP!BranchesReturn, Slots!CallsCovered, SP!CallsCovered,
       Slots!Cardinality, SP!Cardinality, Slots!Conservation, SP!Conservation,
       Slots!FirstCallGuaranteed, SP!FirstCallGuaranteed, Slots!Held, SP!Held,
       Slots!History, SP!History, Slots!Id, SP!Id, Slots!IsFiniteSet, SP!IsFiniteSet,
       Slots!NoSlotStolen, SP!NoSlotStolen, Slots!OnlyOpened, SP!OnlyOpened,
       Slots!Panel, SP!Panel, Slots!PanelId, SP!PanelId, Slots!ParentsAsked, SP!ParentsAsked,
       Slots!Range, SP!Range, Slots!Reserved, SP!Reserved, Slots!Returns, SP!Returns,
       Slots!TypeOK, SP!TypeOK

\* Opening a panel is that of the proofs' instance.
LEMMA SameOpenPanel ==
  ASSUME NEW ctx, NEW needs, NEW reserve, NEW credit, Slots!OpenPanel(ctx, needs, reserve, credit)
  PROVE  SP!OpenPanel(ctx, needs, reserve, credit)
BY DEF Slots!Account, SP!Account, Slots!Asked, SP!Asked, Slots!AtRoot, SP!AtRoot,
       Slots!BranchId, SP!BranchId, Slots!BranchesOf, SP!BranchesOf,
       Slots!Cardinality, SP!Cardinality, Slots!ContingentSlots, SP!ContingentSlots,
       Slots!Granted, SP!Granted, Slots!Held, SP!Held, Slots!Id, SP!Id, Slots!IdsOf, SP!IdsOf,
       Slots!Injection, SP!Injection, Slots!IsFiniteSet, SP!IsFiniteSet,
       Slots!IsInjective, SP!IsInjective, Slots!Live, SP!Live, Slots!LiveSlots, SP!LiveSlots,
       Slots!MayDraw, SP!MayDraw, Slots!Min, SP!Min, Slots!Onward, SP!Onward,
       Slots!OpenPanel, SP!OpenPanel, Slots!Panel, SP!Panel, Slots!PanelId, SP!PanelId,
       Slots!Range, SP!Range, Slots!Released, SP!Released,
       Slots!ReservationsOf, SP!ReservationsOf, Slots!Reserve, SP!Reserve, Slots!Root, SP!Root,
       Slots!SetAccount, SP!SetAccount, Slots!SetAside, SP!SetAside, Slots!Via, SP!Via

\* So is what an agent consumes,
LEMMA SameConsume ==
  ASSUME NEW ctx
  PROVE  /\ Slots!ConsumeReserved(ctx) => SP!ConsumeReserved(ctx)
         /\ Slots!ConsumeContingent(ctx) => SP!ConsumeContingent(ctx)
         /\ Slots!ConsumeRoot => SP!ConsumeRoot
<1>1. Slots!ConsumeReserved(ctx) => SP!ConsumeReserved(ctx)
  BY DEF Slots!Account, SP!Account, Slots!Called, SP!Called,
         Slots!ConsumeReserved, SP!ConsumeReserved, Slots!Gives, SP!Gives, Slots!Held, SP!Held,
         Slots!Id, SP!Id, Slots!Live, SP!Live, Slots!Panel, SP!Panel, Slots!PanelId, SP!PanelId,
         Slots!Range, SP!Range, Slots!ReservationsOf, SP!ReservationsOf, Slots!Root, SP!Root,
         Slots!Spent, SP!Spent
<1>2. Slots!ConsumeContingent(ctx) => SP!ConsumeContingent(ctx)
  BY DEF Slots!Account, SP!Account, Slots!Called, SP!Called,
         Slots!ConsumeContingent, SP!ConsumeContingent, Slots!Gives, SP!Gives,
         Slots!Held, SP!Held, Slots!Id, SP!Id, Slots!Live, SP!Live, Slots!Panel, SP!Panel,
         Slots!PanelId, SP!PanelId, Slots!Range, SP!Range,
         Slots!ReservationsOf, SP!ReservationsOf, Slots!Root, SP!Root, Slots!Spent, SP!Spent
<1>3. Slots!ConsumeRoot => SP!ConsumeRoot
  BY DEF Slots!ConsumeRoot, SP!ConsumeRoot
<1>4. QED
  BY <1>1, <1>2, <1>3

\* and what a branch or a panel releases.
LEMMA SameRelease ==
  ASSUME NEW x
  PROVE  /\ Slots!ReleaseBranch(x) => SP!ReleaseBranch(x)
         /\ Slots!ReleasePanel(x) => SP!ReleasePanel(x)
<1>1. Slots!ReleaseBranch(x) => SP!ReleaseBranch(x)
  BY DEF Slots!Account, SP!Account, Slots!AtRoot, SP!AtRoot, Slots!Cardinality, SP!Cardinality,
         Slots!Id, SP!Id, Slots!IsFiniteSet, SP!IsFiniteSet, Slots!Min, SP!Min,
         Slots!OfLive, SP!OfLive, Slots!Onward, SP!Onward, Slots!Panel, SP!Panel,
         Slots!PanelId, SP!PanelId, Slots!Release, SP!Release,
         Slots!ReleaseBranch, SP!ReleaseBranch, Slots!Released, SP!Released,
         Slots!SetAccount, SP!SetAccount
<1>2. Slots!ReleasePanel(x) => SP!ReleasePanel(x)
  BY DEF Slots!Account, SP!Account, Slots!AtRoot, SP!AtRoot, Slots!Branch, SP!Branch,
         Slots!Cardinality, SP!Cardinality, Slots!Id, SP!Id, Slots!IdsOf, SP!IdsOf,
         Slots!IsFiniteSet, SP!IsFiniteSet, Slots!Min, SP!Min, Slots!OfLive, SP!OfLive,
         Slots!Onward, SP!Onward, Slots!Panel, SP!Panel, Slots!PanelId, SP!PanelId,
         Slots!Release, SP!Release, Slots!ReleasePanel, SP!ReleasePanel,
         Slots!Released, SP!Released, Slots!SetAccount, SP!SetAccount
<1>3. QED
  BY <1>1, <1>2

\* The invariant holds of a new admission, whatever earlier runs have used.
LEMMA SlotsNew == consumed \in 0..maxAgents /\ Slots!AllAtRoot => Slots!AdmissionInvariant
<1>1. Slots!AllAtRoot => SP!AllAtRoot
  BY DEF Slots!AllAtRoot, SP!AllAtRoot, Slots!EmptyHistory, SP!EmptyHistory, Slots!Id, SP!Id,
         Slots!Panel, SP!Panel
<1>2. QED
  BY <1>1, SlotsAssumption, SameInvariant, SP!FreshAccount

\* It is about the variables of the admission only.
LEMMA SlotsUnchanged ==
  ASSUME UNCHANGED slotVars
  PROVE  Slots!AdmissionInvariant' <=> Slots!AdmissionInvariant
BY DEF slotVars, Slots!Account, Slots!AdmissionInvariant, Slots!Beneath, Slots!Branch,
       Slots!BranchesReturn, Slots!CallsCovered, Slots!Conservation, Slots!FirstCallGuaranteed,
       Slots!Held, Slots!History, Slots!Id, Slots!NoSlotStolen, Slots!OnlyOpened, Slots!Panel,
       Slots!PanelId, Slots!ParentsAsked, Slots!Reserved, Slots!Returns, Slots!TypeOK

\* Opening a panel preserves it.
LEMMA SlotsOpenPanel ==
  ASSUME Slots!AdmissionInvariant, NEW ctx \in Slots!Context, NEW p \in PanelPath,
         NEW credit, Slots!OpenPanel(ctx, Needs(p), ReserveAgents[p], credit)
  PROVE  Slots!AdmissionInvariant'
<1>1. SP!AdmissionInvariant /\ SP!OpenPanel(ctx, Needs(p), ReserveAgents[p], credit)
  BY SameInvariant, SameOpenPanel
<1>2. ctx \in SP!Context
  BY DEF Slots!Context, SP!Context, Slots!Root, SP!Root, Slots!Branch, SP!Branch, Slots!Panel, SP!Panel
<1>3. ReserveAgents[p] \in Nat
  BY PanelLedgerAssumption
<1>4. Needs(p) \in SP!BoundedSeq(BOOLEAN, Cardinality(BranchPath))
  <2>1. BranchCount(p) \in Nat /\ BranchCount(p) \in 0..Cardinality(BranchPath)
    BY Bounds
  <2>2. Needs(p) \in [1..BranchCount(p) -> BOOLEAN]
    BY DEF Needs, BranchNeedsSlot
  <2>3. QED
    BY <2>1, <2>2 DEF SP!BoundedSeq, SP!SeqOf
<1>5. SP!AdmissionInvariant'
  BY <1>1, <1>2, <1>3, <1>4, SlotsAssumption, SP!OpenPanelInvariant
<1>6. SP!AdmissionInvariant' => Slots!AdmissionInvariant'
  BY SameInvariant, PTL
<1>7. QED
  BY <1>5, <1>6

\* So does admitting an agent,
LEMMA SlotsAdmit ==
  ASSUME Slots!AdmissionInvariant, NEW ctx \in Slots!Context,
         \/ Slots!ConsumeReserved(ctx)
         \/ Slots!ConsumeContingent(ctx)
         \/ Slots!ConsumeRoot
  PROVE  Slots!AdmissionInvariant'
<1>1. SP!AdmissionInvariant
  BY SameInvariant
<1>2. ctx \in SP!Context
  BY DEF Slots!Context, SP!Context, Slots!Root, SP!Root, Slots!Branch, SP!Branch, Slots!Panel, SP!Panel
<1>3. SP!AdmissionInvariant'
  <2>1. CASE Slots!ConsumeReserved(ctx)
    BY <1>1, <1>2, <2>1, SameConsume, SlotsAssumption, SP!ConsumeReservedInvariant
  <2>2. CASE Slots!ConsumeContingent(ctx)
    <3>1. SP!ConsumeContingent(ctx)
      BY <2>2, SameConsume
    <3>2. ctx \in SP!Branch
      BY <1>2, <3>1 DEF SP!ConsumeContingent, SP!Context
    <3>3. QED
      BY <1>1, <3>1, <3>2, SlotsAssumption, SP!ConsumeContingentInvariant
  <2>3. CASE Slots!ConsumeRoot
    BY <1>1, <2>3, SameConsume, SlotsAssumption, SP!ConsumeRootInvariant
  <2>4. QED
    BY <2>1, <2>2, <2>3
<1>4. SP!AdmissionInvariant' => Slots!AdmissionInvariant'
  BY SameInvariant, PTL
<1>5. QED
  BY <1>3, <1>4

\* and so does a release.
LEMMA SlotsRelease ==
  ASSUME Slots!AdmissionInvariant, NEW x,
         \/ x \in Slots!Branch /\ Slots!ReleaseBranch(x)
         \/ x \in Slots!Panel /\ Slots!ReleasePanel(x)
  PROVE  Slots!AdmissionInvariant'
<1>1. SP!AdmissionInvariant
  BY SameInvariant
<1>2. SP!AdmissionInvariant'
  <2>1. CASE x \in Slots!Branch /\ Slots!ReleaseBranch(x)
    <3>1. x \in SP!Branch
      BY <2>1 DEF Slots!Branch, SP!Branch, Slots!Panel, SP!Panel
    <3>2. \E b \in SP!Branch : SP!ReleaseBranch(b)
      BY <2>1, <3>1, SameRelease
    <3>3. QED
      BY <1>1, <3>2, SlotsAssumption, SP!ReleasesInvariant
  <2>2. CASE x \in Slots!Panel /\ Slots!ReleasePanel(x)
    <3>1. x \in SP!Panel
      BY <2>2 DEF Slots!Panel, SP!Panel
    <3>2. \E p \in SP!Panel : SP!ReleasePanel(p)
      BY <2>2, <3>1, SameRelease
    <3>3. QED
      BY <1>1, <3>2, SlotsAssumption, SP!ReleasesInvariant
  <2>3. QED
    BY <2>1, <2>2
<1>3. SP!AdmissionInvariant' => Slots!AdmissionInvariant'
  BY SameInvariant, PTL
<1>4. QED
  BY <1>2, <1>3

----------------------------------------------------------------------------
(***************************************************************************)
(* What each record makes of the journal, and what the stack of panels     *)
(* says of the calls to come.                                              *)
(***************************************************************************)
\* What loadJournal() makes of an admission,
LEMMA LoadAdmit ==
  ASSUME NEW l, LedgerFields(l), NEW c
  PROVE  LET m == Load(l, AdmitRecord(c))
         IN  /\ LedgerFields(m) /\ m.used = l.used + 1 /\ m.admitted = l.admitted \cup {c}
             /\ m.agents = l.agents /\ m.complete = l.complete /\ m.branches = l.branches
             /\ m.openBranches = l.openBranches
             /\ m.openAdmissions = NoteAdmission(l.openAdmissions, c)
BY DEF Load, AdmitRecord, LedgerFields

\* of an agent's result,
LEMMA LoadAgent ==
  ASSUME NEW l, LedgerFields(l), NEW c
  PROVE  LET m == Load(l, AgentRecord(c))
         IN  /\ LedgerFields(m) /\ m.used = l.used /\ m.admitted = l.admitted
             /\ m.agents = l.agents \cup {c} /\ m.complete = l.complete /\ m.branches = l.branches
             /\ m.openBranches = l.openBranches /\ m.openAdmissions = l.openAdmissions
BY DEF Load, AgentRecord, LedgerFields

\* of a panel that opens,
LEMMA LoadOpen ==
  ASSUME NEW l, LedgerFields(l), NEW p
  PROVE  LET m == Load(l, OpenRecord(p))
         IN  /\ LedgerFields(m) /\ m.used = l.used /\ m.admitted = l.admitted
             /\ m.agents = l.agents /\ DOMAIN m.complete \subseteq DOMAIN l.complete
             /\ m.branches = Put(l.branches, p, <<>>)
             /\ m.openBranches = Put(l.openBranches, p, <<>>)
             /\ m.openAdmissions = Put(l.openAdmissions, p, {})
BY DEF Load, OpenRecord, ForgetPanel, LedgerFields, Restrict

\* of a branch that settles
LEMMA LoadBranch ==
  ASSUME NEW l, LedgerFields(l), NEW b, NEW ok, NEW calls,
         b[1] \in DOMAIN l.branches, b[1] \in DOMAIN l.openBranches
  PROVE  LET m == Load(l, BranchRecord(b, ok, calls))
         IN  /\ LedgerFields(m) /\ m.used = l.used /\ m.admitted = l.admitted
             /\ m.agents = l.agents /\ m.complete = l.complete
             /\ DOMAIN m.branches = DOMAIN l.branches
             /\ DOMAIN m.openBranches = DOMAIN l.openBranches
             /\ m.openBranches[b[1]] = Put(l.openBranches[b[1]], b[2], [ok |-> ok, calls |-> calls])
             /\ \A q \in DOMAIN l.openBranches : q # b[1] => m.openBranches[q] = l.openBranches[q]
             /\ m.openAdmissions = l.openAdmissions
BY DEF Load, BranchRecord, LedgerFields

\* and of a panel that completes.
LEMMA LoadComplete ==
  ASSUME NEW l, LedgerFields(l), NEW p, NEW oks, NEW calls,
         NEW m, m = Load(l, CompleteRecord(p, oks, calls))
  PROVE  /\ LedgerFields(m) /\ m.used = l.used /\ m.admitted = l.admitted
         /\ m.agents = l.agents /\ DOMAIN m.complete = DOMAIN l.complete \cup {p}
         /\ m.branches = l.branches
         /\ DOMAIN m.openBranches = DOMAIN l.openBranches \ {p}
         /\ DOMAIN m.openAdmissions = DOMAIN l.openAdmissions \ {p}
         /\ \A q \in DOMAIN l.openBranches \ {p} : m.openBranches[q] = l.openBranches[q]
         /\ \A q \in DOMAIN l.openAdmissions \ {p} : m.openAdmissions[q] = l.openAdmissions[q]
BY DEF Load, CompleteRecord, ClosePanel, LedgerFields, Put, Restrict

\* The call or panel that a branch has come to is under way for no branch, and it
\* has not been called before.
LEMMA NotCalled ==
  ASSUME NEW x \in DOMAIN Within, StackSound, NEW do, do # "end", AtStep(Home[x], do, x)
  PROVE  /\ Home[x] \in DOMAIN running /\ Script[Home[x]][running[Home[x]]].do # "end"
         /\ Script[Home[x]][running[Home[x]]].of = x
         /\ \A y \in UnderWay : Home[y] # Home[x]
         /\ x \notin UnderWay /\ ~ Called(x)
<1> DEFINE b == Home[x]
<1>1. /\ b \in DOMAIN running /\ Script[b][running[b]].do = do /\ Script[b][running[b]].of = x
      /\ \A y \in UnderWay : Home[y] # b
  BY DEF AtStep, UnderWay
<1>2. x \notin UnderWay
  BY <1>1
<1>3. b \in BranchPath /\ running[b] \in DOMAIN Script[b]
  BY <1>1, PathFacts DEF StackSound
<1>4. \A n \in 0..(Len(running[b]) - 1) : Script[b][SubSeq(running[b], 1, n)].of # x
  BY <1>1, <1>3, ScriptAssumption
<1>5. QED
  BY <1>1, <1>2, <1>4 DEF Called

\* A branch that runs is inside panels that are open, and so are its calls.
LEMMA AroundRunning ==
  ASSUME LedgerShape, StackSound, NEW x \in DOMAIN Within, Home[x] \in DOMAIN running
  PROVE  /\ Above[x] \subseteq DOMAIN running
         /\ \A b \in Above[x] : b \in BranchPath /\ b # RootBranch /\ b[1] \in DOMAIN panels
<1>1. Above[x] \subseteq DOMAIN running
  <2>1. CASE Home[x] = RootBranch
    BY <2>1, PathFacts
  <2>2. CASE Home[x] # RootBranch
    <3>1. Home[x][1] \in UnderWay
      BY <2>2 DEF StackSound, UnderWay
    <3>2. Above[Home[x][1]] \subseteq DOMAIN running
      BY <3>1 DEF StackSound
    <3>3. QED
      BY <2>2, <3>2, PathFacts
  <2>3. QED
    BY <2>1, <2>2
<1>2. \A b \in Above[x] : b \in BranchPath /\ b # RootBranch
  BY PathFacts
<1>3. QED
  BY <1>1, <1>2 DEF StackSound

\* A branch around what is under way waits.
LEMMA Waiting ==
  ASSUME LedgerShape, StackSound, NEW x \in UnderWay, x \in DOMAIN Within, NEW b \in Above[x]
  PROVE  /\ b \in DOMAIN running
         /\ \E y \in UnderWay : Home[y] = b
<1>1. b \in DOMAIN running
  BY DEF StackSound
<1>2. CASE Home[x] = b
  BY <1>1, <1>2
<1>3. CASE Home[x] # b
  <2>1. PICK c \in Above[x] : Home[c[1]] = b
    BY <1>3, PathFacts
  <2>2. c \in DOMAIN running /\ c # RootBranch
    BY PathFacts DEF StackSound
  <2>3. c[1] \in UnderWay
    BY <2>2 DEF StackSound, UnderWay
  <2>4. QED
    BY <1>1, <2>1, <2>3
<1>4. QED
  BY <1>2, <1>3

\* Nothing that has been called comes up again, as long as branches only go on, and
\* what is over is what its branch went on from.
LEMMA CalledKept ==
  ASSUME StackSound, LedgerShape, NEW x, Home[x] \in DOMAIN running' => Home[x] \in DOMAIN running,
         \A b \in DOMAIN running' \cap DOMAIN running :
           running'[b] = running[b] \/ \E ok \in BOOLEAN : running'[b] = Append(running[b], ok),
         x \in UnderWay /\ x \notin UnderWay' /\ Home[x] \in DOMAIN running' =>
           \E ok \in BOOLEAN : running'[Home[x]] = Append(running[Home[x]], ok),
         Called(x)
  PROVE  Called(x)'
<1> DEFINE b == Home[x]
           r == running[b]
           s == running'[b]
<1>1. SUFFICES ASSUME b \in DOMAIN running', x \notin UnderWay'
               PROVE  \E n \in 0..(Len(s) - 1) : Script[b][SubSeq(s, 1, n)].of = x
  BY DEF Called
<1>2. b \in DOMAIN running /\ r \in Seq(BOOLEAN)
  BY <1>1, ScriptAssumption DEF StackSound, LedgerShape
<1>3. Len(r) \in Nat /\ SubSeq(r, 1, Len(r)) = r
  BY <1>2
<1>4. CASE x \in UnderWay
  <2>1. PICK ok \in BOOLEAN : s = Append(r, ok)
    BY <1>1, <1>4
  <2>2. Len(s) = Len(r) + 1 /\ SubSeq(s, 1, Len(r)) = r
    BY <1>2, <2>1
  <2>3. Script[b][r].of = x
    BY <1>4 DEF StackSound
  <2>4. Len(r) \in 0..(Len(s) - 1)
    BY <1>3, <2>2
  <2>5. QED
    BY <2>2, <2>3, <2>4
<1>5. CASE x \notin UnderWay
  <2>1. PICK n \in 0..(Len(r) - 1) : Script[b][SubSeq(r, 1, n)].of = x
    BY <1>2, <1>5 DEF Called
  <2>2. CASE s = r
    BY <2>1, <2>2
  <2>3. ASSUME NEW ok \in BOOLEAN, s = Append(r, ok) PROVE \E m \in 0..(Len(s) - 1) : Script[b][SubSeq(s, 1, m)].of = x
    <3>1. Len(s) = Len(r) + 1 /\ n \in 0..(Len(s) - 1)
      BY <1>2, <1>3, <2>3
    <3>2. SubSeq(s, 1, n) = SubSeq(r, 1, n)
      BY <1>2, <1>3, <2>3
    <3>3. QED
      BY <2>1, <3>1, <3>2
  <2>4. QED
    BY <1>1, <1>2, <2>2, <2>3
<1>6. QED
  BY <1>4, <1>5

\* What has been recorded of a branch still covers its calls, as long as none is
\* admitted in it and no call of it gets a result.
LEMMA StillCovered ==
  ASSUME NEW l, NEW m, NEW b, NEW calls, Covers(l, b, calls), b[1] \in DOMAIN m.openAdmissions,
         \A c \in m.openAdmissions[b[1]] : b \in Above[c] =>
           c \in l.openAdmissions[b[1]] /\ (c \in m.agents <=> c \in l.agents)
  PROVE  Covers(m, b, calls)
BY DEF Covers

\* The slots of the context that a running branch works in.
LEMMA Contexts ==
  ASSUME LedgerShape, StackSound, BudgetSound, NEW b \in DOMAIN running
  PROVE  ContextOf(b) \in Slots!Context
<1>1. CASE b = RootBranch
  BY <1>1 DEF ContextOf, Slots!Context
<1>2. CASE b # RootBranch
  <2>1. b \in BranchPath /\ b[1] \in DOMAIN panels
    BY <1>2 DEF LedgerShape, StackSound
  <2>2. b[1] \in PanelPath /\ b[2] \in 1..BranchCount(b[1])
    BY <1>2, <2>1, BranchFacts
  <2>3. b[2] \in 1..Cardinality(BranchPath)
    BY <2>2, Bounds
  <2>4. nextPanel \in 0..Cardinality(PanelPath)
    BY DEF BudgetSound, Slots!AdmissionInvariant, Slots!TypeOK
  <2>5. panels[b[1]].id \in 1..Cardinality(PanelPath)
    BY <2>1, <2>4, Bounds DEF BudgetSound
  <2>6. QED
    BY <1>2, <2>3, <2>5 DEF ContextOf, Slots!Context, Slots!Branch, Slots!Panel
<1>3. QED
  BY <1>1, <1>2

----------------------------------------------------------------------------
(***************************************************************************)
(* The invariant of the ledger holds at first and implies that the ledger  *)
(* is sound; a step that leaves the journal, the panels and the calls      *)
(* alone preserves it.                                                     *)
(***************************************************************************)
\* The parts of the invariant that only concern what is recorded hold at first.
LEMMA LedgerStart == LedgerInit => LedgerInvariant
<1> SUFFICES ASSUME LedgerInit PROVE LedgerInvariant
  OBVIOUS
<1>1. /\ ledger = EmptyLedger /\ readable = TRUE /\ panels = <<>>
      /\ running = [b \in {RootBranch} |-> <<>>] /\ inflight = {} /\ fatal = None
      /\ generation = 1 /\ Slots!Init
  BY DEF LedgerInit
<1>2. DOMAIN panels = {} /\ UnderWay = {} /\ DOMAIN running = {RootBranch}
  BY <1>1 DEF UnderWay
<1>3. /\ LedgerFields(ledger) /\ ledger.used = 0 /\ ledger.admitted = {} /\ ledger.agents = {}
      /\ DOMAIN ledger.complete = {} /\ DOMAIN ledger.branches = {}
      /\ DOMAIN ledger.openBranches = {} /\ DOMAIN ledger.openAdmissions = {}
  BY <1>1 DEF EmptyLedger, LedgerFields
<1>4. RootBranch \in BranchPath /\ <<>> \in DOMAIN Script[RootBranch]
  BY PanelLedgerAssumption, ScriptAssumption
<1>5. LedgerShape
  <2>1. generation \in 1..generationBound
    BY <1>1, PanelLedgerAssumption
  <2>2. QED
    BY <1>2, <1>3, <1>4, <2>1 DEF LedgerShape
<1>6. StackSound
  BY <1>1, <1>2, <1>4 DEF StackSound
<1>7. TracesSound /\ SettledSound /\ MemoryAgrees
  BY <1>2 DEF TracesSound, SettledSound, MemoryAgrees
<1>8. OpenSound /\ DurableSound
  BY <1>1, <1>3 DEF OpenSound, DurableSound
<1>9. BudgetSound
  <2>1. consumed = 0 /\ Slots!AllAtRoot
    BY <1>1 DEF Slots!Init
  <2>2. 0 \in 0..maxAgents
    BY PanelLedgerAssumption
  <2>3. Slots!AdmissionInvariant
    BY <2>1, <2>2, SlotsNew
  <2>4. QED
    BY <1>2, <1>3, <2>1, <2>3 DEF BudgetSound
<1>10. PanelsCommit
  BY <1>1 DEF PanelsCommit, None
<1>11. QED
  BY <1>1, <1>5, <1>6, <1>7, <1>8, <1>9, <1>10 DEF LedgerInvariant

\* What the invariant says is what it is for.
LEMMA LedgerInvariantSuffices == LedgerInvariant => LedgerSound
<1> SUFFICES ASSUME LedgerInvariant PROVE LedgerSound
  OBVIOUS
<1>1. /\ LedgerShape /\ OpenSound /\ DurableSound /\ BudgetSound /\ readable = TRUE /\ PanelsCommit
  BY DEF LedgerInvariant
<1>2. /\ Slots!TypeOK /\ Slots!Conservation /\ consumed = ledger.used
      /\ ledger.used \in 0..maxAgents
  BY <1>1 DEF BudgetSound, Slots!AdmissionInvariant, Slots!TypeOK
<1>3. LedgerTypeOK
  BY <1>1, <1>2 DEF LedgerTypeOK, LedgerShape, DurableSound
<1>4. FileAccepted(ledger)
  <2>1. ledger.used <= maxAgents
    BY <1>2, PanelLedgerAssumption
  <2>2. QED
    BY <1>1, <2>1 DEF FileAccepted, OpenSound, DurableSound
<1>5. QED
  BY <1>1, <1>2, <1>3, <1>4 DEF LedgerSound, JournalReadable, BudgetMatchesLedger

\* A step that changes none of what the invariant is about.
LEMMA LedgerStutters ==
  ASSUME LedgerInvariant, fatal'.kind # "record", generation' = generation,
         UNCHANGED <<ledger, readable, panels, running, inflight>>, UNCHANGED slotVars
  PROVE  LedgerInvariant'
<1>1. /\ ledger' = ledger /\ readable' = readable /\ panels' = panels /\ running' = running
      /\ inflight' = inflight
      /\ rootFree' = rootFree /\ consumed' = consumed /\ live' = live /\ path' = path
      /\ contingent' = contingent /\ parents' = parents /\ nextPanel' = nextPanel
      /\ trace' = trace /\ ended' = ended /\ history' = history
  BY DEF slotVars
<1>2. UnderWay' = UnderWay /\ \A x : Called(x)' <=> Called(x)
  BY <1>1 DEF UnderWay, Called
<1>3. LedgerShape' /\ StackSound'
  BY <1>1, <1>2 DEF LedgerInvariant, LedgerShape, StackSound
<1>4. TracesSound'
  BY <1>1, <1>2 DEF LedgerInvariant, TracesSound, TraceIsTrue, NotAgain
<1>5. SettledSound' /\ MemoryAgrees' /\ OpenSound' /\ DurableSound'
  BY <1>1 DEF LedgerInvariant, SettledSound, MemoryAgrees, OpenSound, DurableSound
<1>6. BudgetSound'
  <2>1. Slots!AdmissionInvariant' <=> Slots!AdmissionInvariant
    BY SlotsUnchanged
  <2>2. QED
    BY <1>1, <2>1 DEF LedgerInvariant, BudgetSound
<1>7. QED
  BY <1>1, <1>3, <1>4, <1>5, <1>6 DEF LedgerInvariant, PanelsCommit

----------------------------------------------------------------------------
(***************************************************************************)
(* A call begins: its admission, and its place in the traces of the panels *)
(* around it.                                                              *)
(***************************************************************************)
\* A sequence that one more element is put to.
LEMMA OneMore ==
  ASSUME NEW T, NEW s \in Seq(T), NEW e \in T
  PROVE  /\ Append(s, e) \in Seq(T) /\ DOMAIN Append(s, e) = DOMAIN s \cup {Len(s) + 1}
         /\ Len(s) + 1 \notin DOMAIN s /\ Append(s, e)[Len(s) + 1] = e
         /\ \A i \in DOMAIN s : Append(s, e)[i] = s[i]
         /\ Range(Append(s, e)) = Range(s) \cup {e}
<1>1. /\ Append(s, e) \in Seq(T) /\ DOMAIN Append(s, e) = DOMAIN s \cup {Len(s) + 1}
      /\ Len(s) + 1 \notin DOMAIN s /\ Append(s, e)[Len(s) + 1] = e
      /\ \A i \in DOMAIN s : Append(s, e)[i] = s[i]
  OBVIOUS
<1>2. Range(Append(s, e)) = Range(s) \cup {e}
  <2> DEFINE a == Append(s, e)
  <2>1. \A x : (\E i \in DOMAIN a : a[i] = x) <=> (\E i \in DOMAIN s : s[i] = x) \/ x = e
    <3> HIDE DEF a
    <3>1. QED
      BY <1>1 DEF a
  <2>2. \A x : (x \in Range(a) <=> \E i \in DOMAIN a : a[i] = x)
               /\ (x \in Range(s) <=> \E i \in DOMAIN s : s[i] = x)
    BY DEF Range
  <2> HIDE DEF a
  <2>3. Range(a) = Range(s) \cup {e}
    BY <2>1, <2>2
  <2>4. QED
    BY <2>3 DEF a
<1>3. QED
  BY <1>1, <1>2

\* A panel has no branch unsettled that its trace has settled.
LEMMA SettledIdle ==
  ASSUME LedgerInvariant, NEW p \in DOMAIN panels, NEW i \in DOMAIN panels[p].branches
  PROVE  <<p, i>> \notin DOMAIN running
BY DEF LedgerInvariant, MemoryAgrees, OpenSound

\* A call that begins is traced in the panels around it, none of which has it yet,
\* and in no branch that has settled.
LEMMA TracesBegin ==
  ASSUME LedgerInvariant, NEW c \in AgentPath, NEW status \in {"pending", "success"},
         AtStep(Home[c], "agent", c), DOMAIN panels' = DOMAIN panels,
         \A p \in DOMAIN panels :
           /\ panels'[p].calls = IF InPanel(c, p) THEN Append(panels[p].calls, [at |-> c, status |-> status])
                                 ELSE panels[p].calls
           /\ panels'[p].branches = panels[p].branches
           /\ \/ panels'[p].admissions = panels[p].admissions
              \/ InPanel(c, p) /\ panels'[p].admissions = panels[p].admissions \cup {c},
         running' = running \/ running' = Resumed(Home[c], TRUE),
         Called(c)', inflight' \ {c} = inflight \ {c}, status = "pending" <=> c \in inflight',
         status = "success" => c \in ledger.agents,
         ledger'.agents = ledger.agents, ledger.admitted \subseteq ledger'.admitted
  PROVE  TracesSound' /\ SettledSound'
<1>1. LedgerShape /\ StackSound /\ TracesSound /\ SettledSound
  BY DEF LedgerInvariant
<1>2. c \in DOMAIN Within
  BY DEF AgentPath
<1>3. Home[c] \in DOMAIN running /\ c \notin UnderWay /\ ~ Called(c)
  BY <1>1, <1>2, NotCalled
<1>4. Above[c] \subseteq DOMAIN running /\ \A b \in Above[c] : b \in BranchPath /\ b[1] \in DOMAIN panels
  BY <1>1, <1>2, <1>3, AroundRunning
<1>5. \A p \in DOMAIN panels : \A call \in Range(panels[p].calls) : call.at # c
  BY <1>1, <1>3 DEF TracesSound, NotAgain
<1>6. UnderWay \subseteq UnderWay'
  BY <1>3 DEF UnderWay
<1>7. ASSUME NEW x, Called(x) PROVE Called(x)'
  <2>1. DOMAIN running' = DOMAIN running
    BY DEF Resumed
  <2>2. \A b \in DOMAIN running : running'[b] = running[b] \/ running'[b] = Append(running[b], TRUE)
    BY DEF Resumed
  <2>3. QED
    BY <1>1, <1>6, <1>7, <2>1, <2>2, CalledKept
<1>8. ASSUME NEW p \in DOMAIN panels PROVE NotAgain(p, c)'
  <2>1. \A b \in Above[c] : Called(b[1])'
    <3>1. \A b \in Above[c] : b[1] \in UnderWay'
      BY <1>4 DEF UnderWay
    <3>2. QED
      BY <3>1 DEF Called
  <2>2. QED
    BY <2>1 DEF NotAgain
<1>9. ASSUME NEW p \in DOMAIN panels, NEW x, NotAgain(p, x) PROVE NotAgain(p, x)'
  BY <1>7, <1>9 DEF NotAgain
<1>10. [at |-> c, status |-> status] \in TracedCall
  BY DEF TracedCall
<1>11. ASSUME NEW p \in DOMAIN panels
       PROVE  LET calls == panels'[p].calls
              IN  /\ calls \in Seq(TracedCall)
                  /\ \A i, j \in DOMAIN calls : calls[i].at = calls[j].at => i = j
                  /\ \A call \in Range(calls) : TraceIsTrue(p, call)' /\ NotAgain(p, call.at)'
                  /\ \A a \in panels'[p].admissions : \E call \in Range(calls) : call.at = a
  <2> DEFINE old == panels[p].calls
             new == panels'[p].calls
             e == [at |-> c, status |-> status]
  <2>1. /\ old \in Seq(TracedCall)
        /\ \A i, j \in DOMAIN old : old[i].at = old[j].at => i = j
        /\ \A call \in Range(old) : TraceIsTrue(p, call) /\ NotAgain(p, call.at)
        /\ \A a \in panels[p].admissions : \E call \in Range(old) : call.at = a
    BY <1>1 DEF TracesSound
  <2>2. ASSUME NEW call \in Range(old) PROVE TraceIsTrue(p, call)' /\ NotAgain(p, call.at)'
    <3>1. call.at # c /\ TraceIsTrue(p, call) /\ NotAgain(p, call.at)
      BY <1>5, <2>1
    <3>2. call.at \in inflight' <=> call.at \in inflight
      BY <3>1
    <3>3. TraceIsTrue(p, call)'
      BY <3>1, <3>2 DEF TraceIsTrue
    <3>4. QED
      BY <1>9, <3>1, <3>3
  <2>3. CASE InPanel(c, p)
    <3>1. new = Append(old, e)
      BY <2>3
    <3>2. /\ new \in Seq(TracedCall) /\ DOMAIN new = DOMAIN old \cup {Len(old) + 1}
          /\ Len(old) + 1 \notin DOMAIN old /\ new[Len(old) + 1] = e
          /\ \A i \in DOMAIN old : new[i] = old[i]
          /\ Range(new) = Range(old) \cup {e}
      <4> HIDE DEF new, old, e
      <4>1. e \in TracedCall
        BY <1>10 DEF e
      <4>2. QED
        BY <2>1, <3>1, <4>1, OneMore
    <3>3. e.at = c /\ e.status = status
      OBVIOUS
    <3>4. TraceIsTrue(p, e)' /\ NotAgain(p, c)'
      BY <1>8, <2>3, <3>3 DEF TraceIsTrue
    <3>5. \A i \in DOMAIN old : old[i].at # c
      BY <1>5 DEF Range
    <3> HIDE DEF new, e, old
    <3>6. \A i, j \in DOMAIN new : new[i].at = new[j].at => i = j
      BY <2>1, <3>2, <3>3, <3>5
    <3>7. ASSUME NEW call \in Range(new) PROVE TraceIsTrue(p, call)' /\ NotAgain(p, call.at)'
      <4>1. CASE call \in Range(old)
        BY <2>2, <4>1
      <4>2. CASE call = e
        BY <3>3, <3>4, <4>2 DEF e
      <4>3. QED
        BY <3>2, <4>1, <4>2
    <3>8. panels'[p].admissions \subseteq panels[p].admissions \cup {c}
      OBVIOUS
    <3>9. \A a \in panels'[p].admissions : \E call \in Range(new) : call.at = a
      BY <2>1, <3>2, <3>3, <3>8
    <3>10. QED
      BY <3>2, <3>6, <3>7, <3>9 DEF new
  <2>4. CASE ~ InPanel(c, p)
    <3>1. new = old /\ panels'[p].admissions = panels[p].admissions
      BY <2>4
    <3> HIDE DEF old
    <3>2. \A call \in Range(new) : TraceIsTrue(p, call)' /\ NotAgain(p, call.at)'
      BY <2>2, <3>1
    <3>3. QED
      BY <2>1, <3>1, <3>2
  <2>5. QED
    BY <2>3, <2>4
<1>12. SettledSound'
  <2>1. ASSUME NEW p \in DOMAIN panels, NEW i \in DOMAIN panels[p].branches
        PROVE  Range(panels[p].branches[i].calls)
                 = {call \in Range(panels'[p].calls) : <<p, i>> \in Above[call.at]}
    <3>1. <<p, i>> \notin Above[c]
      BY <1>4, SettledIdle
    <3>2. panels[p].calls \in Seq(TracedCall)
      BY <1>1 DEF TracesSound
    <3>3. Range(panels'[p].calls) = Range(panels[p].calls)
          \/ Range(panels'[p].calls) = Range(panels[p].calls) \cup {[at |-> c, status |-> status]}
      BY <1>10, <3>2, OneMore
    <3>4. Range(panels[p].branches[i].calls) = {call \in Range(panels[p].calls) : <<p, i>> \in Above[call.at]}
      BY <1>1 DEF SettledSound
    <3>5. QED
      BY <3>1, <3>3, <3>4
  <2>2. \A p \in DOMAIN panels : panels'[p].branches = panels[p].branches
    OBVIOUS
  <2>3. QED
    BY <1>1, <2>1, <2>2 DEF SettledSound
<1>13. TracesSound'
  BY <1>11 DEF TracesSound
<1>14. QED
  BY <1>12, <1>13

----------------------------------------------------------------------------
(***************************************************************************)
(* Calls that are replayed or admitted preserve the invariant.             *)
(***************************************************************************)
\* A panel's record with one call more in its trace.
LEMMA TraceFields ==
  ASSUME NEW t, PanelFields(t), NEW v, NEW u, u = [t EXCEPT !.calls = v]
  PROVE  /\ PanelFields(u) /\ u.calls = v /\ u.id = t.id /\ u.live = t.live
         /\ u.branches = t.branches /\ u.admissions = t.admissions
BY DEF PanelFields

\* Or with one admission more.
LEMMA AdmissionFields ==
  ASSUME NEW t, PanelFields(t), NEW v, NEW u, u = [t EXCEPT !.admissions = v]
  PROVE  /\ PanelFields(u) /\ u.admissions = v /\ u.id = t.id /\ u.live = t.live
         /\ u.branches = t.branches /\ u.calls = t.calls
BY DEF PanelFields

\* The traces in which a call begins.
LEMMA BeginFacts ==
  ASSUME NEW traces, \A p \in DOMAIN traces : PanelFields(traces[p]), NEW c, NEW status
  PROVE  LET begun == BeginPanelAgent(traces, c, status)
         IN  /\ DOMAIN begun = DOMAIN traces
             /\ \A p \in DOMAIN traces :
                  /\ PanelFields(begun[p]) /\ begun[p].id = traces[p].id
                  /\ begun[p].branches = traces[p].branches /\ begun[p].admissions = traces[p].admissions
                  /\ begun[p].calls = IF InPanel(c, p) THEN Append(traces[p].calls, [at |-> c, status |-> status])
                                      ELSE traces[p].calls
<1> DEFINE begun == BeginPanelAgent(traces, c, status)
<1>1. DOMAIN begun = DOMAIN traces
  BY DEF BeginPanelAgent
<1>2. ASSUME NEW p \in DOMAIN traces
      PROVE  begun[p] = IF InPanel(c, p)
                        THEN [traces[p] EXCEPT !.calls = Append(traces[p].calls, [at |-> c, status |-> status])]
                        ELSE traces[p]
  BY DEF BeginPanelAgent
<1>3. QED
  <2> HIDE DEF begun
  <2>1. ASSUME NEW p \in DOMAIN traces
        PROVE /\ PanelFields(begun[p]) /\ begun[p].id = traces[p].id
              /\ begun[p].branches = traces[p].branches /\ begun[p].admissions = traces[p].admissions
              /\ begun[p].calls = IF InPanel(c, p) THEN Append(traces[p].calls, [at |-> c, status |-> status])
                                  ELSE traces[p].calls
    <3>1. PanelFields(traces[p])
      OBVIOUS
    <3>2. CASE InPanel(c, p)
      <4> DEFINE t == traces[p]
                 u == begun[p]
                 v == Append(traces[p].calls, [at |-> c, status |-> status])
      <4>1. PanelFields(t) /\ u = [t EXCEPT !.calls = v]
        BY <1>2, <3>1, <3>2
      <4>2. /\ PanelFields(u) /\ u.calls = v /\ u.id = t.id
            /\ u.branches = t.branches /\ u.admissions = t.admissions
        <5> HIDE DEF t, u, v
        <5>1. QED
          BY <4>1, TraceFields
      <4>3. QED
        BY <3>2, <4>2
    <3>3. CASE ~ InPanel(c, p)
      BY <1>2, <3>1, <3>3
    <3>4. QED
      BY <3>2, <3>3
  <2>2. QED
    BY <1>1, <2>1 DEF begun

\* A branch that goes on after what it waited for, which is over now.
LEMMA StackGoesOn ==
  ASSUME LedgerShape, StackSound, NEW b \in DOMAIN running, NEW ok \in BOOLEAN,
         Script[b][running[b]].do # "end", running' = Resumed(b, ok),
         UnderWay' \subseteq UnderWay, \A x \in UnderWay' : Home[x] # b,
         \A a \in DOMAIN running : a = RootBranch \/ a[1] \in DOMAIN panels'
  PROVE  StackSound'
<1>1. b \in BranchPath /\ Append(running[b], ok) \in DOMAIN Script[b]
  BY ScriptAssumption DEF LedgerShape, StackSound
<1>2. /\ DOMAIN running' = DOMAIN running /\ running'[b] = Append(running[b], ok)
      /\ \A a \in DOMAIN running : a # b => running'[a] = running[a]
  BY DEF Resumed
<1>3. \A a \in DOMAIN running' :
        running'[a] \in DOMAIN Script[a] /\ (a = RootBranch \/ a[1] \in DOMAIN panels')
  BY <1>1, <1>2 DEF StackSound
<1>4. ASSUME NEW x \in UnderWay'
      PROVE  LET a == Home[x]
             IN  /\ a \in DOMAIN running' /\ Above[x] \subseteq DOMAIN running'
                 /\ Script[a][running'[a]].do # "end" /\ Script[a][running'[a]].of = x
  BY <1>2, <1>4 DEF StackSound
<1>5. QED
  BY <1>3, <1>4 DEF StackSound

\* An agent call replayed preserves the invariant.
LEMMA ReplayAgentKeeps ==
  ASSUME LedgerInvariant, NEW c \in AgentPath, ReplayAgent(c)
  PROVE  LedgerInvariant'
<1>1. /\ LedgerShape /\ StackSound /\ TracesSound /\ SettledSound /\ MemoryAgrees /\ OpenSound
      /\ DurableSound /\ BudgetSound /\ readable /\ PanelsCommit
  BY DEF LedgerInvariant
<1>2. /\ AtStep(Home[c], "agent", c) /\ c \in ledger.agents
      /\ panels' = BeginPanelAgent(panels, c, "success")
      /\ running' = Resumed(Home[c], TRUE)
      /\ ledger' = ledger /\ readable' = readable /\ inflight' = inflight /\ fatal' = fatal
      /\ generation' = generation /\ UNCHANGED slotVars
  BY DEF ReplayAgent, slotVars
<1>3. c \in DOMAIN Within
  BY DEF AgentPath
<1>4. /\ Home[c] \in DOMAIN running /\ Script[Home[c]][running[Home[c]]].do # "end"
      /\ Script[Home[c]][running[Home[c]]].of = c
      /\ \A y \in UnderWay : Home[y] # Home[c]
      /\ c \notin UnderWay
  BY <1>1, <1>2, <1>3, NotCalled
<1>5. /\ DOMAIN panels' = DOMAIN panels
      /\ \A p \in DOMAIN panels :
           /\ PanelFields(panels'[p]) /\ panels'[p].id = panels[p].id
           /\ panels'[p].branches = panels[p].branches /\ panels'[p].admissions = panels[p].admissions
           /\ panels'[p].calls = IF InPanel(c, p) THEN Append(panels[p].calls, [at |-> c, status |-> "success"])
                                 ELSE panels[p].calls
  BY <1>1, <1>2, BeginFacts DEF LedgerShape
<1>6. UnderWay' = UnderWay /\ DOMAIN running' = DOMAIN running
  BY <1>2, <1>5 DEF UnderWay, Resumed
<1>7. LedgerShape'
  BY <1>1, <1>2, <1>5, <1>6 DEF LedgerShape
<1>8. StackSound'
  <2>1. \A a \in DOMAIN running : a = RootBranch \/ a[1] \in DOMAIN panels'
    BY <1>1, <1>5 DEF StackSound
  <2>2. QED
    BY <1>1, <1>2, <1>4, <1>6, <2>1, StackGoesOn
<1>9. Called(c)'
  <2> DEFINE b == Home[c]
  <2>1. running[b] \in Seq(BOOLEAN)
    BY <1>1, <1>4, ScriptAssumption DEF LedgerShape, StackSound
  <2>2. running'[b] = Append(running[b], TRUE)
    BY <1>2, <1>4 DEF Resumed
  <2>3. /\ Len(running[b]) \in Nat /\ Len(running'[b]) = Len(running[b]) + 1
        /\ SubSeq(running'[b], 1, Len(running[b])) = running[b]
    <3>1. \A q \in Seq(BOOLEAN) : Len(q) \in Nat /\ Len(Append(q, TRUE)) = Len(q) + 1
                                 /\ SubSeq(Append(q, TRUE), 1, Len(q)) = q
      OBVIOUS
    <3>2. QED
      BY <2>1, <2>2, <3>1
  <2>4. Len(running[b]) \in 0..(Len(running'[b]) - 1)
    BY <2>3
  <2>5. QED
    BY <1>4, <2>3, <2>4 DEF Called
<1>10. TracesSound' /\ SettledSound'
  <2>1. c \notin inflight'
    BY <1>2, <1>4 DEF UnderWay
  <2>2. QED
    BY <1>2, <1>5, <1>9, <2>1, TracesBegin
<1>11. MemoryAgrees' /\ OpenSound' /\ DurableSound'
  BY <1>1, <1>2, <1>5, <1>6 DEF MemoryAgrees, OpenSound, DurableSound
<1>12. BudgetSound'
  <2>1. consumed' = consumed /\ nextPanel' = nextPanel
    BY <1>2 DEF slotVars
  <2>2. Slots!AdmissionInvariant'
    BY <1>1, <1>2, SlotsUnchanged DEF BudgetSound
  <2>3. QED
    BY <1>1, <1>2, <1>5, <2>1, <2>2 DEF BudgetSound
<1>13. readable' /\ PanelsCommit'
  BY <1>1, <1>2 DEF PanelsCommit
<1>14. QED
  BY <1>7, <1>8, <1>10, <1>11, <1>12, <1>13 DEF LedgerInvariant

\* An agent call admitted preserves the invariant.
LEMMA AdmitAgentKeeps ==
  ASSUME LedgerInvariant, NEW c \in AgentPath, AdmitAgent(c)
  PROVE  LedgerInvariant'
<1>1. /\ LedgerShape /\ StackSound /\ TracesSound /\ SettledSound /\ MemoryAgrees /\ OpenSound
      /\ DurableSound /\ BudgetSound /\ readable /\ PanelsCommit
  BY DEF LedgerInvariant
<1>2. /\ AtStep(Home[c], "agent", c) /\ c \notin ledger.agents
      /\ Commit(AdmitRecord(c))
      /\ panels' = BeginPanelAgent(RecordAdmission(c), c, "pending")
      /\ inflight' = inflight \cup {c} /\ running' = running /\ fatal' = fatal
      /\ generation' = generation
      /\ \/ Slots!ConsumeReserved(ContextOf(Home[c]))
         \/ Slots!ConsumeContingent(ContextOf(Home[c]))
         \/ Slots!ConsumeRoot
  BY DEF AdmitAgent
<1>3. c \in DOMAIN Within
  BY DEF AgentPath
<1>4. /\ Home[c] \in DOMAIN running /\ Script[Home[c]][running[Home[c]]].do # "end"
      /\ Script[Home[c]][running[Home[c]]].of = c
      /\ \A y \in UnderWay : Home[y] # Home[c]
      /\ c \notin UnderWay
  BY <1>1, <1>2, <1>3, NotCalled
<1>5. Above[c] \subseteq DOMAIN running
  BY <1>1, <1>3, <1>4, AroundRunning
<1>6. /\ LedgerFields(ledger') /\ ledger'.used = ledger.used + 1
      /\ ledger'.admitted = ledger.admitted \cup {c} /\ ledger'.agents = ledger.agents
      /\ ledger'.complete = ledger.complete /\ ledger'.branches = ledger.branches
      /\ ledger'.openBranches = ledger.openBranches
      /\ ledger'.openAdmissions = NoteAdmission(ledger.openAdmissions, c)
  BY <1>1, <1>2, LoadAdmit DEF LedgerShape, Commit
<1>7. /\ DOMAIN panels' = DOMAIN panels
      /\ \A p \in DOMAIN panels :
           /\ PanelFields(panels'[p]) /\ panels'[p].id = panels[p].id
           /\ panels'[p].branches = panels[p].branches
           /\ panels'[p].admissions = IF InPanel(c, p) THEN panels[p].admissions \cup {c} ELSE panels[p].admissions
           /\ panels'[p].calls = IF InPanel(c, p) THEN Append(panels[p].calls, [at |-> c, status |-> "pending"])
                                 ELSE panels[p].calls
  <2> DEFINE noted == RecordAdmission(c)
  <2>1. DOMAIN noted = DOMAIN panels
    BY DEF RecordAdmission
  <2>2. ASSUME NEW p \in DOMAIN panels
        PROVE  noted[p] = IF InPanel(c, p) THEN [panels[p] EXCEPT !.admissions = panels[p].admissions \cup {c}]
                          ELSE panels[p]
    BY DEF RecordAdmission
  <2>3. ASSUME NEW p \in DOMAIN panels
        PROVE  /\ PanelFields(noted[p]) /\ noted[p].id = panels[p].id
               /\ noted[p].branches = panels[p].branches /\ noted[p].calls = panels[p].calls
               /\ noted[p].admissions = IF InPanel(c, p) THEN panels[p].admissions \cup {c} ELSE panels[p].admissions
    <3> HIDE DEF noted
    <3>1. PanelFields(panels[p])
      BY <1>1 DEF LedgerShape
    <3>2. CASE InPanel(c, p)
      <4> DEFINE t == panels[p]
                 u == noted[p]
                 v == panels[p].admissions \cup {c}
      <4>1. PanelFields(t) /\ u = [t EXCEPT !.admissions = v]
        BY <2>2, <3>1, <3>2
      <4>2. /\ PanelFields(u) /\ u.admissions = v /\ u.id = t.id
            /\ u.branches = t.branches /\ u.calls = t.calls
        <5> HIDE DEF t, u, v
        <5>1. QED
          BY <4>1, AdmissionFields
      <4>3. QED
        BY <3>2, <4>2
    <3>3. CASE ~ InPanel(c, p)
      BY <2>2, <3>1, <3>3
    <3>4. QED
      BY <3>2, <3>3
  <2> HIDE DEF noted
  <2>4. panels' = BeginPanelAgent(noted, c, "pending")
    BY <1>2 DEF noted
  <2>5. \A p \in DOMAIN noted : PanelFields(noted[p])
    BY <2>1, <2>3
  <2>6. /\ DOMAIN panels' = DOMAIN noted
        /\ \A p \in DOMAIN noted :
             /\ PanelFields(panels'[p]) /\ panels'[p].id = noted[p].id
             /\ panels'[p].branches = noted[p].branches /\ panels'[p].admissions = noted[p].admissions
             /\ panels'[p].calls = IF InPanel(c, p) THEN Append(noted[p].calls, [at |-> c, status |-> "pending"])
                                   ELSE noted[p].calls
    BY <2>4, <2>5, BeginFacts
  <2>7. QED
    BY <2>1, <2>3, <2>6
<1>8. UnderWay' = UnderWay \cup {c}
  BY <1>2, <1>7 DEF UnderWay
<1>9. LedgerShape'
  <2>1. DOMAIN ledger'.openAdmissions = DOMAIN ledger.openAdmissions
    BY <1>6 DEF NoteAdmission
  <2>2. QED
    BY <1>1, <1>2, <1>6, <1>7, <2>1 DEF LedgerShape
<1>10. StackSound'
  BY <1>1, <1>2, <1>4, <1>5, <1>7, <1>8 DEF StackSound
<1>11. TracesSound' /\ SettledSound'
  <2>1. Called(c)'
    BY <1>8 DEF Called
  <2>2. inflight' \ {c} = inflight \ {c} /\ c \in inflight' /\ ledger.admitted \subseteq ledger'.admitted
    BY <1>2, <1>6
  <2>3. QED
    BY <1>2, <1>6, <1>7, <2>1, <2>2, TracesBegin
<1>12. MemoryAgrees'
  BY <1>1, <1>6, <1>7 DEF MemoryAgrees, LedgerShape, NoteAdmission
<1>13. OpenSound'
  <2>1. ASSUME NEW p \in DOMAIN ledger.openBranches, NEW i \in DOMAIN ledger.openBranches[p]
        PROVE  Covers(ledger', <<p, i>>, ledger.openBranches[p][i].calls)
    <3>1. Covers(ledger, <<p, i>>, ledger.openBranches[p][i].calls) /\ <<p, i>> \notin Above[c]
      BY <1>1, <1>5 DEF OpenSound, OpenBranchesCovered
    <3>2. p \in DOMAIN ledger'.openAdmissions
          /\ \A a \in ledger'.openAdmissions[p] : a \in ledger.openAdmissions[p] \/ a = c
      BY <1>1, <1>6 DEF LedgerShape, NoteAdmission
    <3>3. <<p, i>>[1] = p
      OBVIOUS
    <3>4. \A a \in ledger'.openAdmissions[p] : <<p, i>> \in Above[a] =>
            a \in ledger.openAdmissions[p] /\ (a \in ledger'.agents <=> a \in ledger.agents)
      BY <1>6, <3>1, <3>2
    <3>5. QED
      BY <3>1, <3>2, <3>3, <3>4, StillCovered
  <2>2. QED
    BY <1>1, <1>2, <1>6, <2>1 DEF OpenSound, OpenBranchesCovered
<1>14. DurableSound'
  BY <1>1, <1>2, <1>6 DEF DurableSound
<1>15. BudgetSound'
  <2>1. consumed' = consumed + 1 /\ nextPanel' = nextPanel
    BY <1>2 DEF Slots!ConsumeReserved, Slots!ConsumeContingent, Slots!ConsumeRoot
  <2>2. Slots!AdmissionInvariant'
    BY <1>1, <1>2, <1>4, Contexts, SlotsAdmit DEF BudgetSound
  <2>3. QED
    BY <1>1, <1>6, <1>7, <2>1, <2>2 DEF BudgetSound
<1>16. readable' /\ PanelsCommit'
  <2>1. Accepts(ledger, AdmitRecord(c))
    BY DEF Accepts, Consistent, CallsKnown, AdmitRecord
  <2>2. QED
    BY <1>1, <1>2, <2>1 DEF PanelsCommit, Commit
<1>17. QED
  BY <1>9, <1>10, <1>11, <1>12, <1>13, <1>14, <1>15, <1>16 DEF LedgerInvariant

----------------------------------------------------------------------------
(***************************************************************************)
(* Calls that end preserve it.                                             *)
(***************************************************************************)
\* A trace in which a call has ended.
LEMMA CallEnds ==
  ASSUME NEW old \in Seq(TracedCall), \A i, j \in DOMAIN old : old[i].at = old[j].at => i = j,
         NEW c \in AgentPath, NEW status \in {"success", "failed"},
         NEW e, e = [at |-> c, status |-> status],
         NEW new, new = [i \in DOMAIN old |-> IF old[i].at = c THEN e ELSE old[i]]
  PROVE  /\ new \in Seq(TracedCall)
         /\ \A i, j \in DOMAIN new : new[i].at = new[j].at => i = j
         /\ \A call \in Range(old) : call.at # c => call \in Range(new)
         /\ \A call \in Range(old) : call.at = c => e \in Range(new)
         /\ \A call \in Range(new) :
              \/ call.at # c /\ call \in Range(old)
              \/ call = e /\ \E k \in Range(old) : k.at = c
<1>1. e \in TracedCall /\ e.at = c
  BY DEF TracedCall
<1>2. Len(old) \in Nat /\ DOMAIN old = 1..Len(old) /\ \A i \in DOMAIN old : old[i] \in TracedCall
  OBVIOUS
<1>3. DOMAIN new = DOMAIN old /\ \A i \in DOMAIN old : new[i] = IF old[i].at = c THEN e ELSE old[i]
  OBVIOUS
<1>4. new \in [1..Len(old) -> TracedCall]
  BY <1>1, <1>2, <1>3
<1>5. new \in Seq(TracedCall)
  BY <1>2, <1>4
<1>6. \A i, j \in DOMAIN new : new[i].at = new[j].at => i = j
  BY <1>1, <1>3
<1>7. /\ \A call \in Range(old) : call.at # c => call \in Range(new)
      /\ \A call \in Range(old) : call.at = c => e \in Range(new)
      /\ \A call \in Range(new) :
           \/ call.at # c /\ call \in Range(old)
           \/ call = e /\ \E k \in Range(old) : k.at = c
  BY <1>3 DEF Range
<1>8. QED
  BY <1>5, <1>6, <1>7

\* The end of a call, with its result or without, preserves the invariant.
LEMMA AgentEndKeeps ==
  ASSUME LedgerInvariant, NEW c \in AgentPath, NEW status \in {"success", "failed"},
         NEW ok \in BOOLEAN, c \in inflight,
         panels' = FinishPanelAgent(c, status), running' = Resumed(Home[c], ok),
         inflight' = inflight \ {c},
         \/ status = "success" /\ Commit(AgentRecord(c))
         \/ status = "failed" /\ ledger' = ledger /\ readable' = readable,
         UNCHANGED <<fatal, generation, slotVars>>
  PROVE  LedgerInvariant'
<1>1. /\ LedgerShape /\ StackSound /\ TracesSound /\ SettledSound /\ MemoryAgrees /\ OpenSound
      /\ DurableSound /\ BudgetSound /\ readable /\ PanelsCommit
  BY DEF LedgerInvariant
<1>2. fatal' = fatal /\ generation' = generation /\ UNCHANGED slotVars
  OBVIOUS
<1> DEFINE b == Home[c]
<1>3. /\ c \in UnderWay /\ c \in DOMAIN Within /\ c \notin DOMAIN panels
      /\ b \in DOMAIN running /\ Above[c] \subseteq DOMAIN running
      /\ Script[b][running[b]].do # "end" /\ Script[b][running[b]].of = c
      /\ \A x \in UnderWay : Home[x] = b => x = c
  BY <1>1 DEF StackSound, UnderWay, AgentPath, LedgerShape
<1>4. /\ LedgerFields(ledger') /\ ledger'.used = ledger.used
      /\ ledger'.admitted = ledger.admitted
      /\ ledger'.agents = IF status = "success" THEN ledger.agents \cup {c} ELSE ledger.agents
      /\ ledger'.complete = ledger.complete /\ ledger'.branches = ledger.branches
      /\ ledger'.openBranches = ledger.openBranches
      /\ ledger'.openAdmissions = ledger.openAdmissions
  <2>1. CASE status = "success" /\ Commit(AgentRecord(c))
    BY <1>1, <2>1, LoadAgent DEF LedgerShape, Commit
  <2>2. CASE status = "failed" /\ ledger' = ledger
    BY <1>1, <2>2 DEF LedgerShape
  <2>3. QED
    BY <2>1, <2>2
<1>5. /\ DOMAIN panels' = DOMAIN panels
      /\ \A p \in DOMAIN panels :
           /\ PanelFields(panels'[p]) /\ panels'[p].id = panels[p].id
           /\ panels'[p].branches = panels[p].branches /\ panels'[p].admissions = panels[p].admissions
           /\ panels'[p].calls = [i \in DOMAIN panels[p].calls |->
                                    IF panels[p].calls[i].at = c THEN [at |-> c, status |-> status]
                                    ELSE panels[p].calls[i]]
  <2>1. DOMAIN panels' = DOMAIN panels
    BY DEF FinishPanelAgent
  <2>2. ASSUME NEW p \in DOMAIN panels
        PROVE  /\ PanelFields(panels'[p]) /\ panels'[p].id = panels[p].id
               /\ panels'[p].branches = panels[p].branches /\ panels'[p].admissions = panels[p].admissions
               /\ panels'[p].calls = [i \in DOMAIN panels[p].calls |->
                                        IF panels[p].calls[i].at = c THEN [at |-> c, status |-> status]
                                        ELSE panels[p].calls[i]]
    <3> DEFINE t == panels[p]
               u == panels'[p]
               v == [i \in DOMAIN panels[p].calls |->
                       IF panels[p].calls[i].at = c THEN [at |-> c, status |-> status] ELSE panels[p].calls[i]]
    <3>1. PanelFields(t)
      BY <1>1 DEF LedgerShape
    <3>2. u = [t EXCEPT !.calls = v]
      BY <2>1 DEF FinishPanelAgent
    <3>3. PanelFields(u) /\ u.calls = v /\ u.id = t.id /\ u.branches = t.branches /\ u.admissions = t.admissions
      <4> HIDE DEF t, u, v
      <4>1. QED
        BY <3>1, <3>2, TraceFields
    <3>4. QED
      BY <3>3
  <2>3. QED
    BY <2>1, <2>2
<1>6. UnderWay' = UnderWay \ {c} /\ DOMAIN running' = DOMAIN running
  BY <1>3, <1>5 DEF UnderWay, Resumed
<1>7. LedgerShape'
  BY <1>1, <1>2, <1>4, <1>5, <1>6 DEF LedgerShape
<1>8. StackSound'
  <2>1. \A a \in DOMAIN running : a = RootBranch \/ a[1] \in DOMAIN panels'
    BY <1>1, <1>5 DEF StackSound
  <2>2. UnderWay' \subseteq UnderWay /\ \A x \in UnderWay' : Home[x] # b
    BY <1>3, <1>6
  <2>3. QED
    BY <1>1, <1>3, <2>1, <2>2, StackGoesOn
<1>9. ASSUME NEW x, Called(x) PROVE Called(x)'
  <2>1. running'[b] = Append(running[b], ok) /\ \A a \in DOMAIN running : a # b => running'[a] = running[a]
    BY <1>3 DEF Resumed
  <2>2. x \in UnderWay /\ x \notin UnderWay' => x = c
    BY <1>6
  <2>3. /\ Home[x] \in DOMAIN running' => Home[x] \in DOMAIN running
        /\ \A a \in DOMAIN running' \cap DOMAIN running :
             running'[a] = running[a] \/ \E k \in BOOLEAN : running'[a] = Append(running[a], k)
        /\ x \in UnderWay /\ x \notin UnderWay' /\ Home[x] \in DOMAIN running' =>
             \E k \in BOOLEAN : running'[Home[x]] = Append(running[Home[x]], k)
    BY <1>6, <2>1, <2>2
  <2>4. QED
    BY <1>1, <1>9, <2>3, CalledKept
<1>10. ASSUME NEW p \in DOMAIN panels
       PROVE  LET calls == panels'[p].calls
              IN  /\ calls \in Seq(TracedCall)
                  /\ \A i, j \in DOMAIN calls : calls[i].at = calls[j].at => i = j
                  /\ \A call \in Range(calls) : TraceIsTrue(p, call)' /\ NotAgain(p, call.at)'
                  /\ \A a \in panels'[p].admissions : \E call \in Range(calls) : call.at = a
                  /\ \A i \in DOMAIN panels[p].branches :
                       Range(panels[p].branches[i].calls) = {call \in Range(calls) : <<p, i>> \in Above[call.at]}
  <2> DEFINE old == panels[p].calls
             new == panels'[p].calls
             e == [at |-> c, status |-> status]
  <2>1. /\ old \in Seq(TracedCall)
        /\ \A i, j \in DOMAIN old : old[i].at = old[j].at => i = j
        /\ \A call \in Range(old) : TraceIsTrue(p, call) /\ NotAgain(p, call.at)
        /\ \A a \in panels[p].admissions : \E call \in Range(old) : call.at = a
    BY <1>1 DEF TracesSound
  <2>2. new = [i \in DOMAIN old |-> IF old[i].at = c THEN e ELSE old[i]]
    BY <1>5
  <2>3. /\ new \in Seq(TracedCall)
        /\ \A i, j \in DOMAIN new : new[i].at = new[j].at => i = j
        /\ \A call \in Range(old) : call.at # c => call \in Range(new)
        /\ \A call \in Range(old) : call.at = c => e \in Range(new)
        /\ \A call \in Range(new) :
             \/ call.at # c /\ call \in Range(old)
             \/ call = e /\ \E k \in Range(old) : k.at = c
    <3>1. e = [at |-> c, status |-> status]
      OBVIOUS
    <3> HIDE DEF old, new, e
    <3>2. QED
      BY <2>1, <2>2, <3>1, CallEnds
  <2>4. e.at = c /\ e.status = status
    OBVIOUS
  <2>5. ASSUME NEW call \in Range(new) PROVE TraceIsTrue(p, call)' /\ NotAgain(p, call.at)'
    <3>1. CASE call.at # c /\ call \in Range(old)
      <4>1. TraceIsTrue(p, call) /\ NotAgain(p, call.at)
        BY <2>1, <3>1
      <4>2. /\ call.at \in inflight' <=> call.at \in inflight
            /\ call.at \in ledger'.agents <=> call.at \in ledger.agents
        BY <1>4, <3>1
      <4>3. TraceIsTrue(p, call)'
        BY <1>4, <4>1, <4>2 DEF TraceIsTrue
      <4>4. NotAgain(p, call.at)'
        BY <1>9, <4>1 DEF NotAgain
      <4>5. QED
        BY <4>3, <4>4
    <3>2. CASE call = e /\ \E k \in Range(old) : k.at = c
      <4>1. InPanel(c, p) /\ NotAgain(p, c)
        BY <2>1, <3>2 DEF TraceIsTrue
      <4>2. c \in ledger.admitted /\ c \notin ledger.agents
        BY <1>1 DEF DurableSound
      <4>3. TraceIsTrue(p, e)'
        BY <1>4, <2>4, <4>1, <4>2 DEF TraceIsTrue
      <4>4. NotAgain(p, c)'
        BY <1>9, <4>1 DEF NotAgain
      <4>5. QED
        BY <2>4, <3>2, <4>3, <4>4
    <3>3. QED
      BY <2>3, <3>1, <3>2
  <2>6. \A a \in panels'[p].admissions : \E call \in Range(new) : call.at = a
    <3> HIDE DEF old, new, e
    <3>1. QED
      BY <1>5, <2>1, <2>3, <2>4
  <2>7. ASSUME NEW i \in DOMAIN panels[p].branches
        PROVE  Range(panels[p].branches[i].calls) = {call \in Range(new) : <<p, i>> \in Above[call.at]}
    <3>1. Range(panels[p].branches[i].calls) = {call \in Range(old) : <<p, i>> \in Above[call.at]}
      BY <1>1 DEF SettledSound
    <3>2. <<p, i>> \notin Above[c]
      BY <1>3, SettledIdle
    <3> HIDE DEF old, new, e
    <3>3. \A call : call \in Range(old) /\ <<p, i>> \in Above[call.at]
                    <=> call \in Range(new) /\ <<p, i>> \in Above[call.at]
      BY <2>3, <2>4, <3>2
    <3>4. QED
      BY <3>1, <3>3
  <2>8. QED
    BY <2>3, <2>5, <2>6, <2>7
<1>11. TracesSound'
  BY <1>5, <1>10 DEF TracesSound
<1>12. SettledSound'
  <2>1. ASSUME NEW p \in DOMAIN panels, NEW i \in DOMAIN panels[p].branches
        PROVE  Range(panels[p].branches[i].calls)
                 = {call \in Range(panels'[p].calls) : <<p, i>> \in Above[call.at]}
    BY <1>10
  <2>2. DOMAIN panels' = DOMAIN panels /\ \A p \in DOMAIN panels : panels'[p].branches = panels[p].branches
    BY <1>5
  <2>3. QED
    BY <1>1, <2>1, <2>2 DEF SettledSound
<1>13. MemoryAgrees'
  BY <1>1, <1>4, <1>5 DEF MemoryAgrees
<1>14. OpenSound'
  <2>1. ASSUME NEW p \in DOMAIN ledger.openBranches, NEW i \in DOMAIN ledger.openBranches[p]
        PROVE  Covers(ledger', <<p, i>>, ledger.openBranches[p][i].calls)
    <3>1. Covers(ledger, <<p, i>>, ledger.openBranches[p][i].calls) /\ <<p, i>> \notin Above[c]
      BY <1>1, <1>3 DEF OpenSound, OpenBranchesCovered
    <3>2. p \in DOMAIN ledger'.openAdmissions /\ <<p, i>>[1] = p
      BY <1>1, <1>4 DEF LedgerShape
    <3>3. \A a \in ledger'.openAdmissions[p] : <<p, i>> \in Above[a] =>
            a \in ledger.openAdmissions[p] /\ (a \in ledger'.agents <=> a \in ledger.agents)
      BY <1>4, <3>1
    <3>4. QED
      BY <3>1, <3>2, <3>3, StillCovered
  <2>2. QED
    BY <1>1, <1>4, <1>6, <2>1 DEF OpenSound, OpenBranchesCovered
<1>15. DurableSound'
  BY <1>1, <1>4 DEF DurableSound
<1>16. BudgetSound'
  <2>1. consumed' = consumed /\ nextPanel' = nextPanel
    BY <1>2 DEF slotVars
  <2>2. Slots!AdmissionInvariant'
    BY <1>1, <1>2, SlotsUnchanged DEF BudgetSound
  <2>3. QED
    BY <1>1, <1>4, <1>5, <2>1, <2>2 DEF BudgetSound
<1>17. readable' /\ PanelsCommit'
  <2>1. c \notin ledger.agents
    BY <1>1 DEF DurableSound
  <2>2. Accepts(ledger, AgentRecord(c))
    BY <2>1 DEF Accepts, Consistent, CallsKnown, AgentRecord
  <2>3. QED
    BY <1>1, <1>2, <2>2 DEF PanelsCommit, Commit
<1>18. QED
  BY <1>7, <1>8, <1>11, <1>12, <1>13, <1>14, <1>15, <1>16, <1>17 DEF LedgerInvariant

----------------------------------------------------------------------------
(***************************************************************************)
(* Panels that open preserve it.                                           *)
(***************************************************************************)
\* No call that is traced in an open panel is made in a panel that only opens now.
LEMMA NewPanelElsewhere ==
  ASSUME LedgerInvariant, NEW p \in PanelPath, AtStep(Home[p], "parallel", p),
         NEW q \in DOMAIN panels, NEW call \in Range(panels[q].calls)
  PROVE  ~ InPanel(call.at, p)
<1> SUFFICES ASSUME InPanel(call.at, p) PROVE FALSE
  OBVIOUS
<1>1. LedgerShape /\ StackSound /\ TracesSound
  BY DEF LedgerInvariant
<1>2. p \in DOMAIN Within /\ q \in PanelPath /\ q \in DOMAIN Within
  BY <1>1, PanelLedgerAssumption DEF LedgerShape
<1>3. p \notin UnderWay /\ ~ Called(p) /\ q \in UnderWay
  BY <1>1, <1>2, NotCalled DEF UnderWay
<1> DEFINE c == call.at
<1>4. InPanel(c, q) /\ NotAgain(q, c)
  BY <1>1 DEF TracesSound, TraceIsTrue
<1>5. c \in DOMAIN Within
  <2>1. panels[q].calls \in Seq(TracedCall)
    BY <1>1 DEF TracesSound
  <2>2. call \in TracedCall
    BY <2>1 DEF Range
  <2>3. QED
    BY <2>2 DEF TracedCall, AgentPath
<1>6. PICK bp \in Above[c] : bp[1] = p
  BY DEF InPanel
<1>7. PICK bq \in Above[c] : bq[1] = q
  BY <1>4 DEF InPanel
<1>8. bp = bq \/ bp \in Above[q] \/ bq \in Above[p]
  BY <1>5, <1>6, <1>7, PathFacts
<1>9. CASE bp = bq
  BY <1>3, <1>6, <1>7, <1>9
<1>10. CASE bp \in Above[q]
  <2>1. bp \in DOMAIN running /\ bp # RootBranch
    BY <1>1, <1>2, <1>3, <1>10, PathFacts DEF StackSound
  <2>2. p \in DOMAIN panels
    BY <1>1, <1>6, <2>1 DEF StackSound
  <2>3. QED
    BY <1>3, <2>2 DEF UnderWay
<1>11. CASE bq \in Above[p]
  <2>1. InPanel(bp[1], q)
    BY <1>6, <1>7, <1>11 DEF InPanel
  <2>2. Called(p)
    BY <1>4, <1>6, <2>1 DEF NotAgain
  <2>3. QED
    BY <1>3, <2>2
<1>12. QED
  BY <1>8, <1>9, <1>10, <1>11

\* A panel that opens preserves the invariant.
LEMMA OpenPanelKeeps ==
  ASSUME LedgerInvariant, NEW p \in PanelPath, OpenPanel(p)
  PROVE  LedgerInvariant'
<1>1. /\ LedgerShape /\ StackSound /\ TracesSound /\ SettledSound /\ MemoryAgrees /\ OpenSound
      /\ DurableSound /\ BudgetSound /\ readable /\ PanelsCommit
  BY DEF LedgerInvariant
<1> DEFINE b == Home[p]
           planned == Slots!LiveSlots(Needs(p), ReserveAgents[p], SlotCredit(ledger, p))
           t == [id |-> nextPanel', live |-> planned, calls |-> <<>>, branches |-> <<>>, admissions |-> {}]
<1>2. /\ AtStep(b, "parallel", p)
      /\ Slots!OpenPanel(ContextOf(b), Needs(p), ReserveAgents[p], SlotCredit(ledger, p))
      /\ nextPanel' = nextPanel + 1
      /\ Commit(OpenRecord(p))
      /\ panels' = Put(panels, p, t)
      /\ running' = [c \in DOMAIN running \cup BranchesOf(p) |->
                       IF c \in BranchesOf(p) THEN <<>> ELSE running[c]]
      /\ inflight' = inflight /\ fatal' = fatal /\ generation' = generation
  BY DEF OpenPanel
<1> HIDE DEF planned
<1>3. p \in DOMAIN Within
  BY PanelLedgerAssumption
<1>4. /\ b \in DOMAIN running /\ Script[b][running[b]].do # "end" /\ Script[b][running[b]].of = p
      /\ \A y \in UnderWay : Home[y] # b
      /\ p \notin UnderWay /\ p \notin DOMAIN panels
  BY <1>1, <1>2, <1>3, NotCalled DEF UnderWay
<1>5. Above[p] \subseteq DOMAIN running
  BY <1>1, <1>3, <1>4, AroundRunning
<1>6. /\ \A c \in BranchesOf(p) : c \in BranchPath /\ c # RootBranch /\ c[1] = p
      /\ \A c \in BranchesOf(p) : c \notin DOMAIN running
      /\ \A q, i : <<q, i>> \in BranchesOf(p) => q = p
  <2>1. \A c \in BranchesOf(p) : c \in BranchPath /\ c # RootBranch /\ c[1] = p
    BY BranchOfPanel DEF BranchesOf
  <2>2. \A c \in BranchesOf(p) : c \notin DOMAIN running
    BY <1>1, <1>4, <2>1 DEF StackSound
  <2>3. \A q, i : <<q, i>> \in BranchesOf(p) => q = p
    BY DEF BranchesOf
  <2>4. QED
    BY <2>1, <2>2, <2>3
<1>7. /\ DOMAIN panels' = DOMAIN panels \cup {p} /\ panels'[p] = t
      /\ \A q \in DOMAIN panels : panels'[q] = panels[q]
  <2> HIDE DEF t
  <2>1. panels' = Put(panels, p, t)
    BY <1>2 DEF t
  <2>2. QED
    BY <1>4, <2>1 DEF Put
<1>8. /\ DOMAIN running' = DOMAIN running \cup BranchesOf(p)
      /\ \A c \in DOMAIN running : running'[c] = running[c]
      /\ \A c \in BranchesOf(p) : running'[c] = <<>>
  BY <1>2, <1>6
<1>9. /\ LedgerFields(ledger') /\ ledger'.used = ledger.used /\ ledger'.admitted = ledger.admitted
      /\ ledger'.agents = ledger.agents /\ DOMAIN ledger'.complete \subseteq DOMAIN ledger.complete
      /\ ledger'.branches = Put(ledger.branches, p, <<>>)
      /\ ledger'.openBranches = Put(ledger.openBranches, p, <<>>)
      /\ ledger'.openAdmissions = Put(ledger.openAdmissions, p, {})
  BY <1>1, <1>2, LoadOpen DEF LedgerShape, Commit
<1>10. /\ DOMAIN ledger'.branches = DOMAIN ledger.branches \cup {p}
       /\ DOMAIN ledger'.openBranches = DOMAIN ledger.openBranches \cup {p}
       /\ DOMAIN ledger'.openAdmissions = DOMAIN ledger.openBranches \cup {p}
       /\ ledger'.openBranches[p] = <<>> /\ ledger'.openAdmissions[p] = {}
       /\ \A q \in DOMAIN ledger.openBranches : q # p =>
            /\ ledger'.openBranches[q] = ledger.openBranches[q]
            /\ ledger'.openAdmissions[q] = ledger.openAdmissions[q]
  BY <1>1, <1>9 DEF LedgerShape, Put
<1>11. UnderWay' = UnderWay \cup {p}
  BY <1>2, <1>7 DEF UnderWay
<1>12. /\ PanelFields(t) /\ t.id = nextPanel' /\ t.calls = <<>> /\ t.branches = <<>> /\ t.admissions = {}
  BY DEF PanelFields
<1> HIDE DEF t
<1>13. LedgerShape'
  BY <1>1, <1>2, <1>6, <1>7, <1>8, <1>9, <1>10, <1>12 DEF LedgerShape
<1>14. StackSound'
  <2>1. ASSUME NEW c \in DOMAIN running'
        PROVE  running'[c] \in DOMAIN Script[c] /\ (c = RootBranch \/ c[1] \in DOMAIN panels')
    <3>1. CASE c \in BranchesOf(p)
      BY <1>6, <1>7, <1>8, <3>1, ScriptAssumption
    <3>2. CASE c \in DOMAIN running
      BY <1>1, <1>7, <1>8, <3>2 DEF StackSound
    <3>3. QED
      BY <1>8, <3>1, <3>2
  <2>2. ASSUME NEW x \in UnderWay'
        PROVE  LET a == Home[x]
               IN  /\ a \in DOMAIN running' /\ Above[x] \subseteq DOMAIN running'
                   /\ Script[a][running'[a]].do # "end" /\ Script[a][running'[a]].of = x
    <3>1. CASE x = p
      BY <1>4, <1>5, <1>8, <3>1
    <3>2. CASE x \in UnderWay
      BY <1>1, <1>8, <3>2 DEF StackSound
    <3>3. QED
      BY <1>11, <3>1, <3>2
  <2>3. QED
    BY <2>1, <2>2 DEF StackSound
<1>15. ASSUME NEW x, Called(x), Home[x] \notin BranchesOf(p) PROVE Called(x)'
  BY <1>1, <1>8, <1>11, <1>15, CalledKept
<1>16. ASSUME NEW q \in DOMAIN panels, NEW call \in Range(panels[q].calls)
       PROVE  TraceIsTrue(q, call)' /\ NotAgain(q, call.at)'
  <2>1. TraceIsTrue(q, call) /\ NotAgain(q, call.at) /\ call.at \in DOMAIN Within
    <3>1. panels[q].calls \in Seq(TracedCall)
      BY <1>1 DEF TracesSound
    <3>2. call \in TracedCall
      BY <3>1 DEF Range
    <3>3. QED
      BY <1>1, <3>2 DEF TracesSound, TracedCall, AgentPath
  <2>2. TraceIsTrue(q, call)'
    BY <1>2, <1>9, <2>1 DEF TraceIsTrue
  <2>3. ~ InPanel(call.at, p)
    BY <1>2, NewPanelElsewhere
  <2>4. Home[call.at] \notin BranchesOf(p)
    BY <1>6, <2>1, <2>3, PathFacts DEF InPanel
  <2>5. ASSUME NEW a \in Above[call.at], InPanel(a[1], q) PROVE Called(a[1])'
    <3>1. Called(a[1]) /\ a[1] \in DOMAIN Within /\ Above[a[1]] \subseteq Above[call.at]
      BY <2>1, <2>5, PathFacts DEF NotAgain
    <3>2. Home[a[1]] \notin BranchesOf(p)
      BY <1>6, <2>3, <3>1, PathFacts DEF InPanel
    <3>3. QED
      BY <1>15, <3>1, <3>2
  <2>6. QED
    BY <1>15, <2>1, <2>2, <2>4, <2>5 DEF NotAgain
<1>17. TracesSound'
  <2>1. ASSUME NEW q \in DOMAIN panels
        PROVE  LET calls == panels'[q].calls
               IN  /\ calls \in Seq(TracedCall)
                   /\ \A i, j \in DOMAIN calls : calls[i].at = calls[j].at => i = j
                   /\ \A call \in Range(calls) : TraceIsTrue(q, call)' /\ NotAgain(q, call.at)'
                   /\ \A a \in panels'[q].admissions : \E call \in Range(calls) : call.at = a
    BY <1>1, <1>7, <1>16 DEF TracesSound
  <2>2. LET calls == panels'[p].calls
        IN  /\ calls \in Seq(TracedCall)
            /\ \A i, j \in DOMAIN calls : calls[i].at = calls[j].at => i = j
            /\ Range(calls) = {} /\ panels'[p].admissions = {}
    <3>1. <<>> \in Seq(TracedCall) /\ DOMAIN <<>> = {} /\ Range(<<>>) = {}
      BY DEF Range
    <3>2. QED
      BY <1>7, <1>12, <3>1
  <2>3. QED
    BY <1>7, <2>1, <2>2 DEF TracesSound
<1>18. SettledSound' /\ MemoryAgrees'
  <2>1. DOMAIN panels'[p].branches = {}
    BY <1>7, <1>12
  <2>2. SettledSound'
    BY <1>1, <1>7, <2>1 DEF SettledSound
  <2>3. MemoryAgrees'
    BY <1>1, <1>4, <1>7, <1>10, <1>12 DEF MemoryAgrees
  <2>4. QED
    BY <2>2, <2>3
<1>19. OpenSound'
  <2>1. ASSUME NEW q \in DOMAIN ledger.openBranches, q # p, NEW i \in DOMAIN ledger.openBranches[q]
        PROVE  /\ Covers(ledger', <<q, i>>, ledger.openBranches[q][i].calls)
               /\ <<q, i>> \notin DOMAIN running'
    <3>1. Covers(ledger, <<q, i>>, ledger.openBranches[q][i].calls) /\ <<q, i>> \notin DOMAIN running
      BY <1>1 DEF OpenSound, OpenBranchesCovered
    <3>2. q \in DOMAIN ledger'.openAdmissions /\ <<q, i>>[1] = q
      BY <1>10
    <3>3. \A a \in ledger'.openAdmissions[q] : <<q, i>> \in Above[a] =>
            a \in ledger.openAdmissions[q] /\ (a \in ledger'.agents <=> a \in ledger.agents)
      BY <1>9, <1>10, <2>1
    <3>4. Covers(ledger', <<q, i>>, ledger.openBranches[q][i].calls)
      BY <3>1, <3>2, <3>3, StillCovered
    <3>5. QED
      BY <1>6, <1>8, <2>1, <3>1, <3>4
  <2>2. DOMAIN ledger'.openBranches[p] = {}
    BY <1>10
  <2>3. QED
    BY <1>10, <2>1, <2>2 DEF OpenSound, OpenBranchesCovered
<1>20. DurableSound'
  BY <1>1, <1>2, <1>9 DEF DurableSound
<1>21. BudgetSound'
  <2>1. consumed' = consumed
    BY <1>2 DEF Slots!OpenPanel
  <2>2. Slots!AdmissionInvariant'
    <3>1. ContextOf(b) \in Slots!Context
      BY <1>1, <1>4, Contexts
    <3>2. QED
      BY <1>1, <1>2, <3>1, SlotsOpenPanel DEF BudgetSound
  <2>3. nextPanel \in Nat
    BY <1>1, Bounds DEF BudgetSound, Slots!AdmissionInvariant, Slots!TypeOK
  <2>4. \A q \in DOMAIN panels' : panels'[q].id \in 1..nextPanel'
    <3>1. \A q \in DOMAIN panels : panels'[q].id \in 1..nextPanel
      BY <1>1, <1>7 DEF BudgetSound
    <3>2. panels'[p].id = nextPanel + 1
      BY <1>2, <1>7, <1>12
    <3>3. \A k \in 1..nextPanel : k \in 1..nextPanel'
      BY <1>2, <2>3
    <3>4. nextPanel + 1 \in 1..nextPanel'
      BY <1>2, <2>3
    <3>5. QED
      BY <1>7, <3>1, <3>2, <3>3, <3>4
  <2>5. QED
    BY <1>1, <1>9, <2>1, <2>2, <2>4 DEF BudgetSound
<1>22. readable' /\ PanelsCommit'
  <2>1. Accepts(ledger, OpenRecord(p))
    BY DEF Accepts, Consistent, CallsKnown, OpenRecord
  <2>2. QED
    BY <1>1, <1>2, <2>1 DEF PanelsCommit, Commit
<1>23. QED
  BY <1>13, <1>14, <1>17, <1>18, <1>19, <1>20, <1>21, <1>22 DEF LedgerInvariant

----------------------------------------------------------------------------
(***************************************************************************)
(* Branches that settle preserve it.                                       *)
(***************************************************************************)
\* The record that the run writes when a branch has settled is one that it accepts
\* itself, and that every reader will: all that was admitted in the branch has ended.
LEMMA BranchRecordAccepted ==
  ASSUME LedgerInvariant, NEW b \in DOMAIN running, b # RootBranch, NEW ok,
         \A x \in UnderWay : Home[x] # b
  PROVE  LET calls == CallsIn(panels[b[1]].calls, b)
         IN  /\ Consistent(Memory, BranchRecord(b, ok, calls))
             /\ \A call \in Range(calls) : call.status # "pending"
             /\ Accepts(ledger, BranchRecord(b, ok, calls))
             /\ Covers(ledger, b, calls)
<1> DEFINE p == b[1]
           i == b[2]
           old == panels[p].calls
           calls == CallsIn(old, b)
           record == BranchRecord(b, ok, calls)
<1>1. /\ LedgerShape /\ StackSound /\ TracesSound /\ SettledSound /\ MemoryAgrees /\ OpenSound
      /\ DurableSound
  BY DEF LedgerInvariant
<1>2. /\ b \in BranchPath /\ p \in DOMAIN panels /\ p \in PanelPath /\ b = <<p, i>>
  BY <1>1, BranchFacts DEF LedgerShape, StackSound
<1>3. /\ old \in Seq(TracedCall)
      /\ \A k, j \in DOMAIN old : old[k].at = old[j].at => k = j
      /\ \A call \in Range(old) : call \in TracedCall /\ TraceIsTrue(p, call)
      /\ \A c \in panels[p].admissions : \E call \in Range(old) : call.at = c
  <2>1. /\ old \in Seq(TracedCall)
        /\ \A k, j \in DOMAIN old : old[k].at = old[j].at => k = j
        /\ \A call \in Range(old) : TraceIsTrue(p, call)
        /\ \A c \in panels[p].admissions : \E call \in Range(old) : call.at = c
    BY <1>1, <1>2 DEF TracesSound
  <2>2. \A call \in Range(old) : call \in TracedCall
    BY <2>1 DEF Range
  <2>3. QED
    BY <2>1, <2>2
<1>4. /\ Range(calls) = {call \in Range(old) : b \in Above[call.at]}
      /\ IsInjective([k \in DOMAIN calls |-> calls[k].at])
  BY <1>3, CallsInFacts
<1> HIDE DEF calls
<1>5. ASSUME NEW call \in Range(calls)
      PROVE  /\ call = [at |-> call.at, status |-> IF call.at \in ledger.agents THEN "success" ELSE "failed"]
             /\ call.status # "pending" /\ b \in Above[call.at]
             /\ call.at \in (IF call.status = "success" THEN ledger.agents ELSE ledger.admitted)
  <2>1. call \in TracedCall /\ TraceIsTrue(p, call) /\ b \in Above[call.at]
    BY <1>3, <1>4
  <2>2. call.at \in DOMAIN Within /\ call = [at |-> call.at, status |-> call.status]
        /\ call.status \in {"pending", "success", "failed"}
    BY <2>1 DEF TracedCall, AgentPath
  <2>3. call.status # "pending"
    <3>1. SUFFICES ASSUME call.at \in inflight PROVE FALSE
      BY <2>1 DEF TraceIsTrue
    <3>2. call.at \in UnderWay
      BY <3>1 DEF UnderWay
    <3>3. QED
      BY <1>1, <2>1, <2>2, <3>2, Waiting
  <2>4. QED
    BY <2>1, <2>2, <2>3 DEF TraceIsTrue
<1>6. ASSUME NEW c \in panels[p].admissions, b \in Above[c]
      PROVE  [at |-> c, status |-> IF c \in ledger.agents THEN "success" ELSE "failed"] \in Range(calls)
  <2>1. PICK call \in Range(old) : call.at = c
    BY <1>3
  <2>2. call \in Range(calls)
    BY <1>4, <1>6, <2>1
  <2>3. QED
    BY <1>5, <2>1, <2>2
<1>7. /\ p \in DOMAIN ledger.openBranches /\ ledger.openBranches[p] = panels[p].branches
      /\ ledger.openAdmissions[p] = panels[p].admissions /\ p \in DOMAIN ledger.openAdmissions
  BY <1>1, <1>2 DEF MemoryAgrees, LedgerShape
<1>8. /\ DOMAIN Memory.openAdmissions = DOMAIN panels /\ Memory.openAdmissions[p] = panels[p].admissions
      /\ DOMAIN Memory.openBranches = DOMAIN panels /\ Memory.openBranches[p] = panels[p].branches
      /\ Memory.agents = ledger.agents
  BY <1>1, <1>2 DEF Memory, LedgerShape, LedgerFields
<1>9. i \notin DOMAIN panels[p].branches
  BY <1>2, SettledIdle
<1>10. Covers(ledger, b, calls) /\ Covers(Memory, b, calls)
  BY <1>2, <1>4, <1>6, <1>7, <1>8 DEF Covers
<1>11. /\ record.type = "panel-branch" /\ record.at = p /\ record.index = i /\ record.calls = calls
       /\ record.type # "panel-complete" /\ record.type # "agent" /\ <<record.at, record.index>> = b
  BY <1>2 DEF BranchRecord
<1> HIDE DEF record
<1>12. Consistent(Memory, record) /\ Consistent(ledger, record)
  BY <1>7, <1>8, <1>9, <1>10, <1>11 DEF Consistent
<1>13. CallsKnown(ledger, record)
  BY <1>5, <1>11 DEF CallsKnown
<1>14. Accepts(ledger, record)
  BY <1>11, <1>12, <1>13 DEF Accepts
<1>15. QED
  BY <1>5, <1>10, <1>12, <1>14 DEF record, calls

\* A branch that settles preserves the invariant.
LEMMA CompletePanelBranchKeeps ==
  ASSUME LedgerInvariant, NEW b \in BranchPath, NEW ok \in BOOLEAN, CompletePanelBranch(b, ok)
  PROVE  LedgerInvariant'
<1> DEFINE p == b[1]
           i == b[2]
           calls == CallsIn(panels[p].calls, b)
           branch == [ok |-> ok, calls |-> calls]
<1>1. /\ LedgerShape /\ StackSound /\ TracesSound /\ SettledSound /\ MemoryAgrees /\ OpenSound
      /\ DurableSound /\ BudgetSound /\ readable /\ PanelsCommit
  BY DEF LedgerInvariant
<1>2. /\ b # RootBranch /\ b \in DOMAIN running /\ \A x \in UnderWay : Home[x] # b
  BY DEF CompletePanelBranch, AtStep, UnderWay
<1>3. /\ Consistent(Memory, BranchRecord(b, ok, calls))
      /\ \A call \in Range(calls) : call.status # "pending"
      /\ Accepts(ledger, BranchRecord(b, ok, calls))
      /\ Covers(ledger, b, calls)
  BY <1>2, BranchRecordAccepted
<1>4. /\ Commit(BranchRecord(b, ok, calls))
      /\ panels' = [panels EXCEPT ![p].branches = Put(@, i, branch)]
      /\ running' = Restrict(running, DOMAIN running \ {b})
      /\ inflight' = inflight /\ fatal' = fatal /\ generation' = generation /\ UNCHANGED slotVars
  BY <1>3 DEF CompletePanelBranch
<1>5. /\ p \in DOMAIN panels /\ p \in PanelPath /\ b = <<p, i>> /\ i \in 1..BranchCount(p)
  BY <1>1, <1>2, BranchFacts DEF StackSound
<1>6. /\ Range(calls) = {call \in Range(panels[p].calls) : b \in Above[call.at]}
      /\ IsInjective([k \in DOMAIN calls |-> calls[k].at])
  <2>1. /\ panels[p].calls \in Seq(TracedCall)
        /\ \A k, j \in DOMAIN panels[p].calls : panels[p].calls[k].at = panels[p].calls[j].at => k = j
    BY <1>1, <1>5 DEF TracesSound
  <2>2. QED
    BY <2>1, CallsInFacts
<1> HIDE DEF calls
<1>7. branch.ok = ok /\ branch.calls = calls
  OBVIOUS
<1> HIDE DEF branch
<1>8. /\ DOMAIN running' = DOMAIN running \ {b} /\ \A a \in DOMAIN running' : running'[a] = running[a]
  BY <1>4 DEF Restrict
<1>9. /\ p \in DOMAIN ledger.openBranches /\ p \in DOMAIN ledger.openAdmissions /\ p \in DOMAIN ledger.branches
      /\ ledger.openBranches[p] = panels[p].branches
      /\ ledger.openAdmissions[p] = panels[p].admissions
  BY <1>1, <1>5 DEF MemoryAgrees, LedgerShape
<1>10. /\ LedgerFields(ledger') /\ ledger'.used = ledger.used /\ ledger'.admitted = ledger.admitted
       /\ ledger'.agents = ledger.agents /\ ledger'.complete = ledger.complete
       /\ DOMAIN ledger'.branches = DOMAIN ledger.branches
       /\ DOMAIN ledger'.openBranches = DOMAIN ledger.openBranches
       /\ ledger'.openBranches[p] = Put(ledger.openBranches[p], i, branch)
       /\ \A q \in DOMAIN ledger.openBranches : q # p => ledger'.openBranches[q] = ledger.openBranches[q]
       /\ ledger'.openAdmissions = ledger.openAdmissions
  BY <1>1, <1>4, <1>9, LoadBranch DEF LedgerShape, Commit, branch
<1>11. /\ DOMAIN panels' = DOMAIN panels
       /\ PanelFields(panels'[p]) /\ panels'[p].branches = Put(panels[p].branches, i, branch)
       /\ panels'[p].id = panels[p].id /\ panels'[p].calls = panels[p].calls
       /\ panels'[p].admissions = panels[p].admissions
       /\ \A q \in DOMAIN panels : q # p => panels'[q] = panels[q]
  <2>1. PanelFields(panels[p])
    BY <1>1, <1>5 DEF LedgerShape
  <2>2. QED
    BY <1>4, <1>5, <2>1 DEF PanelFields
<1>12. UnderWay' = UnderWay
  BY <1>4, <1>11 DEF UnderWay
<1>13. LedgerShape'
  <2>1. \A q \in DOMAIN panels' : PanelFields(panels'[q])
    BY <1>1, <1>11 DEF LedgerShape
  <2>2. QED
    BY <1>1, <1>4, <1>8, <1>10, <1>11, <2>1 DEF LedgerShape
<1>14. StackSound'
  <2>1. ASSUME NEW x \in UnderWay PROVE Home[x] # b /\ b \notin Above[x]
    <3>1. x \in DOMAIN Within
      BY <1>1, PanelLedgerAssumption DEF UnderWay, LedgerShape, DurableSound, AgentPath
    <3>2. QED
      BY <1>1, <1>2, <3>1, Waiting
  <2>2. QED
    BY <1>1, <1>8, <1>11, <1>12, <2>1 DEF StackSound
<1>15. ASSUME NEW x, Called(x) PROVE Called(x)'
  BY <1>1, <1>8, <1>12, <1>15, CalledKept
<1>16. /\ \A q \in DOMAIN panels : panels'[q].calls = panels[q].calls
       /\ \A q \in DOMAIN panels : panels'[q].admissions = panels[q].admissions
  BY <1>11
<1>17. ASSUME NEW q \in DOMAIN panels, NEW call \in Range(panels[q].calls)
       PROVE  TraceIsTrue(q, call)' /\ NotAgain(q, call.at)'
  <2>1. TraceIsTrue(q, call) /\ NotAgain(q, call.at)
    BY <1>1 DEF TracesSound
  <2>2. QED
    BY <1>4, <1>10, <1>15, <2>1 DEF TraceIsTrue, NotAgain
<1>18. TracesSound'
  BY <1>1, <1>11, <1>16, <1>17 DEF TracesSound
<1>19. SettledSound'
  <2>1. ASSUME NEW q \in DOMAIN panels, NEW k \in DOMAIN panels'[q].branches
        PROVE  LET settled == panels'[q].branches[k]
               IN  /\ k \in 1..BranchCount(q) /\ settled.ok \in BOOLEAN
                   /\ IsInjective([j \in DOMAIN settled.calls |-> settled.calls[j].at])
                   /\ Range(settled.calls) = {call \in Range(panels'[q].calls) : <<q, k>> \in Above[call.at]}
    <3>1. CASE q = p /\ k = i
      <4>1. panels'[q].branches[k] = branch
        BY <1>11, <3>1 DEF Put
      <4>2. QED
        BY <1>5, <1>6, <1>7, <1>16, <3>1, <4>1
    <3>2. CASE ~ (q = p /\ k = i)
      <4>1. k \in DOMAIN panels[q].branches /\ panels'[q].branches[k] = panels[q].branches[k]
        BY <1>11, <3>2 DEF Put
      <4>2. QED
        BY <1>1, <1>16, <4>1 DEF SettledSound
    <3>3. QED
      BY <3>1, <3>2
  <2>2. QED
    BY <1>11, <2>1 DEF SettledSound
<1>20. MemoryAgrees'
  BY <1>1, <1>9, <1>10, <1>11 DEF MemoryAgrees
<1>21. OpenSound'
  <2>1. ASSUME NEW q \in DOMAIN ledger.openBranches, NEW k \in DOMAIN ledger'.openBranches[q]
        PROVE  /\ Covers(ledger', <<q, k>>, ledger'.openBranches[q][k].calls)
               /\ <<q, k>> \notin DOMAIN running'
    <3>1. /\ Covers(ledger, <<q, k>>, ledger'.openBranches[q][k].calls) /\ <<q, k>> \notin DOMAIN running'
      <4>1. CASE q = p /\ k = i
        <5>1. ledger'.openBranches[q][k] = branch
          BY <1>10, <4>1 DEF Put
        <5>2. QED
          BY <1>3, <1>5, <1>7, <1>8, <4>1, <5>1
      <4>2. CASE ~ (q = p /\ k = i)
        <5>1. k \in DOMAIN ledger.openBranches[q] /\ ledger'.openBranches[q][k] = ledger.openBranches[q][k]
          BY <1>10, <4>2 DEF Put
        <5>2. QED
          BY <1>1, <1>8, <5>1 DEF OpenSound, OpenBranchesCovered
      <4>3. QED
        BY <4>1, <4>2
    <3>2. QED
      BY <1>10, <3>1 DEF Covers
  <2>2. QED
    BY <1>10, <2>1 DEF OpenSound, OpenBranchesCovered
<1>22. DurableSound'
  BY <1>1, <1>4, <1>10 DEF DurableSound
<1>23. BudgetSound'
  <2>1. consumed' = consumed /\ nextPanel' = nextPanel
    BY <1>4 DEF slotVars
  <2>2. Slots!AdmissionInvariant'
    BY <1>1, <1>4, SlotsUnchanged DEF BudgetSound
  <2>3. \A q \in DOMAIN panels' : panels'[q].id = panels[q].id
    BY <1>11
  <2>4. QED
    BY <1>1, <1>10, <1>11, <2>1, <2>2, <2>3 DEF BudgetSound
<1>24. readable' /\ PanelsCommit'
  BY <1>1, <1>3, <1>4 DEF PanelsCommit, Commit
<1>25. QED
  BY <1>13, <1>14, <1>18, <1>19, <1>20, <1>21, <1>22, <1>23, <1>24 DEF LedgerInvariant

----------------------------------------------------------------------------
(***************************************************************************)
(* Panels that complete preserve it, so do the release of a branch and a   *)
(* resumption.                                                             *)
(***************************************************************************)
\* The record that the run writes when a panel completes is one that it accepts itself,
\* and that every reader will: it has the calls that its branches settled with.
LEMMA PanelRecordAccepted ==
  ASSUME LedgerInvariant, NEW p \in DOMAIN panels,
         DOMAIN panels[p].branches = 1..BranchCount(p),
         NEW oks, DOMAIN oks = 1..BranchCount(p), \A i \in DOMAIN oks : oks[i] = panels[p].branches[i].ok
  PROVE  LET record == CompleteRecord(p, oks, panels[p].calls)
         IN  Consistent(Memory, record) /\ Accepts(ledger, record)
<1> DEFINE record == CompleteRecord(p, oks, panels[p].calls)
           calls == panels[p].calls
           settled == panels[p].branches
<1>1. /\ LedgerShape /\ StackSound /\ TracesSound /\ SettledSound /\ MemoryAgrees /\ OpenSound
      /\ DurableSound
  BY DEF LedgerInvariant
<1>2. /\ calls \in Seq(TracedCall)
      /\ \A i, j \in DOMAIN calls : calls[i].at = calls[j].at => i = j
      /\ \A call \in Range(calls) : call \in TracedCall /\ TraceIsTrue(p, call)
  <2>1. /\ calls \in Seq(TracedCall)
        /\ \A i, j \in DOMAIN calls : calls[i].at = calls[j].at => i = j
        /\ \A call \in Range(calls) : TraceIsTrue(p, call)
    BY <1>1 DEF TracesSound
  <2>2. \A call \in Range(calls) : call \in TracedCall
    BY <2>1 DEF Range
  <2>3. QED
    BY <2>1, <2>2
<1>3. ASSUME NEW call \in Range(calls)
      PROVE  /\ \E i \in 1..BranchCount(p) : <<p, i>> \in Above[call.at]
             /\ InPanel(call.at, p) /\ call.status \in {"success", "failed"}
             /\ call.at \in (IF call.status = "success" THEN ledger.agents ELSE ledger.admitted)
  <2>1. call.at \in DOMAIN Within /\ InPanel(call.at, p) /\ call.status \in {"pending", "success", "failed"}
    BY <1>2 DEF TracedCall, AgentPath, TraceIsTrue
  <2>2. PICK b \in Above[call.at] : b[1] = p
    BY <2>1 DEF InPanel
  <2>3. b = <<p, b[2]>> /\ b[2] \in 1..BranchCount(p)
    BY <2>1, <2>2, PathFacts, BranchFacts
  <2>4. b \notin DOMAIN running
    <3>1. <<p, b[2]>> \notin DOMAIN running
      BY <2>3, SettledIdle
    <3>2. QED
      BY <2>3, <3>1
  <2>5. call.at \notin inflight
    BY <1>1, <2>2, <2>4 DEF StackSound, UnderWay
  <2>6. QED
    BY <1>2, <2>1, <2>3, <2>2, <2>5 DEF TraceIsTrue
<1>4. Range(calls) = UNION {Range(settled[i].calls) : i \in DOMAIN settled}
  <2>1. \A i \in DOMAIN settled : Range(settled[i].calls) = {call \in Range(calls) : <<p, i>> \in Above[call.at]}
    BY <1>1 DEF SettledSound
  <2>2. \A call \in Range(calls) : \E i \in DOMAIN settled : <<p, i>> \in Above[call.at]
    BY <1>3
  <2> HIDE DEF calls, settled
  <2>3. \A call : call \in Range(calls) <=> \E i \in DOMAIN settled : call \in Range(settled[i].calls)
    BY <2>1, <2>2
  <2>4. QED
    BY <2>3
<1>5. IsInjective([i \in DOMAIN calls |-> calls[i].at])
  BY <1>2 DEF IsInjective
<1>6. /\ p \in DOMAIN ledger.openBranches /\ ledger.openBranches[p] = settled
      /\ ledger.openAdmissions[p] = panels[p].admissions /\ p \in DOMAIN ledger.openAdmissions
  BY <1>1 DEF MemoryAgrees, LedgerShape
<1>7. /\ DOMAIN Memory.openAdmissions = DOMAIN panels /\ Memory.openAdmissions[p] = panels[p].admissions
      /\ DOMAIN Memory.openBranches = DOMAIN panels /\ Memory.openBranches[p] = settled
      /\ Memory.agents = ledger.agents
  BY <1>1 DEF Memory, LedgerShape, LedgerFields
<1>8. OpenBranchesCovered(ledger, p) /\ OpenBranchesCovered(Memory, p)
  <2>1. OpenBranchesCovered(ledger, p)
    BY <1>1, <1>6 DEF OpenSound
  <2>2. QED
    BY <1>6, <1>7, <2>1 DEF OpenBranchesCovered, Covers
<1>9. /\ record.type = "panel-complete" /\ record.at = p /\ record.oks = oks /\ record.calls = calls
      /\ record.type # "panel-branch" /\ record.type # "agent"
  BY DEF CompleteRecord
<1> HIDE DEF record, calls, settled
<1>10. Matches(ledger, record) /\ Matches(Memory, record)
  <2>1. DOMAIN settled = DOMAIN oks /\ \A i \in DOMAIN oks : settled[i].ok = oks[i]
    BY DEF settled
  <2>2. ASSUME NEW l, p \in DOMAIN l.openBranches, l.openBranches[p] = settled PROVE Matches(l, record)
    BY <1>4, <1>5, <1>9, <2>1, <2>2 DEF Matches
  <2>3. QED
    BY <1>6, <1>7, <2>2
<1>11. Consistent(Memory, record) /\ Consistent(ledger, record)
  BY <1>8, <1>9, <1>10 DEF Consistent
<1>12. CallsKnown(ledger, record)
  BY <1>3, <1>9 DEF CallsKnown
<1>13. Accepts(ledger, record)
  BY <1>9, <1>11, <1>12 DEF Accepts
<1>14. QED
  BY <1>11, <1>13 DEF record, calls

\* A panel that completes preserves the invariant.
LEMMA CompletePanelKeeps ==
  ASSUME LedgerInvariant, NEW p \in PanelPath, CompletePanel(p)
  PROVE  LedgerInvariant'
<1> DEFINE oks == [i \in 1..BranchCount(p) |-> panels[p].branches[i].ok]
           record == CompleteRecord(p, oks, panels[p].calls)
           ok == \A i \in DOMAIN oks : oks[i]
           b == Home[p]
<1>1. /\ LedgerShape /\ StackSound /\ TracesSound /\ SettledSound /\ MemoryAgrees /\ OpenSound
      /\ DurableSound /\ BudgetSound /\ readable /\ PanelsCommit
  BY DEF LedgerInvariant
<1>2. /\ p \in DOMAIN panels /\ DOMAIN panels[p].branches = 1..BranchCount(p)
      /\ Slots!ReleasePanel(panels[p].id)
      /\ panels' = Restrict(panels, DOMAIN panels \ {p})
      /\ running' = Resumed(b, ok)
      /\ inflight' = inflight /\ generation' = generation
  BY DEF CompletePanel
<1>3. Consistent(Memory, record) /\ Accepts(ledger, record)
  BY <1>2, PanelRecordAccepted
<1>4. Commit(record) /\ fatal' = fatal
  BY <1>3 DEF CompletePanel
<1>5. ok \in BOOLEAN
  OBVIOUS
<1> HIDE DEF ok, oks
<1>6. /\ p \in UnderWay /\ p \in DOMAIN Within
      /\ b \in DOMAIN running /\ Above[p] \subseteq DOMAIN running
      /\ Script[b][running[b]].do # "end" /\ Script[b][running[b]].of = p
      /\ \A x \in UnderWay : Home[x] = b => x = p
  BY <1>1, <1>2, PanelLedgerAssumption DEF StackSound, UnderWay, LedgerShape
<1>7. \A a \in DOMAIN running : a # RootBranch => a[1] # p
  <2>1. SUFFICES ASSUME NEW a \in DOMAIN running, a # RootBranch, a[1] = p PROVE FALSE
    OBVIOUS
  <2>2. a = <<p, a[2]>> /\ a[2] \in DOMAIN panels[p].branches
    BY <1>1, <1>2, <2>1, BranchFacts DEF LedgerShape
  <2>3. QED
    BY <1>2, <2>1, <2>2, SettledIdle
<1>8. /\ LedgerFields(ledger') /\ ledger'.used = ledger.used /\ ledger'.admitted = ledger.admitted
      /\ ledger'.agents = ledger.agents /\ DOMAIN ledger'.complete = DOMAIN ledger.complete \cup {p}
      /\ ledger'.branches = ledger.branches
      /\ DOMAIN ledger'.openBranches = DOMAIN ledger.openBranches \ {p}
      /\ DOMAIN ledger'.openAdmissions = DOMAIN ledger.openAdmissions \ {p}
      /\ \A q \in DOMAIN ledger.openBranches \ {p} : ledger'.openBranches[q] = ledger.openBranches[q]
      /\ \A q \in DOMAIN ledger.openAdmissions \ {p} : ledger'.openAdmissions[q] = ledger.openAdmissions[q]
  <2> DEFINE calls == panels[p].calls
             m == Load(ledger, CompleteRecord(p, oks, calls))
  <2>1. LedgerFields(ledger) /\ ledger' = m
    BY <1>1, <1>4 DEF LedgerShape, Commit
  <2>2. m = Load(ledger, CompleteRecord(p, oks, calls))
    OBVIOUS
  <2> HIDE DEF calls, m
  <2>3. QED
    BY <2>1, <2>2, LoadComplete
<1>9. /\ DOMAIN ledger'.openBranches = DOMAIN ledger.openBranches \ {p}
      /\ DOMAIN ledger'.openAdmissions = DOMAIN ledger.openBranches \ {p}
      /\ \A q \in DOMAIN ledger'.openBranches :
           /\ ledger'.openBranches[q] = ledger.openBranches[q]
           /\ ledger'.openAdmissions[q] = ledger.openAdmissions[q]
  BY <1>1, <1>8 DEF LedgerShape
<1>10. /\ DOMAIN panels' = DOMAIN panels \ {p}
       /\ \A q \in DOMAIN panels' : panels'[q] = panels[q]
  BY <1>2 DEF Restrict
<1>11. UnderWay' = UnderWay \ {p} /\ DOMAIN running' = DOMAIN running
  <2>1. p \notin inflight
    BY <1>1 DEF DurableSound, AgentPath
  <2>2. QED
    BY <1>2, <1>10, <2>1 DEF UnderWay, Resumed
<1>12. LedgerShape'
  BY <1>1, <1>2, <1>8, <1>9, <1>10, <1>11 DEF LedgerShape
<1>13. StackSound'
  <2>1. \A a \in DOMAIN running : a = RootBranch \/ a[1] \in DOMAIN panels'
    BY <1>1, <1>7, <1>10 DEF StackSound
  <2>2. UnderWay' \subseteq UnderWay /\ \A x \in UnderWay' : Home[x] # b
    BY <1>6, <1>11
  <2>3. QED
    BY <1>1, <1>2, <1>5, <1>6, <2>1, <2>2, StackGoesOn
<1>14. ASSUME NEW x, Called(x) PROVE Called(x)'
  <2>1. running'[b] = Append(running[b], ok) /\ \A a \in DOMAIN running : a # b => running'[a] = running[a]
    BY <1>2, <1>6 DEF Resumed
  <2>2. x \in UnderWay /\ x \notin UnderWay' => x = p
    BY <1>11
  <2>3. /\ Home[x] \in DOMAIN running' => Home[x] \in DOMAIN running
        /\ \A a \in DOMAIN running' \cap DOMAIN running :
             running'[a] = running[a] \/ \E k \in BOOLEAN : running'[a] = Append(running[a], k)
        /\ x \in UnderWay /\ x \notin UnderWay' /\ Home[x] \in DOMAIN running' =>
             \E k \in BOOLEAN : running'[Home[x]] = Append(running[Home[x]], k)
    BY <1>5, <1>11, <2>1, <2>2
  <2>4. QED
    BY <1>1, <1>14, <2>3, CalledKept
<1>15. ASSUME NEW q \in DOMAIN panels, NEW call \in Range(panels[q].calls)
       PROVE  TraceIsTrue(q, call)' /\ NotAgain(q, call.at)'
  <2>1. TraceIsTrue(q, call) /\ NotAgain(q, call.at)
    BY <1>1 DEF TracesSound
  <2>2. QED
    BY <1>2, <1>8, <1>14, <2>1 DEF TraceIsTrue, NotAgain
<1>16. TracesSound'
  BY <1>1, <1>10, <1>15 DEF TracesSound
<1>17. SettledSound' /\ MemoryAgrees'
  BY <1>1, <1>9, <1>10 DEF SettledSound, MemoryAgrees
<1>18. OpenSound'
  <2>1. ASSUME NEW q \in DOMAIN ledger'.openBranches, NEW i \in DOMAIN ledger'.openBranches[q]
        PROVE  /\ Covers(ledger', <<q, i>>, ledger'.openBranches[q][i].calls)
               /\ <<q, i>> \notin DOMAIN running'
    <3>1. /\ Covers(ledger, <<q, i>>, ledger'.openBranches[q][i].calls) /\ <<q, i>> \notin DOMAIN running
      BY <1>1, <1>9 DEF OpenSound, OpenBranchesCovered
    <3>2. /\ <<q, i>>[1] = q /\ q \in DOMAIN ledger'.openAdmissions
          /\ ledger'.openAdmissions[q] = ledger.openAdmissions[q]
      BY <1>9
    <3>3. Covers(ledger', <<q, i>>, ledger'.openBranches[q][i].calls)
      BY <1>8, <3>1, <3>2, StillCovered
    <3>4. QED
      BY <1>11, <3>1, <3>3
  <2>2. QED
    BY <2>1 DEF OpenSound, OpenBranchesCovered
<1>19. DurableSound'
  BY <1>1, <1>2, <1>8 DEF DurableSound
<1>20. BudgetSound'
  <2>1. consumed' = consumed /\ nextPanel' = nextPanel
    BY <1>2 DEF Slots!ReleasePanel
  <2>2. Slots!AdmissionInvariant'
    <3>1. nextPanel \in 0..Cardinality(PanelPath)
      BY <1>1 DEF BudgetSound, Slots!AdmissionInvariant, Slots!TypeOK
    <3>2. panels[p].id \in Slots!Panel
      BY <1>1, <1>2, <3>1, Bounds DEF BudgetSound, Slots!Panel
    <3>3. QED
      BY <1>1, <1>2, <3>2, SlotsRelease DEF BudgetSound
  <2>3. QED
    BY <1>1, <1>8, <1>10, <2>1, <2>2 DEF BudgetSound
<1>21. readable' /\ PanelsCommit'
  BY <1>1, <1>3, <1>4 DEF PanelsCommit, Commit
<1>22. QED
  BY <1>12, <1>13, <1>16, <1>17, <1>18, <1>19, <1>20, <1>21 DEF LedgerInvariant

\* What a branch releases after it has settled preserves the invariant.
LEMMA ReleaseBranchKeeps ==
  ASSUME LedgerInvariant, NEW b \in BranchPath, ReleaseBranch(b)
  PROVE  LedgerInvariant'
<1>1. /\ LedgerShape /\ StackSound /\ TracesSound /\ SettledSound /\ MemoryAgrees /\ OpenSound
      /\ DurableSound /\ BudgetSound /\ readable /\ PanelsCommit
  BY DEF LedgerInvariant
<1>2. /\ b[1] \in DOMAIN panels /\ Slots!ReleaseBranch(<<panels[b[1]].id, b[2]>>)
      /\ ledger' = ledger /\ readable' = readable /\ panels' = panels /\ running' = running
      /\ inflight' = inflight /\ fatal' = fatal /\ generation' = generation
  BY DEF ReleaseBranch, hostVars
<1>3. UnderWay' = UnderWay /\ \A x : Called(x)' <=> Called(x)
  BY <1>2 DEF UnderWay, Called
<1>4. LedgerShape' /\ StackSound'
  BY <1>1, <1>2, <1>3 DEF LedgerShape, StackSound
<1>5. TracesSound'
  BY <1>1, <1>2, <1>3 DEF TracesSound, TraceIsTrue, NotAgain
<1>6. SettledSound' /\ MemoryAgrees' /\ OpenSound' /\ DurableSound'
  BY <1>1, <1>2 DEF SettledSound, MemoryAgrees, OpenSound, DurableSound
<1>7. BudgetSound'
  <2>1. consumed' = consumed /\ nextPanel' = nextPanel
    BY <1>2 DEF Slots!ReleaseBranch
  <2>2. Slots!AdmissionInvariant'
    <3>1. nextPanel \in 0..Cardinality(PanelPath)
      BY <1>1 DEF BudgetSound, Slots!AdmissionInvariant, Slots!TypeOK
    <3>2. panels[b[1]].id \in 1..Cardinality(PanelPath)
      BY <1>1, <1>2, <3>1, Bounds DEF BudgetSound
    <3>3. b[1] \in PanelPath /\ b # RootBranch
      BY <1>1, <1>2, PanelLedgerAssumption DEF LedgerShape
    <3>4. b[2] \in 1..Cardinality(BranchPath)
      BY <3>3, BranchFacts, Bounds
    <3>5. <<panels[b[1]].id, b[2]>> \in Slots!Branch
      BY <3>2, <3>4 DEF Slots!Branch, Slots!Panel
    <3>6. QED
      BY <1>1, <1>2, <3>5, SlotsRelease DEF BudgetSound
  <2>3. QED
    BY <1>1, <1>2, <2>1, <2>2 DEF BudgetSound
<1>8. QED
  BY <1>1, <1>2, <1>4, <1>5, <1>6, <1>7 DEF LedgerInvariant, PanelsCommit

\* A run that resumes has no panel open and no agent admitted that the journal has not.
LEMMA ResumeKeeps ==
  ASSUME LedgerInvariant, Resume
  PROVE  LedgerInvariant'
<1>1. /\ LedgerShape /\ StackSound /\ TracesSound /\ SettledSound /\ MemoryAgrees /\ OpenSound
      /\ DurableSound /\ BudgetSound /\ readable
  BY DEF LedgerInvariant
<1>2. /\ generation < generationBound /\ generation' = generation + 1
      /\ panels' = <<>> /\ running' = [b \in {RootBranch} |-> <<>>] /\ inflight' = {}
      /\ fatal' = None /\ consumed' = ledger.used /\ ledger' = ledger /\ readable' = readable
  BY DEF Resume, AgentsUsed
<1>3. DOMAIN panels' = {} /\ DOMAIN running' = {RootBranch} /\ running'[RootBranch] = <<>>
      /\ UnderWay' = {}
  BY <1>2 DEF UnderWay
<1>4. RootBranch \in BranchPath /\ <<>> \in DOMAIN Script[RootBranch]
  BY PanelLedgerAssumption, ScriptAssumption
<1>5. LedgerShape'
  <2>1. generation' \in 1..generationBound
    BY <1>1, <1>2, PanelLedgerAssumption DEF LedgerShape
  <2>2. QED
    BY <1>1, <1>2, <1>3, <1>4, <2>1 DEF LedgerShape
<1>6. StackSound'
  BY <1>3, <1>4 DEF StackSound
<1>7. TracesSound' /\ SettledSound' /\ MemoryAgrees'
  BY <1>3 DEF TracesSound, SettledSound, MemoryAgrees
<1>8. OpenSound'
  <2>1. ASSUME NEW p \in DOMAIN ledger.openBranches, NEW i PROVE <<p, i>> # RootBranch
    <3>1. p # RootBranch[1]
      BY <1>1, PanelLedgerAssumption DEF LedgerShape
    <3>2. QED
      BY <3>1
  <2>2. QED
    BY <1>1, <1>2, <1>3, <2>1 DEF OpenSound
<1>9. DurableSound'
  BY <1>1, <1>2 DEF DurableSound
<1>10. BudgetSound'
  <2>1. ledger.used \in 0..maxAgents
    BY <1>1 DEF BudgetSound, Slots!AdmissionInvariant, Slots!TypeOK
  <2>2. Slots!AllAtRoot'
    BY <1>2 DEF Resume, AgentsUsed, Slots!AllAtRoot
  <2>3. (consumed \in 0..maxAgents /\ Slots!AllAtRoot)' => Slots!AdmissionInvariant'
    BY SlotsNew, PTL
  <2>4. QED
    BY <1>2, <1>3, <2>1, <2>2, <2>3 DEF BudgetSound
<1>11. PanelsCommit'
  BY <1>2 DEF PanelsCommit, None
<1>12. QED
  BY <1>1, <1>2, <1>5, <1>6, <1>7, <1>8, <1>9, <1>10, <1>11 DEF LedgerInvariant

\* Every step preserves the invariant.
LEMMA LedgerStep == LedgerInvariant /\ [LedgerNext]_ledgerVars => LedgerInvariant'
<1> SUFFICES ASSUME LedgerInvariant, [LedgerNext]_ledgerVars PROVE LedgerInvariant'
  OBVIOUS
<1>1. ASSUME NEW p \in PanelPath, OpenPanel(p) \/ RefusePanel(p) \/ CompletePanel(p)
      PROVE  LedgerInvariant'
  <2>1. CASE OpenPanel(p)
    BY <2>1, OpenPanelKeeps
  <2>2. CASE RefusePanel(p)
    <3>1. fatal'.kind # "record" /\ generation' = generation
          /\ UNCHANGED <<ledger, readable, panels, running, inflight>> /\ UNCHANGED slotVars
      BY <2>2 DEF RefusePanel
    <3>2. QED
      BY <3>1, LedgerStutters
  <2>3. CASE CompletePanel(p)
    BY <2>3, CompletePanelKeeps
  <2>4. QED
    BY <1>1, <2>1, <2>2, <2>3
<1>2. ASSUME NEW c \in AgentPath,
             \/ ReplayAgent(c) \/ AdmitAgent(c) \/ RefuseAgent(c) \/ AgentSucceeds(c) \/ AgentFails(c)
      PROVE  LedgerInvariant'
  <2>1. CASE ReplayAgent(c)
    BY <2>1, ReplayAgentKeeps
  <2>2. CASE AdmitAgent(c)
    BY <2>2, AdmitAgentKeeps
  <2>3. CASE RefuseAgent(c)
    <3>1. fatal'.kind # "record" /\ generation' = generation
          /\ UNCHANGED <<ledger, readable, panels, running, inflight>> /\ UNCHANGED slotVars
      BY <2>3 DEF RefuseAgent
    <3>2. QED
      BY <3>1, LedgerStutters
  <2>4. CASE AgentSucceeds(c)
    <3>1. /\ c \in inflight /\ Commit(AgentRecord(c)) /\ panels' = FinishPanelAgent(c, "success")
          /\ running' = Resumed(Home[c], TRUE) /\ inflight' = inflight \ {c}
          /\ UNCHANGED <<fatal, generation, slotVars>>
      BY <2>4 DEF AgentSucceeds
    <3>2. QED
      BY <3>1, AgentEndKeeps
  <2>5. CASE AgentFails(c)
    <3>1. /\ c \in inflight /\ ledger' = ledger /\ readable' = readable
          /\ panels' = FinishPanelAgent(c, "failed")
          /\ running' = Resumed(Home[c], FALSE) /\ inflight' = inflight \ {c}
          /\ UNCHANGED <<fatal, generation, slotVars>>
      BY <2>5 DEF AgentFails
    <3>2. QED
      BY <3>1, AgentEndKeeps
  <2>6. QED
    BY <1>2, <2>1, <2>2, <2>3, <2>4, <2>5
<1>3. ASSUME NEW b \in BranchPath, NEW ok \in BOOLEAN, CompletePanelBranch(b, ok)
      PROVE  LedgerInvariant'
  BY <1>3, CompletePanelBranchKeeps
<1>4. ASSUME NEW b \in BranchPath, ReleaseBranch(b) PROVE LedgerInvariant'
  BY <1>4, ReleaseBranchKeeps
<1>5. CASE Resume
  BY <1>5, ResumeKeeps
<1>6. CASE UNCHANGED ledgerVars
  <2>1. fatal' = fatal /\ generation' = generation
        /\ UNCHANGED <<ledger, readable, panels, running, inflight>> /\ UNCHANGED slotVars
    BY <1>6 DEF ledgerVars, hostVars
  <2>2. fatal'.kind # "record"
    BY <2>1 DEF LedgerInvariant, PanelsCommit
  <2>3. QED
    BY <2>1, <2>2, LedgerStutters
<1>7. QED
  BY <1>1, <1>2, <1>3, <1>4, <1>5, <1>6 DEF LedgerNext, Stopped

\* For every script, every number of runs and wherever each of them dies: the journal
\* stays readable, its panels and branches list the calls that were admitted in them
\* with the results that are durable, a settled branch is recorded before its panel
\* completes, the run that writes never meets a record that it refuses itself, and
\* no admission passes the budget.
THEOREM LedgerCorrect == LedgerSpec => []LedgerSound
<1>1. LedgerInvariant => LedgerSound
  BY LedgerInvariantSuffices
<1>2. QED
  BY <1>1, LedgerStart, LedgerStep, PTL DEF LedgerSpec
=============================================================================
