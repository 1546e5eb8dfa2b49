---------------------------- MODULE PanelLedger ----------------------------
(***************************************************************************)
(* The panel records of the run journal, and what a resumed run makes of   *)
(* them.  A parallel() call is recorded when it opens (panel-open), when a *)
(* branch settles (panel-branch) and when all have (panel-complete); each  *)
(* record lists the agent calls made and how they ended.  A resumed run    *)
(* opens the panel again, finds in the records which branches will replay  *)
(* from the cache, and reserves fewer slots for them.                      *)
(*                                                                         *)
(* The reservations themselves are those of Admission.  The scripts are    *)
(* given: a branch's next step depends on the results it has awaited.      *)
(***************************************************************************)
EXTENDS Naturals, SequencesExt, TLC

CONSTANTS
  maxAgents,        \* the lifetime agent limit
  Slot,             \* names for the slots (see Admission)
  generationBound,  \* bound: the first run and its resumes
  Script,           \* branch -> results so far -> its next step
  Within,           \* agent call or panel -> the branches on its path, outermost first
  ReserveAgents     \* panel -> the reserveAgents that its call declares

RootBranch == <<"$", 1>>
PanelPath == DOMAIN ReserveAgents
AgentPath == DOMAIN Within \ PanelPath
BranchPath == DOMAIN Script
BranchCount(p) == Cardinality({b \in BranchPath : b[1] = p})
BranchesOf(p) == {<<p, i>> : i \in 1..BranchCount(p)}

\* The branches in which a call is made, and the innermost of them, which makes it.
Above[x \in DOMAIN Within] == Range(Within[x])
Home[x \in DOMAIN Within] == IF Within[x] = <<>> THEN RootBranch ELSE Last(Within[x])

InPanel(x, p) == \E b \in Above[x] : b[1] = p

\* The agents that a branch starts at most, from the results in x on.
Places == UNION {{<<b, rs>> : rs \in DOMAIN Script[b]} : b \in BranchPath}
Potential[x \in Places] ==
  LET step == Script[x[1]][x[2]]
      after == Max({Potential[<<x[1], Append(x[2], ok)>>] : ok \in BOOLEAN})
  IN  CASE step.do = "end" -> 0
        [] step.do = "agent" -> 1 + after
        [] step.do = "parallel" -> after +
             MapThenSumSet(LAMBDA c : Potential[<<c, <<>>>>], {c \in BranchPath : c[1] = step.of})

\* parallelImpl() refuses a panel that reserves less than a slot for each branch.
ASSUME PanelLedgerAssumption ==
  /\ maxAgents \in Nat \ {0} /\ generationBound \in Nat \ {0}
  /\ IsFiniteSet(Slot) /\ Cardinality(Slot) >= maxAgents
  /\ IsFiniteSet(BranchPath) /\ IsFiniteSet(PanelPath)
  /\ PanelPath \subseteq DOMAIN Within \ {RootBranch[1]}
  /\ BranchPath = {RootBranch} \cup UNION {BranchesOf(p) : p \in PanelPath}
  /\ \A p \in PanelPath : ReserveAgents[p] \in Nat /\ BranchCount(p) <= ReserveAgents[p]

\* A path is that of a panel, a branch of it, and what follows in the branch.
ASSUME PathAssumption ==
  \A x \in DOMAIN Within :
    /\ Within[x] \in Seq(BranchPath \ {RootBranch})
    /\ \A k \in DOMAIN Within[x] : Within[Within[x][k][1]] = SubSeq(Within[x], 1, k - 1)

\* A branch goes on until it ends, and each call it makes has a path of its own.
ASSUME ScriptAssumption ==
  \A b \in BranchPath :
    /\ <<>> \in DOMAIN Script[b]
    /\ \A rs \in DOMAIN Script[b] :
         /\ rs \in Seq(BOOLEAN)
         /\ Script[b][rs].do # "end" =>
              /\ \A ok \in BOOLEAN : Append(rs, ok) \in DOMAIN Script[b]
              /\ \A n \in 0..(Len(rs) - 1) :
                   /\ Script[b][SubSeq(rs, 1, n)].do # "end"
                   /\ Script[b][SubSeq(rs, 1, n)].of # Script[b][rs].of

\* A script may reserve less than its branches start.  One that is honest reserves for
\* every path through a panel.
HonestReserves ==
  \A p \in PanelPath :
    ReserveAgents[p] >= MapThenSumSet(LAMBDA b : Max({1, Potential[<<b, <<>>>>]}), BranchesOf(p))

VARIABLES
  ledger,      \* what loadJournal() makes of the file
  readable,    \* it has not refused a record of the file
  panels,      \* open panel -> its reservation and calls (activePanelTraces), its
               \* openPanelBranches and its openPanelAdmissions
  running,     \* unsettled branch -> the results that it has awaited
  inflight,    \* the agent calls that have been admitted and have not ended
  fatal,       \* the policy failure that stopped the run: its kind and place
  generation,  \* the first run is 1, its resumes count on
  finished,    \* history: the panels that once completed without any failure
  \* the variables of Admission:
  rootFree, consumed, live, path, contingent, parents, nextPanel, trace, ended, history

hostVars == <<panels, running, inflight, fatal, generation, finished>>
slotVars == <<rootFree, consumed, live, path, contingent, parents, nextPanel, trace, ended, history>>
ledgerVars == <<ledger, readable, hostVars, slotVars>>

Slots == INSTANCE Admission WITH
  usedAgents <- 0, Shape <- {},
  panelBound <- Cardinality(PanelPath),
  branchBound <- Cardinality(BranchPath)

\* The function f with the value v at x.
Put(f, x, v) == [y \in DOMAIN f \cup {x} |-> IF y = x THEN v ELSE f[y]]

----------------------------------------------------------------------------
(***************************************************************************)
(* The journal.  RunJournal's memory is what loadJournal() makes of the    *)
(* file, with one difference: after a resume it holds no panel open,       *)
(* whereas the reader still has those that earlier runs left open.         *)
(* A crash loses nothing that was appended: append() syncs.                *)
(***************************************************************************)
EmptyLedger ==
  [used |-> 0,               \* agentsUsed
   admitted |-> {},          \* admittedPaths
   agents |-> {},            \* calls with a durable result
   complete |-> <<>>,        \* completePanels
   branches |-> <<>>,        \* panelBranches
   openBranches |-> <<>>,    \* openPanelBranches
   openAdmissions |-> <<>>]  \* openPanelAdmissions

AdmitRecord(c) == [type |-> "admit", at |-> c]
AgentRecord(c) == [type |-> "agent", at |-> c]
OpenRecord(p) == [type |-> "panel-open", at |-> p]
BranchRecord(b, ok, calls) == [type |-> "panel-branch", at |-> b[1], index |-> b[2], ok |-> ok, calls |-> calls]
CompleteRecord(p, oks, calls) == [type |-> "panel-complete", at |-> p, oks |-> oks, calls |-> calls]

\* The calls of the branch, in their order: the k-th has k calls of it up to there.
CallsIn(calls, b) ==
  LET in == {i \in DOMAIN calls : b \in Above[calls[i].at]}
  IN  [k \in 1..Cardinality(in) |-> calls[CHOOSE i \in in : Cardinality({j \in in : j <= i}) = k]]

\* assertPanelBranchCoversDurableCalls(): the branch lists every call it was
\* admitted since the panel opened, with the result that the journal has.
Covers(l, b, calls) ==
  /\ b[1] \in DOMAIN l.openAdmissions
  /\ IsInjective([i \in DOMAIN calls |-> calls[i].at])
  /\ \A c \in l.openAdmissions[b[1]] :
       b \in Above[c] => [at |-> c, status |-> IF c \in l.agents THEN "success" ELSE "failed"] \in Range(calls)

OpenBranchesCovered(l, p) ==
  \A i \in DOMAIN l.openBranches[p] : Covers(l, <<p, i>>, l.openBranches[p][i].calls)

\* assertPanelCompletionMatchesBranches(): it lists the branches' calls, once.
Matches(l, r) ==
  LET branch == l.openBranches[r.at]
  IN  /\ r.at \in DOMAIN l.openBranches
      /\ DOMAIN branch = DOMAIN r.oks
      /\ \A i \in DOMAIN r.oks : branch[i].ok = r.oks[i]
      /\ IsInjective([i \in DOMAIN r.calls |-> r.calls[i].at])
      /\ Range(r.calls) = UNION {Range(branch[i].calls) : i \in DOMAIN branch}

\* The checks that recordPanelBranch() and recordPanelComplete() make before
\* they append, and that loadJournal() makes again.
Consistent(l, r) ==
  /\ r.type = "panel-branch" =>
       /\ Covers(l, <<r.at, r.index>>, r.calls)
       /\ r.index \notin DOMAIN l.openBranches[r.at]
  /\ r.type = "panel-complete" =>
       /\ r.at \in DOMAIN l.openBranches => OpenBranchesCovered(l, r.at)
       /\ Matches(l, r)

\* The checks that loadJournal() alone makes of the calls a record lists.
CallsKnown(l, r) ==
  r.type \in {"panel-branch", "panel-complete"} =>
    \A call \in Range(r.calls) :
      /\ IF r.type = "panel-branch" THEN <<r.at, r.index>> \in Above[call.at]
         ELSE InPanel(call.at, r.at)
      /\ call.at \in (IF call.status = "success" THEN l.agents ELSE l.admitted)

Accepts(l, r) ==
  /\ Consistent(l, r)
  /\ CallsKnown(l, r)
  /\ r.type = "agent" => r.at \notin l.agents

\* The checks of loadJournal() when it has read the whole file.
FileAccepted(l) ==
  /\ \A p \in DOMAIN l.openBranches : OpenBranchesCovered(l, p)
  /\ l.used <= maxAgents
  /\ l.agents \subseteq l.admitted

\* The panels that a call is made in have it among their open admissions.
NoteAdmission(open, c) == [p \in DOMAIN open |-> IF InPanel(c, p) THEN open[p] \cup {c} ELSE open[p]]

\* A panel that opens, for the first time or again, starts with nothing known.
ForgetPanel(l, p) ==
  [l EXCEPT !.complete = Restrict(@, DOMAIN @ \ {p}),
            !.branches = Put(@, p, <<>>),
            !.openBranches = Put(@, p, <<>>),
            !.openAdmissions = Put(@, p, {})]

ClosePanel(l, p) ==
  [l EXCEPT !.openBranches = Restrict(@, DOMAIN @ \ {p}),
            !.openAdmissions = Restrict(@, DOMAIN @ \ {p})]

\* loadJournal() takes a record in, and the record methods do when they append it.
Load(l, r) ==
  CASE r.type = "admit" ->
         [l EXCEPT !.used = @ + 1,
                   !.admitted = @ \cup {r.at},
                   !.openAdmissions = NoteAdmission(@, r.at)]
    [] r.type = "agent" -> [l EXCEPT !.agents = @ \cup {r.at}]
    [] r.type = "panel-open" -> ForgetPanel(l, r.at)
    [] r.type = "panel-branch" ->
         LET branch == [ok |-> r.ok, calls |-> r.calls]
         IN  [l EXCEPT !.branches[r.at] = Put(@, r.index, branch),
                       !.openBranches[r.at] = Put(@, r.index, branch)]
    [] r.type = "panel-complete" ->
         [ClosePanel(l, r.at) EXCEPT !.complete = Put(@, r.at, [oks |-> r.oks, calls |-> r.calls])]

\* What RunJournal has in memory: the panels that this run opened, no others.
Memory ==
  [ledger EXCEPT !.openBranches = [p \in DOMAIN panels |-> panels[p].branches],
                 !.openAdmissions = [p \in DOMAIN panels |-> panels[p].admissions]]

Commit(r) ==
  /\ ledger' = Load(ledger, r)
  /\ readable' = (readable /\ Accepts(ledger, r))

----------------------------------------------------------------------------
(***************************************************************************)
(* panelReplayPlan(): what the records promise of a panel's next opening.  *)
(***************************************************************************)
\* The record of branch i: from the completed panel, or its own.
BranchKnown(l, p, i) ==
  p \in DOMAIN l.complete \/ (p \in DOMAIN l.branches /\ i \in DOMAIN l.branches[p])

PriorCalls(l, p, i) ==
  IF p \in DOMAIN l.complete THEN CallsIn(l.complete[p].calls, <<p, i>>) ELSE l.branches[p][i].calls

PriorOutcome(l, p, i) ==
  IF p \in DOMAIN l.complete THEN l.complete[p].oks[i] ELSE l.branches[p][i].ok

Failures(calls) == {i \in DOMAIN calls : calls[i].status = "failed"}

BranchNeedsSlot(l, p, i) ==
  ~ (BranchKnown(l, p, i) /\ Failures(PriorCalls(l, p, i)) = {} /\ PriorOutcome(l, p, i))

\* Mutant: every call that succeeded counts, those behind a failure as well.
SequentialCreditOfAll(calls) == Len(calls) - Cardinality(Failures(calls))

\* The calls that succeeded before the first failure.
SequentialCredit(calls) ==
  IF Failures(calls) = {} THEN Len(calls) ELSE Min(Failures(calls)) - 1

\* nestedPanelCredit(): the best of the complete panels nested in the branch that
\* are reached through successes only; "credit" has the credits of the nested panels.
NestedPanelCredit(l, b, calls, credit) ==
  LET inside(q) == {i \in DOMAIN calls : InPanel(calls[i].at, q)}
      reached == {q \in DOMAIN l.complete :
                    /\ b \in Above[q]
                    /\ inside(q) # {}
                    /\ \A i \in Failures(calls) : i >= Min(inside(q))}
  IN  Max({0} \cup {Min(inside(q)) - 1 + credit[q] : q \in reached})

BranchCredit(l, p, i, credit) ==
  LET calls == PriorCalls(l, p, i)
  IN  IF ~ BranchKnown(l, p, i) THEN 0
      ELSE IF ~ BranchNeedsSlot(l, p, i) THEN Max({1, Len(calls)})
      ELSE Max({SequentialCredit(calls), NestedPanelCredit(l, <<p, i>>, calls, credit)})

SlotCredit(l, p) ==
  LET credit[q \in PanelPath] ==
        LET sum == MapThenSumSet(LAMBDA i : BranchCredit(l, q, i, credit), 1..BranchCount(q))
        IN  IF q \in DOMAIN l.complete /\ \A i \in 1..BranchCount(q) : ~ BranchNeedsSlot(l, q, i)
            THEN Max({sum, ReserveAgents[q]})
            ELSE sum
  IN  credit[p]

Needs(p) == [i \in 1..BranchCount(p) |-> BranchNeedsSlot(ledger, p, i)]

----------------------------------------------------------------------------
(***************************************************************************)
(* The run.  Only one call or panel of a branch runs at a time: the worker *)
(* refuses concurrent orchestration in one scope.                          *)
(***************************************************************************)
None == [kind |-> "none", at |-> "$"]

LedgerInit ==
  /\ ledger = EmptyLedger
  /\ readable = TRUE
  /\ panels = <<>>
  /\ running = [b \in {RootBranch} |-> <<>>]
  /\ inflight = {}
  /\ fatal = None
  /\ generation = 1
  /\ finished = {}
  /\ Slots!Init

\* The branch has control and does this next.
AtStep(b, do, of) ==
  /\ b \in DOMAIN running
  /\ \A x \in inflight \cup DOMAIN panels : Home[x] # b
  /\ Script[b][running[b]].do = do
  /\ Script[b][running[b]].of = of

Resumed(b, ok) == [running EXCEPT ![b] = Append(@, ok)]

ContextOf(b) == IF b = RootBranch THEN Slots!Root ELSE <<panels[b[1]].id, b[2]>>

\* recordAdmission() notes the call in every open panel that encloses it.
RecordAdmission(c) ==
  [p \in DOMAIN panels |->
     IF InPanel(c, p) THEN [panels[p] EXCEPT !.admissions = @ \cup {c}] ELSE panels[p]]

\* Mutant: a call is traced in the panel that it is made in, and in no other.
BeginInnermostPanelAgent(traces, c, status) ==
  [p \in DOMAIN traces |->
     IF Home[c][1] = p THEN [traces[p] EXCEPT !.calls = Append(@, [at |-> c, status |-> status])]
     ELSE traces[p]]

\* beginPanelAgent(), finishPanelAgent(): in the traces of all enclosing panels.
BeginPanelAgent(traces, c, status) ==
  [p \in DOMAIN traces |->
     IF InPanel(c, p) THEN [traces[p] EXCEPT !.calls = Append(@, [at |-> c, status |-> status])]
     ELSE traces[p]]

FinishPanelAgent(c, status) ==
  [p \in DOMAIN panels |->
     [panels[p] EXCEPT !.calls = [i \in DOMAIN @ |-> IF @[i].at = c THEN [at |-> c, status |-> status] ELSE @[i]]]]

\* parallel() and reservePanel: reserve by the plan, commit the panel-open record.
OpenPanel(p) ==
  LET b == Home[p]
      planned == Slots!LiveSlots(Needs(p), ReserveAgents[p], SlotCredit(ledger, p))
  IN  /\ fatal = None
      /\ AtStep(b, "parallel", p)
      /\ Slots!OpenPanel(ContextOf(b), Needs(p), ReserveAgents[p], SlotCredit(ledger, p))
      /\ nextPanel' = nextPanel + 1
      /\ Commit(OpenRecord(p))
      /\ panels' = Put(panels, p, [id |-> nextPanel', live |-> planned, calls |-> <<>>,
                                   branches |-> <<>>, admissions |-> {}])
      /\ running' = [c \in DOMAIN running \cup BranchesOf(p) |->
                       IF c \in BranchesOf(p) THEN <<>> ELSE running[c]]
      /\ UNCHANGED <<inflight, fatal, generation, finished>>

SlotsOf(id) == Slots!Held(Slots!Account, id)

\* The slots that the plan asks for are not there.
RefusePanel(p) ==
  LET b == Home[p]
      ids == Slots!ReservationsOf(ContextOf(b))
      planned == Slots!LiveSlots(Needs(p), ReserveAgents[p], SlotCredit(ledger, p))
  IN  /\ fatal = None
      /\ AtStep(b, "parallel", p)
      /\ rootFree + Cardinality(UNION {SlotsOf(id) : id \in Range(ids)}) < planned
      /\ fatal' = [kind |-> "slots", at |-> p]
      /\ UNCHANGED <<ledger, readable, panels, running, inflight, generation, finished, slotVars>>

\* An agent call whose result is in the journal is replayed.
ReplayAgent(c) ==
  /\ fatal = None
  /\ AtStep(Home[c], "agent", c)
  /\ c \in ledger.agents
  /\ panels' = BeginPanelAgent(panels, c, "success")
  /\ running' = Resumed(Home[c], TRUE)
  /\ UNCHANGED <<ledger, readable, inflight, fatal, generation, finished, slotVars>>

\* Any other is admitted, with a slot of its reservations.
AdmitAgent(c) ==
  LET ctx == ContextOf(Home[c])
  IN  /\ fatal = None
      /\ AtStep(Home[c], "agent", c)
      /\ c \notin ledger.agents
      /\ \/ Slots!ConsumeReserved(ctx)
         \/ Slots!ConsumeContingent(ctx)
         \/ ctx = Slots!Root /\ Slots!ConsumeRoot
      /\ Commit(AdmitRecord(c))
      /\ panels' = BeginPanelAgent(RecordAdmission(c), c, "pending")
      /\ inflight' = inflight \cup {c}
      /\ UNCHANGED <<running, fatal, generation, finished>>

SlotAvailable(ctx) ==
  IF ctx = Slots!Root THEN rootFree > 0
  ELSE \/ \E id \in Range(Slots!ReservationsOf(ctx)) : SlotsOf(id) # {}
       \/ /\ contingent[ctx[1]] > 0
          /\ rootFree > 0 \/ \E id \in Range(parents[ctx[1]]) : SlotsOf(id) # {}

RefuseAgent(c) ==
  /\ fatal = None
  /\ AtStep(Home[c], "agent", c)
  /\ c \notin ledger.agents
  /\ ~ SlotAvailable(ContextOf(Home[c]))
  /\ fatal' = [kind |-> "slots", at |-> c]
  /\ UNCHANGED <<ledger, readable, panels, running, inflight, generation, finished, slotVars>>

\* The result is committed and the call returns it.
AgentSucceeds(c) ==
  /\ c \in inflight
  /\ Commit(AgentRecord(c))
  /\ panels' = FinishPanelAgent(c, "success")
  /\ running' = Resumed(Home[c], TRUE)
  /\ inflight' = inflight \ {c}
  /\ UNCHANGED <<fatal, generation, finished, slotVars>>

\* A failed agent is null to its script, and leaves no record.
AgentFails(c) ==
  /\ c \in inflight
  /\ fatal = None
  /\ panels' = FinishPanelAgent(c, "failed")
  /\ running' = Resumed(Home[c], FALSE)
  /\ inflight' = inflight \ {c}
  /\ UNCHANGED <<ledger, readable, fatal, generation, finished, slotVars>>

\* The branch's function returned or threw: completePanelBranch.
CompletePanelBranch(b, ok) ==
  LET calls == CallsIn(panels[b[1]].calls, b)
      record == BranchRecord(b, ok, calls)
  IN  /\ b # RootBranch
      /\ AtStep(b, "end", ok)
      /\ IF Consistent(Memory, record) /\ \A call \in Range(calls) : call.status # "pending"
         THEN /\ Commit(record)
              /\ panels' = [panels EXCEPT ![b[1]].branches = Put(@, b[2], [ok |-> ok, calls |-> calls])]
              /\ UNCHANGED fatal
         ELSE /\ fatal' = [kind |-> "record", at |-> b[1]]
              /\ UNCHANGED <<ledger, readable, panels>>
      /\ running' = Restrict(running, DOMAIN running \ {b})
      /\ UNCHANGED <<inflight, generation, finished, slotVars>>

\* The worker's next message returns what the branch did not use.
ReleaseBranch(b) ==
  /\ b[1] \in DOMAIN panels
  /\ b \notin DOMAIN running
  /\ Slots!ReleaseBranch(<<panels[b[1]].id, b[2]>>)
  /\ UNCHANGED <<ledger, readable, hostVars>>

\* All branches have settled: parallel() completes and releases the panel.
CompletePanel(p) ==
  LET branches == panels[p].branches
      oks == [i \in 1..BranchCount(p) |-> branches[i].ok]
      record == CompleteRecord(p, oks, panels[p].calls)
  IN  /\ p \in DOMAIN panels
      /\ DOMAIN branches = 1..BranchCount(p)
      /\ Slots!ReleasePanel(panels[p].id)
      /\ IF Consistent(Memory, record)
         THEN Commit(record) /\ UNCHANGED fatal
         ELSE fatal' = [kind |-> "record", at |-> p] /\ UNCHANGED <<ledger, readable>>
      /\ panels' = Restrict(panels, DOMAIN panels \ {p})
      /\ running' = Resumed(Home[p], \A i \in DOMAIN oks : oks[i])
      /\ finished' = IF (\A i \in DOMAIN oks : oks[i]) /\ Failures(panels[p].calls) = {}
                     THEN finished \cup {p} ELSE finished
      /\ UNCHANGED <<inflight, generation>>

\* _agentsUsed of a journal that is resumed: every admission ever recorded.
AgentsUsed == ledger.used

\* The process dies, or the run ends, at any moment; the workflow is resumed
\* with the reservations of a new AgentAdmission.
Resume ==
  /\ generation < generationBound
  /\ readable /\ FileAccepted(ledger)
  /\ generation' = generation + 1
  /\ panels' = <<>>
  /\ running' = [b \in {RootBranch} |-> <<>>]
  /\ inflight' = {}
  /\ fatal' = None
  /\ consumed' = AgentsUsed
  /\ rootFree' = maxAgents - AgentsUsed
  /\ live' = {}
  /\ path' = [s \in Slot |-> <<>>]
  /\ contingent' = [p \in Slots!Panel |-> 0]
  /\ parents' = [p \in Slots!Panel |-> <<>>]
  /\ nextPanel' = 0
  /\ trace' = {}
  /\ ended' = FALSE
  /\ history' = Slots!EmptyHistory
  /\ UNCHANGED <<ledger, readable, finished>>

\* The script returned, or a policy failure stopped it.
Stopped ==
  /\ fatal # None \/ AtStep(RootBranch, "end", TRUE)
  /\ UNCHANGED ledgerVars

LedgerNext ==
  \/ \E p \in PanelPath : OpenPanel(p) \/ RefusePanel(p) \/ CompletePanel(p)
  \/ \E c \in AgentPath :
       ReplayAgent(c) \/ AdmitAgent(c) \/ RefuseAgent(c) \/ AgentSucceeds(c) \/ AgentFails(c)
  \/ \E b \in BranchPath, ok \in BOOLEAN : CompletePanelBranch(b, ok)
  \/ \E b \in BranchPath : ReleaseBranch(b)
  \/ Resume
  \/ Stopped

LedgerSpec == LedgerInit /\ [][LedgerNext]_ledgerVars
----------------------------------------------------------------------------
(***************************************************************************)
(* Properties                                                              *)
(***************************************************************************)
LedgerTypeOK ==
  /\ ledger.used \in 0..maxAgents
  /\ ledger.agents \cup ledger.admitted \cup inflight \subseteq AgentPath
  /\ DOMAIN ledger.complete \cup DOMAIN panels \subseteq PanelPath
  /\ DOMAIN ledger.openBranches = DOMAIN ledger.openAdmissions
  /\ DOMAIN ledger.openBranches \subseteq DOMAIN ledger.branches
  /\ readable \in BOOLEAN
  /\ DOMAIN running \subseteq BranchPath
  /\ generation \in 1..generationBound
  /\ Slots!TypeOK

\* Wherever the process dies, the next resume can read the journal: none of the
\* reader's cross-checks of panel, branch, admission and result records refuses.
JournalReadable == readable /\ FileAccepted(ledger)

\* The host's own checks never refuse the record of a branch or of a panel: when
\* it settles, the calls traced are those admitted and their statuses are durable.
PanelsCommit == fatal.kind # "record"

\* The admission and the journal count the same agents, across resumes, and the
\* slots that panels hold account for the rest of the limit.
BudgetMatchesLedger == consumed = ledger.used /\ Slots!Conservation

\* Writer and reader agree on the panels' records and on the count of agents,
\* wherever the process dies and however often the run is resumed.
LedgerSound == LedgerTypeOK /\ JournalReadable /\ PanelsCommit /\ BudgetMatchesLedger

\* The replay plan is conservative, for scripts whose nested panels reserve no more
\* than they use: the branches of a panel, and of those nested in it, start no more
\* agents than were reserved when it opened, whatever fails or succeeds this time.
PlanCovers ==
  \A p \in DOMAIN panels : Cardinality(panels[p].admissions) <= panels[p].live

\* A panel that was opened without credit has all that its branches ask for: no
\* call and no nested panel inside it is refused, however its siblings draw.
FreshPanelSuffices ==
  fatal.kind = "slots" =>
    \A p \in DOMAIN panels : panels[p].live = ReserveAgents[p] =>
      ~ InPanel(fatal.at, p)

\* What a panel of an honest script reserved is enough, whether it replays or runs afresh.
ReservationsSuffice == PlanCovers /\ FreshPanelSuffices

\* What the README and a test say: cached replay does not consume the limit again,
\* and fully cached panels do not reacquire an unused over-reservation.  So a panel
\* that has once completed, all its calls durable, can be opened by every resume.
CachedPanelOpens == fatal.kind = "slots" => fatal.at \notin finished

(***************************************************************************)
(* What the proofs add to make LedgerSound inductive.                      *)
(***************************************************************************)
TracedCall == [at : AgentPath, status : {"pending", "success", "failed"}]

LedgerFields(l) ==
  l = [used |-> l.used, admitted |-> l.admitted, agents |-> l.agents,
       complete |-> l.complete, branches |-> l.branches,
       openBranches |-> l.openBranches, openAdmissions |-> l.openAdmissions]

PanelFields(t) ==
  t = [id |-> t.id, live |-> t.live, calls |-> t.calls,
       branches |-> t.branches, admissions |-> t.admissions]

LedgerShape ==
  /\ LedgerFields(ledger)
  /\ \A p \in DOMAIN panels : PanelFields(panels[p])
  /\ DOMAIN ledger.complete \cup DOMAIN ledger.branches \cup DOMAIN panels \subseteq PanelPath
  /\ DOMAIN ledger.openBranches = DOMAIN ledger.openAdmissions
  /\ DOMAIN ledger.openBranches \subseteq DOMAIN ledger.branches
  /\ DOMAIN running \subseteq BranchPath
  /\ generation \in 1..generationBound

\* The calls and panels that a branch waits for.  It waits for one at a time, the
\* one that its script has come to, and every branch around that one is unsettled.
UnderWay == inflight \cup DOMAIN panels

StackSound ==
  /\ \A b \in DOMAIN running :
       running[b] \in DOMAIN Script[b] /\ (b = RootBranch \/ b[1] \in DOMAIN panels)
  /\ \A x \in UnderWay :
       LET b == Home[x]
       IN  /\ b \in DOMAIN running /\ Above[x] \subseteq DOMAIN running
           /\ Script[b][running[b]].do # "end" /\ Script[b][running[b]].of = x

\* The branch that makes this call has made it, or has settled.
Called(x) ==
  LET b == Home[x]
  IN  b \in DOMAIN running =>
        \/ x \in UnderWay
        \/ \E n \in 0..(Len(running[b]) - 1) : Script[b][SubSeq(running[b], 1, n)].of = x

\* What a panel's trace has of a call.
TraceIsTrue(p, call) ==
  /\ InPanel(call.at, p)
  /\ call.status = "pending" <=> call.at \in inflight
  /\ call.status = "success" => call.at \in ledger.agents
  /\ call.status = "failed" => call.at \in ledger.admitted \ ledger.agents

\* A traced call is not made again, nor is a panel inside this one that it is in.
NotAgain(p, c) ==
  Called(c) /\ \A b \in Above[c] : InPanel(b[1], p) => Called(b[1])

TracesSound ==
  \A p \in DOMAIN panels :
    LET calls == panels[p].calls
    IN  /\ calls \in Seq(TracedCall)
        /\ \A i, j \in DOMAIN calls : calls[i].at = calls[j].at => i = j
        /\ \A call \in Range(calls) : TraceIsTrue(p, call) /\ NotAgain(p, call.at)
        /\ \A c \in panels[p].admissions : \E call \in Range(calls) : call.at = c

\* A settled branch has the calls that its panel traced in it, each once.
SettledSound ==
  \A p \in DOMAIN panels : \A i \in DOMAIN panels[p].branches :
    LET branch == panels[p].branches[i]
    IN  /\ i \in 1..BranchCount(p) /\ branch.ok \in BOOLEAN
        /\ IsInjective([k \in DOMAIN branch.calls |-> branch.calls[k].at])
        /\ Range(branch.calls) = {call \in Range(panels[p].calls) : <<p, i>> \in Above[call.at]}

\* The reader has the panels that are open as the run has them.
MemoryAgrees ==
  \A p \in DOMAIN panels :
    /\ p \in DOMAIN ledger.openBranches
    /\ ledger.openBranches[p] = panels[p].branches
    /\ ledger.openAdmissions[p] = panels[p].admissions

\* What was recorded as settled does not run again before its panel opens again.
OpenSound ==
  \A p \in DOMAIN ledger.openBranches :
    /\ OpenBranchesCovered(ledger, p)
    /\ \A i \in DOMAIN ledger.openBranches[p] : <<p, i>> \notin DOMAIN running

DurableSound ==
  /\ ledger.agents \subseteq ledger.admitted /\ ledger.admitted \subseteq AgentPath
  /\ inflight \subseteq ledger.admitted \ ledger.agents

BudgetSound ==
  /\ consumed = ledger.used
  /\ Slots!AdmissionInvariant
  /\ \A p \in DOMAIN panels : panels[p].id \in 1..nextPanel

LedgerInvariant ==
  /\ LedgerShape /\ StackSound /\ TracesSound /\ SettledSound
  /\ MemoryAgrees /\ OpenSound /\ DurableSound /\ BudgetSound
  /\ readable /\ PanelsCommit
=============================================================================
