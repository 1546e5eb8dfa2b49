----------------------------- MODULE Admission -----------------------------
(***************************************************************************)
(* AgentAdmission of src/workflow/admission.ts with the panel operations   *)
(* of runtime.ts that drive it: the run's lifetime budget of agents, split *)
(* into reservations by parallel() panels.  A panel's reservation is       *)
(* carved into one reservation per branch; a nested panel draws on the     *)
(* branch it runs in, then on that branch's panel, then on the root.  A    *)
(* slot remembers the reservations it was drawn through, so that an unused *)
(* one finds its way back to the nearest that is still live.  Which of its *)
(* slots a reservation gives away is left open here; in the code it is the *)
(* oldest.                                                                 *)
(*                                                                         *)
(* Every operation is synchronous, hence one action; what interleaves is   *)
(* the order in which the branches of all open panels call, nest, return   *)
(* and float on after their panel is gone.                                 *)
(***************************************************************************)
EXTENDS Naturals, SequencesExt, FiniteSetsExt

CONSTANTS
  maxAgents,    \* the lifetime agent limit
  usedAgents,   \* the agents that earlier runs of the workflow admitted
  Slot,         \* names for the slots that are left
  panelBound,   \* bound: panels opened in a run
  branchBound,  \* bound: branches of one panel
  Shape         \* the parallel() calls of the script: which branches need an
                \* agent, reserveAgents, and the credit for cached branches

ASSUME AdmissionAssumption ==
  /\ maxAgents \in Nat \ {0}
  /\ usedAgents \in 0..maxAgents
  /\ IsFiniteSet(Slot) /\ Cardinality(Slot) >= maxAgents - usedAgents
  /\ panelBound \in Nat /\ branchBound \in Nat
  /\ \A shape \in Shape :
       /\ shape.needs \in BoundedSeq(BOOLEAN, branchBound)
       /\ shape.reserve \in Nat /\ Len(shape.needs) <= shape.reserve
       /\ shape.credit \in Nat

Panel == 1..panelBound
Root == <<>>                      \* the script body: it passes no reservation
Branch == Panel \X (1..branchBound)
PanelId(p) == <<p, 0>>
BranchId(p, i) == <<p, i>>
Id == Panel \X (0..branchBound)
IdsOf(p) == {id \in Id : id[1] = p}
BranchesOf(p, branches) == {BranchId(p, i) : i \in branches}
Context == {Root} \cup Branch

VARIABLES
  rootFree,    \* slots that no reservation holds
  consumed,    \* agents admitted, over all the runs of a resumed workflow
  live,        \* the reservations
  path,        \* slot -> the reservation that holds it, then its return stack
  contingent,  \* panel -> agents it may draw upstream, its replay having missed
  parents,     \* panel -> the reservations it was opened with
  nextPanel,   \* the panels opened so far
  trace,       \* activePanelTraces: the panels that the run still has to release
  ended,       \* the run was drained
  history      \* what the code does not record: see EmptyHistory below

vars == <<rootFree, consumed, live, path, contingent, parents, nextPanel, trace, ended, history>>

(***************************************************************************)
(* The history of the live reservations, for the properties only: the      *)
(* slots that one was granted, those of them that became agents, the       *)
(* agents that the branches of a panel started, what that panel declared,  *)
(* and the branches that have asked for anything yet.                      *)
(***************************************************************************)
History ==
  [granted : [Id -> Nat], spent : [Id -> Nat], calls : [Panel -> Nat],
   reserve : [Panel -> Nat], asked : SUBSET Branch]

EmptyHistory ==
  [granted |-> [id \in Id |-> 0], spent |-> [id \in Id |-> 0],
   calls |-> [p \in Panel |-> 0], reserve |-> [p \in Panel |-> 0], asked |-> {}]

\* The slot at the front of this path becomes an agent.
Spent(h, p) == [h EXCEPT !.spent = [id \in Id |-> IF id \in Range(p) THEN @[id] + 1 ELSE @[id]]]

Called(h, ctx) ==
  IF ctx = Root THEN h
  ELSE [h EXCEPT !.calls[ctx[1]] = @ + 1, !.asked = @ \cup {ctx}]

Asked(h, ctx) == [h EXCEPT !.asked = @ \cup ({ctx} \ {Root})]

\* A panel was granted n slots, and each of these branches one of them.
Granted(h, p, n, branches, reserve) ==
  [h EXCEPT !.reserve[p] = reserve,
            !.granted = [id \in Id |-> IF id = PanelId(p) THEN n
                                       ELSE IF id \in BranchesOf(p, branches) THEN 1
                                       ELSE @[id]]]

OfLive(h, ids) ==
  [granted |-> [id \in Id |-> IF id \in ids THEN h.granted[id] ELSE 0],
   spent   |-> [id \in Id |-> IF id \in ids THEN h.spent[id] ELSE 0],
   calls   |-> [p \in Panel |-> IF PanelId(p) \in ids THEN h.calls[p] ELSE 0],
   reserve |-> [p \in Panel |-> IF PanelId(p) \in ids THEN h.reserve[p] ELSE 0],
   asked   |-> h.asked \cap ids]

TypeOK ==
  /\ rootFree \in Nat
  /\ consumed \in 0..maxAgents
  /\ live \subseteq Id
  /\ path \in [Slot -> Seq(Id)]
  /\ contingent \in [Panel -> Nat]
  /\ parents \in [Panel -> Seq(Id)]
  /\ nextPanel \in 0..panelBound
  /\ trace \subseteq 1..nextPanel
  /\ ended \in BOOLEAN
  /\ history \in History

\* The constructor of AgentAdmission: nothing is reserved of what is left.
AllAtRoot ==
  /\ rootFree = maxAgents - consumed
  /\ live = {}
  /\ path = [s \in Slot |-> <<>>]
  /\ contingent = [p \in Panel |-> 0]
  /\ parents = [p \in Panel |-> <<>>]
  /\ nextPanel = 0
  /\ trace = {}
  /\ ended = FALSE
  /\ history = EmptyHistory

Init == consumed = usedAgents /\ AllAtRoot

----------------------------------------------------------------------------
(***************************************************************************)
(* The account: the free root slots, the reservations and their slots.     *)
(***************************************************************************)
Account == [root |-> rootFree, live |-> live, path |-> path]

SetAccount(a) == rootFree' = a.root /\ live' = a.live /\ path' = a.path

Held(a, id) == {s \in Slot : a.path[s] # <<>> /\ Head(a.path[s]) = id}
AtRoot(a) == {s \in Slot : a.path[s] = <<>>}

\* The reservations a call made in ctx names, innermost first.
ReservationsOf(ctx) == IF ctx = Root THEN <<>> ELSE <<ctx, PanelId(ctx[1])>>

\* uniqueReservations(): the operation throws when one of them has expired.
Live(ids) == Range(ids) \subseteq live

\* Mutant: a slot that its holder's return address does not take is the root's.
OnwardOnce(ids, p) ==
  CASE p = <<>> -> <<>>
    [] p # <<>> /\ Head(p) \in ids -> p
    [] p # <<>> /\ Head(p) \notin ids ->
         IF Len(p) > 1 /\ p[2] \in ids THEN Tail(p) ELSE <<>>

\* returnSlot(): on to the first live reservation of the path, or to the root.
Onward(ids, p) ==
  LET alive == {i \in DOMAIN p : p[i] \in ids}
  IN  IF alive = {} THEN <<>> ELSE SubSeq(p, Min(alive), Len(p))

\* releasePanel() for each of these reservations: they expire, and their unused
\* slots return.  A slot that goes by way of one that is to be released next ends
\* where it would have gone without it, so that their order does not matter.
Released(a, ids) ==
  LET left == a.live \ ids
      onward == [s \in Slot |-> Onward(left, a.path[s])]
  IN  [root |-> a.root + Cardinality({s \in Slot \ AtRoot(a) : onward[s] = <<>>}),
       live |-> left,
       path |-> onward]

\* A reservation that is released is deleted with all that it records.
Release(ids) ==
  LET a == Released(Account, ids)
      kept(p) == PanelId(p) \in a.live
  IN  /\ SetAccount(a)
      /\ contingent' = [p \in Panel |-> IF kept(p) THEN contingent[p] ELSE 0]
      /\ parents' = [p \in Panel |-> IF kept(p) THEN parents[p] ELSE <<>>]
      /\ history' = OfLive(history, a.live)

----------------------------------------------------------------------------
\* What reservePanel() may draw for n slots: its parents' slots, those of the
\* first parent before those of the second, and only then the root's.
MayDraw(a, n, ids, drawn) ==
  LET offered(k) == Held(a, ids[k])
      all == UNION {offered(k) : k \in DOMAIN ids}
  IN  /\ Cardinality(drawn) = n
      /\ drawn \subseteq all \cup AtRoot(a)
      /\ drawn \cap AtRoot(a) # {} => all \subseteq drawn
      /\ \A j, k \in DOMAIN ids :
           j < k /\ drawn \cap offered(k) # {} => offered(j) \subseteq drawn
      /\ Cardinality(drawn \cap AtRoot(a)) <= a.root

\* The path of a slot that this reservation draws.
Via(id, p) == <<id>> \o p

\* reservePanel(): the slots drawn are the new reservation's, and return from it
\* to where they came from.
Reserve(a, id, drawn) ==
  [root |-> a.root - Cardinality(drawn \cap AtRoot(a)),
   live |-> a.live \cup {id},
   path |-> [s \in Slot |-> IF s \in drawn THEN Via(id, a.path[s]) ELSE a.path[s]]]

\* Mutant: the branches get reservations but no slots.
SetAsideNothing(a, p, branches, first) ==
  [a EXCEPT !.live = @ \cup BranchesOf(p, branches)]

\* Of the panel's slots one is set aside for every branch that needs one.
SetAside(a, p, branches, first) ==
  [root |-> a.root,
   live |-> a.live \cup BranchesOf(p, branches),
   path |-> [s \in Slot |-> IF s \in Range(first)
                            THEN Via(BranchId(p, CHOOSE i \in DOMAIN first : first[i] = s), a.path[s])
                            ELSE a.path[s]]]

\* reservePanelSlots(): a panel that replays cached branches reserves less than
\* it declared, but enough for the branches that must run again.
LiveSlots(needs, reserve, credit) ==
  LET required == Cardinality({i \in DOMAIN needs : needs[i]})
  IN  IF reserve >= required + credit THEN reserve - credit ELSE required

\* What a replay did not reserve stays available upstream if its cache misses.
ContingentSlots(needs, reserve, credit) == reserve - LiveSlots(needs, reserve, credit)

\* reservePanel and commitPanelReservation of runtime.ts, by way of
\* reservePanelWithBranchNeeds(), which accepts no other numbers than naturals: the
\* panel-open record is committed, or both layers of reservations are released again.
OpenPanel(ctx, needs, reserve, credit) ==
  LET p == nextPanel + 1
      ids == ReservationsOf(ctx)
      n == LiveSlots(needs, reserve, credit)
      needy == {i \in DOMAIN needs : needs[i]}
  IN  /\ ~ended
      /\ p \in Panel
      /\ n \in Nat /\ ContingentSlots(needs, reserve, credit) \in Nat
      /\ Live(ids)
      /\ \E drawn \in SUBSET Slot :
           /\ MayDraw(Account, n, ids, drawn)
           /\ \E first \in Injection(needy, drawn) :
                LET opened == SetAside(Reserve(Account, PanelId(p), drawn), p, DOMAIN needs, first)
                IN  \/ /\ nextPanel' = p
                       /\ SetAccount(opened)
                       /\ trace' = trace \cup {p}
                       /\ contingent' =
                            [contingent EXCEPT ![p] = ContingentSlots(needs, reserve, credit)]
                       /\ parents' = [parents EXCEPT ![p] = ids]
                       /\ history' = Granted(Asked(history, ctx), p, n, needy, reserve)
                    \/ /\ SetAccount(Released(opened, IdsOf(p)))
                       /\ history' = Asked(history, ctx)
                       /\ UNCHANGED <<nextPanel, trace, contingent, parents>>
      /\ UNCHANGED <<consumed, ended>>

----------------------------------------------------------------------------
\* The first of these reservations that has slots gives one.
Gives(ids, s) ==
  \E k \in DOMAIN ids : /\ s \in Held(Account, ids[k])
                        /\ \A j \in 1..(k - 1) : Held(Account, ids[j]) = {}

\* consumeAgent() finds a slot in one of the reservations it was given.
ConsumeReserved(ctx) ==
  /\ Live(ReservationsOf(ctx))
  /\ \E s \in Slot : /\ Gives(ReservationsOf(ctx), s)
                     /\ path' = [path EXCEPT ![s] = <<>>]
                     /\ history' = Spent(Called(history, ctx), path[s])
  /\ consumed' = consumed + 1
  /\ UNCHANGED <<rootFree, live, contingent, parents, nextPanel, trace, ended>>

\* They are empty, but the panel may draw what its replay did not reserve from
\* its own parents, and then from the root.
ConsumeContingent(ctx) ==
  /\ ctx # Root
  /\ Live(ReservationsOf(ctx))
  /\ \A id \in Range(ReservationsOf(ctx)) : Held(Account, id) = {}
  /\ contingent[ctx[1]] > 0
  /\ Live(parents[ctx[1]])
  /\ \/ \E s \in Slot : /\ Gives(parents[ctx[1]], s)
                        /\ path' = [path EXCEPT ![s] = <<>>]
                        /\ history' = Spent(Called(history, ctx), path[s])
                        /\ UNCHANGED rootFree
     \/ /\ \A id \in Range(parents[ctx[1]]) : Held(Account, id) = {}
        /\ rootFree > 0
        /\ rootFree' = rootFree - 1
        /\ history' = Called(history, ctx)
        /\ UNCHANGED path
  /\ contingent' = [contingent EXCEPT ![ctx[1]] = @ - 1]
  /\ consumed' = consumed + 1
  /\ UNCHANGED <<live, parents, nextPanel, trace, ended>>

\* Outside any panel, the root's own slots are used.
ConsumeRoot ==
  /\ rootFree > 0
  /\ rootFree' = rootFree - 1
  /\ consumed' = consumed + 1
  /\ UNCHANGED <<live, path, contingent, parents, nextPanel, trace, ended, history>>

----------------------------------------------------------------------------
\* A branch has settled and the worker releases its reservation.
ReleaseBranch(b) ==
  /\ ~ended
  /\ b \in live
  /\ Release({b})
  /\ UNCHANGED <<consumed, nextPanel, trace, ended>>

\* All branches have settled: the panel is released with its trace.
ReleasePanel(p) ==
  /\ ~ended
  /\ p \in trace
  /\ IdsOf(p) \cap live \cap Branch = {}
  /\ Release(IdsOf(p))
  /\ trace' = trace \ {p}
  /\ UNCHANGED <<consumed, nextPanel, ended>>

\* drain(): releaseOpenPanels() for whatever the script left open.
Drain ==
  /\ ~ended
  /\ ended' = TRUE
  /\ Release(UNION {IdsOf(p) : p \in trace})
  /\ trace' = {}
  /\ UNCHANGED <<consumed, nextPanel>>

Finished == ended /\ UNCHANGED vars

Next ==
  \/ \E ctx \in Context, shape \in Shape :
       OpenPanel(ctx, shape.needs, shape.reserve, shape.credit)
  \/ \E ctx \in Context : ConsumeReserved(ctx)
  \/ \E ctx \in Branch : ConsumeContingent(ctx)
  \/ ConsumeRoot
  \/ \E b \in Branch : ReleaseBranch(b)
  \/ \E p \in Panel : ReleasePanel(p)
  \/ Drain
  \/ Finished

Spec == Init /\ [][Next]_vars

----------------------------------------------------------------------------
(***************************************************************************)
(* Properties                                                              *)
(***************************************************************************)
\* The slots that reservations hold.
Reserved == {s \in Slot : path[s] # <<>>}

\* The lifetime limit: however reservations are carved up, passed on, released
\* or drained out of order, no slot is lost and none is made.
Conservation ==
  /\ rootFree + consumed + Cardinality(Reserved) = maxAgents
  /\ \A s \in Reserved : Head(path[s]) \in live

\* The slots that are a reservation's, or that will return to it.
Beneath(id) == {s \in Slot : id \in Range(path[s])}

\* A live reservation is never robbed: each slot it was granted has become an
\* agent started beneath it, or is held by it or by one that will return it.
NoSlotStolen ==
  \A id \in live : history.granted[id] = history.spent[id] + Cardinality(Beneath(id))

\* A branch that has asked for nothing yet still has the slot set aside for it,
\* whatever its siblings and the panels nested in them have drawn.
FirstCallGuaranteed ==
  \A b \in live \cap Branch :
    b \notin history.asked => Cardinality(Held(Account, b)) >= history.granted[b]

\* A replayed panel's branches start no more agents than the script declared,
\* even when cached branches turn out to be missing.
PanelWithinDeclaration ==
  \A p \in Panel : history.calls[p] <= history.reserve[p]

\* After the drain no reservation is left and all that is unused is at the root.
DrainReturnsAll ==
  ended => live = {} /\ rootFree = maxAgents - consumed

\* Every slot is in one place, until it is consumed or back at the root.
SlotsAccounted == TypeOK /\ Conservation /\ NoSlotStolen /\ DrainReturnsAll

\* What a panel was promised, and no more than that, is there for its branches.
PromisesKept == FirstCallGuaranteed /\ PanelWithinDeclaration

(***************************************************************************)
(* What the proofs add to make the properties inductive.                   *)
(***************************************************************************)
\* Only reservations of opened panels are mentioned, and what is live the run
\* still has to release.
OnlyOpened ==
  /\ \A id \in live : id[1] \in trace
  /\ \A s \in Slot : \A i \in DOMAIN path[s] : path[s][i][1] \in 1..nextPanel
  /\ \A id \in Id : id[1] > nextPanel => history.granted[id] = 0 /\ history.spent[id] = 0
  /\ ended => trace = {}

\* What a branch holds, or will get back, goes to its panel after it.
Returns(p) ==
  \A i \in DOMAIN p : p[i] \in Branch =>
    \E j \in DOMAIN p : i < j /\ p[j] = PanelId(p[i][1])

BranchesReturn == \A s \in Slot : Returns(path[s])

\* A panel's branches have called no more often than slots of the panel were spent
\* and contingent ones drawn.
CallsCovered ==
  \A p \in Panel :
    IF PanelId(p) \in live
    THEN history.calls[p] + contingent[p] + history.granted[PanelId(p)]
           <= history.spent[PanelId(p)] + history.reserve[p]
    ELSE history.calls[p] = 0

\* The branch that a panel was opened in has asked.
ParentsAsked ==
  /\ history.asked \subseteq live
  /\ \A p \in Panel : \A i \in DOMAIN parents[p] :
       parents[p][i] \in live \cap Branch => parents[p][i] \in history.asked
  /\ \A p \in Panel : \A i \in DOMAIN parents[p] : parents[p][i][1] \in 1..nextPanel

AdmissionInvariant ==
  /\ TypeOK
  /\ Conservation /\ NoSlotStolen /\ FirstCallGuaranteed
  /\ OnlyOpened /\ BranchesReturn /\ CallsCovered /\ ParentsAsked
=============================================================================
