---------------------------- MODULE CallIdentity ----------------------------
(***************************************************************************)
(* The identity of calls across resumes: call paths of script-worker.mjs   *)
(* (allocateCallPath, scopes, loop marks, phases) and what prepareAgent    *)
(* and loadWorkflow of runtime.ts and the journal make of them.            *)
(*                                                                         *)
(* A run is killed, or ends, at any moment and is resumed.  The same       *)
(* script then runs again, with other interleavings of its branches and    *)
(* perhaps other outcomes of its agents, and every call of it has to find  *)
(* its own record in the journal, though other calls ask the same thing.   *)
(*                                                                         *)
(* Scripts are data: each function body is a sequence of instructions, as  *)
(* the parser has instrumented it.  A scope runs one call at a time, which *)
(* startOrchestration() enforces; branches of parallel() and items of      *)
(* pipeline() interleave.  A failed agent answers null (FALSE).            *)
(***************************************************************************)
EXTENDS Naturals, SequencesExt

CONSTANTS
  Code,        \* the function bodies by name
  Workflows,   \* those that are the body of a script: a run has one of them
  Generations  \* the first run and its resumes

\* What an instruction is; "last" is where its body ends.  A panel has branches and a
\* pipeline items and stages (an empty one opens no scope, and settles at once).
IsSeq(s) == s \in Seq(Range(s))

IsInstruction(i, last) ==
  /\ i.op \in {"phase", "mark", "jump", "parallel", "pipeline", "helper", "workflow", "agent"}
  /\ i.op = "jump" => i.to \in 1..last
  /\ i.op = "parallel" => i.bodies \in Seq(DOMAIN Code) \ {<<>>}
  /\ i.op = "pipeline" => i.stages \in Seq(DOMAIN Code) \ {<<>>} /\ i.items \in Nat \ {0}
  /\ i.op \in {"helper", "workflow"} => i.body \in DOMAIN Code

\* The scripts are well-formed, as the parser has accepted and instrumented them.
ASSUME CodeAssumption ==
  /\ Workflows \subseteq DOMAIN Code
  /\ Generations \in Nat \ {0}
  /\ \A body \in DOMAIN Code :
       /\ IsSeq(Code[body])
       /\ \A pc \in DOMAIN Code[body] : IsInstruction(Code[body][pc], Len(Code[body]) + 1)

VARIABLES
  gen,       \* which run this is
  frames,    \* the scopes of the worker, by their position in the script
  open,      \* the agent() calls that are not answered yet, by theirs
  seen,      \* seenCallPaths
  asked,     \* agentRequestOccurrences
  nestings,  \* nestedRequestOccurrences
  journal,   \* the agent records: an identity, and the call whose it is
  nested,    \* the nested sources of the journal
  refused    \* the host failed the run for the identity of a call

identityVars == <<gen, frames, open, seen, asked, nestings, journal, nested, refused>>

(***************************************************************************)
(* The properties know a scope or call by its position: the instructions   *)
(* it was entered through, each with the iterations of the loops around it *)
(* as the script's author counts them, and the branch, the item and stage, *)
(* or the request of a nested workflow.                                    *)
(***************************************************************************)
Root == <<>>
Instr(f) == Code[frames[f].code][frames[f].pc]
AtEnd(f) == frames[f].pc > Len(Code[frames[f].code])
At(f, op) == ~refused /\ frames[f].waits = {} /\ ~AtEnd(f) /\ Instr(f).op = op

\* The function f with the value v at x, and f with what g has besides or instead.
With(f, x, v) == [y \in DOMAIN f \cup {x} |-> IF y = x THEN v ELSE f[y]]
Merge(f, g) == [y \in DOMAIN f \cup DOMAIN g |-> IF y \in DOMAIN g THEN g[y] ELSE f[y]]

Counter(counters, key) == IF key \in DOMAIN counters THEN counters[key] ELSE 0
Bumped(counters, key) == With(counters, key, Counter(counters, key) + 1)

Iteration(f) == [i \in DOMAIN Instr(f).loops |-> Counter(frames[f].turns, Instr(f).loops[i])]
Position(f, child) == Append(f, <<frames[f].pc, Iteration(f), child>>)

(***************************************************************************)
(* createExecutionScope(): fresh counters and a copy of the loop marks.    *)
(* "holder" is the scope whose phaseState this one uses.                   *)
(***************************************************************************)
Scope(code, path, marks, holder, phase) ==
  [code |-> code, pc |-> 1, path |-> path, counters |-> <<>>, marks |-> marks,
   turns |-> <<>>, holder |-> holder, phase |-> phase, ok |-> TRUE, waits |-> {}]

CurrentPhase(f) == frames[frames[f].holder].phase

IdentityInit ==
  /\ gen = 1
  /\ \E script \in Workflows : frames = [f \in {Root} |-> Scope(script, <<>>, <<>>, Root, "none")]
  /\ open = <<>> /\ seen = {} /\ asked = <<>> /\ nestings = <<>>
  /\ journal = {} /\ nested = {} /\ refused = FALSE

----------------------------------------------------------------------------
(***************************************************************************)
(* allocateCallPath().  A path is made of segments: what it goes through,  *)
(* that is the source site (body and instruction) with the marks of the    *)
(* loops around it, a branch, an item's stage or a request, and a number:  *)
(* how often it has been there, 0 when that is left out, or which branch   *)
(* or item it is.                                                          *)
(***************************************************************************)
Segment(through, nth) == [through |-> through, nth |-> nth]

Marks(f) == [i \in DOMAIN Instr(f).loops |-> Counter(frames[f].marks, Instr(f).loops[i])]
Key(f) == <<Instr(f).op, frames[f].code, frames[f].pc, Marks(f)>>
CallPath(f) == Append(frames[f].path, Segment(Key(f), Counter(frames[f].counters, Key(f)) + 1))
Source(path) == Append(Front(path), Segment(Last(path).through, 0))

\* Mutant: the path of a stage is that of its item.
PathInItem(path, i, s) == Append(path, Segment(<<"stage">>, i))

PathInBranch(path, b) == Append(path, Segment(<<"branch">>, b))
PathInStage(path, i, s) == Append(path, Segment(<<"stage", s>>, i))

\* The scope f opens the scopes "kids" and waits for them.
Fork(f, kids) ==
  frames' = Merge([frames EXCEPT ![f].counters = Bumped(@, Key(f)), ![f].waits = DOMAIN kids], kids)

(***************************************************************************)
(* Instructions that stay in the scope.                                    *)
(***************************************************************************)
local == <<gen, open, seen, asked, nestings, journal, nested, refused>>

\* phase(): of the scope, which a helper shares with its caller.
Phase(f) ==
  /\ At(f, "phase")
  /\ frames' = [frames EXCEPT ![frames[f].holder].phase = Instr(f).title, ![f].pc = @ + 1]
  /\ UNCHANGED local

\* markLoopIteration(), at the top of a loop's body.  The mark counts on when the
\* loop is entered again; the author counts afresh.
Mark(f) ==
  /\ At(f, "mark")
  /\ frames' = [frames EXCEPT
       ![f].marks = Bumped(@, Instr(f).loop),
       ![f].turns = Merge(Bumped(@, Instr(f).loop), [l \in Instr(f).inner |-> 0]),
       ![f].pc = @ + 1]
  /\ UNCHANGED local

\* The script's control flow: on the last answer, on a loop's count, or on both.
Jump(f) ==
  /\ At(f, "jump")
  /\ LET i == Instr(f)
         more == Counter(frames[f].turns, i.loop) < i.bound
         taken == \/ i.when = "ok" /\ frames[f].ok
                  \/ i.when = "more" /\ more
                  \/ i.when = "retry" /\ more /\ ~frames[f].ok
     IN frames' = [frames EXCEPT ![f].pc = IF taken THEN i.to ELSE @ + 1]
  /\ UNCHANGED local

(***************************************************************************)
(* Calls that open scopes, and their end.                                  *)
(***************************************************************************)
\* Mutant: branches use the phase of the scope that opened them.
ParallelSharingPhase(f) ==
  /\ At(f, "parallel")
  /\ LET branches == DOMAIN Instr(f).bodies
         branch(k) == Last(k)[3][1]
     IN Fork(f, [k \in {Position(f, <<b>>) : b \in branches} |->
          Scope(Instr(f).bodies[branch(k)], PathInBranch(CallPath(f), branch(k)),
                frames[f].marks, frames[f].holder, "none")])
  /\ UNCHANGED local

\* parallel(): one scope per branch, which inherits its caller's phase.
Parallel(f) ==
  /\ At(f, "parallel")
  /\ LET branches == DOMAIN Instr(f).bodies
         branch(k) == Last(k)[3][1]
     IN Fork(f, [k \in {Position(f, <<b>>) : b \in branches} |->
          Scope(Instr(f).bodies[branch(k)], PathInBranch(CallPath(f), branch(k)),
                frames[f].marks, k, CurrentPhase(f))])
  /\ UNCHANGED local

\* pipeline(): the first stage of every item; the others follow in End.
Stage(f, path, i, s, k) ==
  Scope(Instr(f).stages[s], PathInStage(path, i, s), frames[f].marks, k, CurrentPhase(f))

Pipeline(f) ==
  /\ At(f, "pipeline")
  /\ Fork(f, [k \in {Position(f, <<i, 1>>) : i \in 1..Instr(f).items} |->
        Stage(f, CallPath(f), Last(k)[3][1], 1, k)])
  /\ UNCHANGED local

\* invokeHelper(): a scope with its own path that shares its caller's phase.
Helper(f) ==
  /\ At(f, "helper")
  /\ Fork(f, [k \in {Position(f, <<>>)} |->
        Scope(Instr(f).body, CallPath(f), frames[f].marks, frames[f].holder, "none")])
  /\ UNCHANGED local

\* loadWorkflow(): the request, here what the last answer makes of it, takes the
\* place of the occurrence, and requests of one site are counted by the host.
NestedBase(f) ==
  Append(Source(CallPath(f)), Segment(<<"request", Instr(f).request[frames[f].ok]>>, 0))

NestedPath(f) ==
  Append(Source(CallPath(f)),
         Segment(Last(NestedBase(f)).through, Counter(nestings, NestedBase(f)) + 1))

\* workflow(): the source under a path, arguments included, may not change.
Workflow(f) ==
  /\ At(f, "workflow")
  /\ LET request == Instr(f).request[frames[f].ok]
         path == NestedPath(f)
     IN
     IF \E n \in nested : n[1] = path /\ n[2] # request
     THEN refused' = TRUE /\ UNCHANGED <<frames, nestings, nested>>
     ELSE /\ nested' = nested \cup {<<path, request>>}
          /\ nestings' = Bumped(nestings, NestedBase(f))
          /\ Fork(f, [k \in {Position(f, <<request>>)} |->
                Scope(Instr(f).body, path, <<>>, k, CurrentPhase(f))])
          /\ UNCHANGED refused
  /\ UNCHANGED <<gen, open, seen, asked, journal>>

\* A body ends: the item's next stage starts, or the caller has one scope less to
\* wait for, and goes on after the last.
EndBody(f) ==
  /\ ~refused /\ f # Root /\ AtEnd(f) /\ frames[f].waits = {}
  /\ LET up == Front(f)
         where == Last(f)[3]
         next == Position(up, <<where[1], where[2] + 1>>)
         rest == frames[up].waits \ {f}
         others == [k \in DOMAIN frames \ {f} |-> frames[k]]
     IN
     frames' =
       IF Instr(up).op = "pipeline" /\ where[2] < Len(Instr(up).stages)
       THEN With([others EXCEPT ![up].waits = rest \cup {next}], next,
                Stage(up, Front(frames[f].path), where[1], where[2] + 1, next))
       ELSE [others EXCEPT ![up].waits = rest,
                           ![up].pc = IF rest = {} THEN @ + 1 ELSE @]
  /\ UNCHANGED local

----------------------------------------------------------------------------
(***************************************************************************)
(* agent().  The prompt may depend on the last answer; the phase of the    *)
(* scope is part of the request.                                           *)
(***************************************************************************)
CallAgent(f) ==
  /\ At(f, "agent")
  /\ LET w == Position(f, <<>>)
     IN /\ open' = With(open, w, [path |-> CallPath(f), status |-> "posted", whose |-> w,
                                   prompt |-> Instr(f).request[frames[f].ok],
                                   phase |-> CurrentPhase(f), identity |-> <<>>])
        /\ frames' = [frames EXCEPT ![f].waits = {w}, ![f].counters = Bumped(@, Key(f))]
  /\ UNCHANGED <<gen, seen, asked, nestings, journal, nested, refused>>

\* Mutant: a request is known by what it asks, wherever it was made.
RequestAnywhere(call) == <<call.prompt, call.phase>>

Request(call) == <<Source(call.path), call.prompt, call.phase>>

\* The durable identity: the request and how often this site has made it.
Identity(call) == <<Request(call), Counter(asked, Request(call))>>

\* prepareAgent() and the journal's lookup: a duplicate path fails the run; a call
\* that has its record is answered from it, and every other one runs.
PrepareAgent(w) ==
  /\ ~refused /\ open[w].status = "posted"
  /\ IF open[w].path \in seen
     THEN refused' = TRUE /\ UNCHANGED <<open, seen, asked>>
     ELSE /\ seen' = seen \cup {open[w].path}
          /\ asked' = Bumped(asked, Request(open[w]))
          /\ \/ \E r \in journal :
                  /\ r.identity = Identity(open[w])
                  /\ open' = [open EXCEPT ![w].status = "replayed", ![w].whose = r.whose]
             \/ /\ \A r \in journal : r.identity # Identity(open[w])
                /\ open' = [open EXCEPT ![w].status = "live",
                                        ![w].identity = Identity(open[w])]
          /\ UNCHANGED refused
  /\ UNCHANGED <<gen, frames, nestings, journal, nested>>

\* The call is answered.  A live one that succeeds is in the journal by then.
AnswerAgent(w) ==
  /\ ~refused /\ open[w].status \in {"live", "replayed"}
  /\ LET f == Front(w) IN
     \E ok \in BOOLEAN :
       /\ open[w].status = "replayed" => ok
       /\ frames' = [frames EXCEPT ![f].ok = ok, ![f].waits = {}, ![f].pc = @ + 1]
       /\ journal' = IF open[w].status = "live" /\ ok
                     THEN journal \cup {[identity |-> open[w].identity, whose |-> w,
                                         prompt |-> open[w].prompt]}
                     ELSE journal
  /\ open' = [v \in DOMAIN open \ {w} |-> open[v]]
  /\ UNCHANGED <<gen, seen, asked, nestings, nested, refused>>

----------------------------------------------------------------------------
\* The run ends or dies, and is resumed: a new worker, and a host that knows what
\* is in the journal.  The script is the same: the artifact of the run is compared.
ResumeScript ==
  /\ gen < Generations
  /\ gen' = gen + 1
  /\ frames' = [f \in {Root} |-> Scope(frames[Root].code, <<>>, <<>>, Root, "none")]
  /\ open' = <<>> /\ seen' = {} /\ asked' = <<>> /\ nestings' = <<>>
  /\ refused' = FALSE
  /\ UNCHANGED <<journal, nested>>

ScriptSettled ==
  /\ refused \/ AtEnd(Root)
  /\ gen = Generations
  /\ UNCHANGED identityVars

IdentityNext ==
  \/ \E f \in DOMAIN frames :
       \/ Phase(f) \/ Mark(f) \/ Jump(f)
       \/ Parallel(f) \/ Pipeline(f) \/ Helper(f) \/ Workflow(f) \/ EndBody(f)
       \/ CallAgent(f)
  \/ \E w \in DOMAIN open : PrepareAgent(w) \/ AnswerAgent(w)
  \/ ResumeScript
  \/ ScriptSettled

IdentitySpec == IdentityInit /\ [][IdentityNext]_identityVars

----------------------------------------------------------------------------
(***************************************************************************)
(* Properties                                                              *)
(***************************************************************************)
IdentityTypeOK ==
  /\ gen \in 1..Generations
  /\ refused \in BOOLEAN
  /\ \A f \in DOMAIN frames :
       /\ frames[f].code \in DOMAIN Code
       /\ frames[f].pc \in 1..(Len(Code[frames[f].code]) + 1)
       /\ frames[f].holder \in DOMAIN frames
       /\ frames[f].waits \subseteq DOMAIN frames \cup DOMAIN open
  /\ \A w \in DOMAIN open :
       /\ Front(w) \in DOMAIN frames /\ frames[Front(w)].waits = {w}
       /\ open[w].status \in {"posted", "live", "replayed"}

\* The host never fails a run of an unchanged script for the identity of its calls:
\* no two calls of a run have one path, whichever branches, helpers and loops they
\* are in, and no nested workflow is taken for a changed one.
NeverRefused == ~refused

\* So every call is accepted, wherever in the script it is made.
CallsAccepted == IdentityTypeOK /\ NeverRefused

\* A replayed call gets the result of the same call: the one at the same place in
\* the script and in the same iterations, not that of another with the same prompt.
ReplaysItsOwn ==
  \A w \in DOMAIN open : open[w].status = "replayed" => open[w].whose = w

\* README.md:41: completed calls are replayed by stable structural identity,
\* without rerunning successful work.  A call that has its result in the journal
\* does not run again, however the branches interleave and the agents answer.
SuccessNotRerun ==
  \A w \in DOMAIN open : open[w].status = "live" =>
    \A r \in journal : r.whose = w => r.prompt # open[w].prompt

\* Both: a call that has a result finds it, and no other one's.
FindsItsOwn == ReplaysItsOwn /\ SuccessNotRerun

(***************************************************************************)
(* What the proofs add to make CallsAccepted inductive.                    *)
(***************************************************************************)
FrameFields(t) ==
  t = [code |-> t.code, pc |-> t.pc, path |-> t.path, counters |-> t.counters,
       marks |-> t.marks, turns |-> t.turns, holder |-> t.holder, phase |-> t.phase,
       ok |-> t.ok, waits |-> t.waits]

CallFields(t) ==
  t = [path |-> t.path, status |-> t.status, whose |-> t.whose, prompt |-> t.prompt,
       phase |-> t.phase, identity |-> t.identity]

\* Scopes and calls are a tree, by their positions.  A scope waits for its children,
\* and its phase is that of itself or of a scope around it.
TreeSound ==
  /\ Root \in DOMAIN frames /\ DOMAIN frames \cap DOMAIN open = {}
  /\ \A f \in DOMAIN frames :
       /\ FrameFields(frames[f]) /\ IsSeq(f) /\ Prefixes(f) \subseteq DOMAIN frames
       /\ frames[f].holder \in Prefixes(f)
       /\ frames[f].waits # {} => ~AtEnd(f)
       /\ \A k \in frames[f].waits : k # Root /\ Front(k) = f
  /\ \A f \in DOMAIN frames \ {Root} : f \in frames[Front(f)].waits
  /\ \A w \in DOMAIN open : CallFields(open[w])

\* The paths of scopes and calls of this run, those of scopes that are over left out.
Paths ==
  seen \cup {frames[f].path : f \in DOMAIN frames} \cup {open[w].path : w \in DOMAIN open}

IsPath(q) ==
  IsSeq(q) /\ \A i \in 1..Len(q) : q[i] = Segment(q[i].through, q[i].nth) /\ q[i].nth \in Nat

\* The path q begins with p and goes on, with a segment that counters count.
Begins(p, q) == Len(p) < Len(q) /\ \A i \in 1..Len(p) : q[i] = p[i]
Following(p, q) == q[Len(p) + 1]
IsCounted(next, counters) == next.nth <= Counter(counters, next.through)

PathsSound ==
  /\ \A q \in Paths : IsPath(q)
  /\ frames[Root].path = <<>>
  /\ \A f \in DOMAIN frames \ {Root} : frames[f].path # <<>> /\ Last(frames[f].path).nth # 0
  /\ \A f, g \in DOMAIN frames : frames[f].path = frames[g].path => f = g

\* A scope has counted the segments that follow its path.
ScopesCount ==
  \A f \in DOMAIN frames :
    /\ \A key \in DOMAIN frames[f].counters : frames[f].counters[key] \in Nat /\ key[1] # "stage"
    /\ \A q \in Paths : Begins(frames[f].path, q) =>
         IsCounted(Following(frames[f].path, q), frames[f].counters)

\* The host has counted the requests that follow the source of a nested workflow.
Base(q, i) == Append(SubSeq(q, 1, i - 1), Segment(q[i].through, 0))

RequestsCounted(q, counts) ==
  \A i \in 2..Len(q) : q[i - 1].nth = 0 => q[i].nth <= Counter(counts, Base(q, i))

HostCounts ==
  /\ \A base \in DOMAIN nestings : nestings[base] \in Nat
  /\ \A q \in Paths : RequestsCounted(q, nestings)

\* An item of a pipeline is in one stage, and has not been in a later one.
Around(up) == Append(frames[up].path, Segment(Key(up), Counter(frames[up].counters, Key(up))))

InOrder(next, i, s) == next.through[1] = "stage" /\ next.nth = i => next.through[2] \in 1..s

StageSound(f, up, i, s) ==
  /\ i \in 1..Instr(up).items /\ s \in 1..Len(Instr(up).stages)
  /\ f = Position(up, <<i, s>>)
  /\ Counter(frames[up].counters, Key(up)) # 0
  /\ frames[f].path = PathInStage(Around(up), i, s)
  /\ \A q \in Paths : Begins(Around(up), q) => InOrder(Following(Around(up), q), i, s)

StagesInOrder ==
  \A f \in DOMAIN frames \ {Root} : Instr(Front(f)).op = "pipeline" =>
    StageSound(f, Front(f), Last(f)[3][1], Last(f)[3][2])

\* A call has its scope's path and a segment, and is new until the host sees it.
CallsSound ==
  \A w \in DOMAIN open :
    /\ \E e \in Range(open[w].path) : open[w].path = Append(frames[Front(w)].path, e)
    /\ open[w].status = "posted" => open[w].path \notin seen

\* What the journal has of a nested workflow is the request that its path tells.
NestedSound == \A n \in nested : Last(n[1]).through = <<"request", n[2]>>

IdentityInvariant ==
  /\ CallsAccepted /\ TreeSound /\ PathsSound /\ ScopesCount /\ HostCounts
  /\ StagesInOrder /\ CallsSound /\ NestedSound
=============================================================================
