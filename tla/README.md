# A TLA+ model of pi-ultracode

pi-ultracode runs *dynamic workflows*: a JavaScript script, executed in a worker
thread, that calls `agent()`, `parallel()`, `pipeline()` and `workflow()`.  The
host schedules the agents, isolates some of them in Git worktrees, delivers their
changes to the user's working tree and keeps a journal from which an interrupted
run resumes.  This directory holds TLA+ models of the parts where interleavings,
crashes and partial failures decide whether that is correct, the TLC runs that
check them on small instances, and TLAPS proofs for the parts that matter most.

Source paths below are relative to the repository; `PROJECT.json` maps every
definition to the lines it stands for.

## The system

| Component | State | Operations | Interacts with |
| --- | --- | --- | --- |
| Execution gate (`runtime.ts` `makeExecutionGate`) | queue of waiters, permits in use, closed | request, release, close | agent fibers sleep on a waiter's deferred; one gate bounds a run's concurrency, one per repository is its apply lock |
| Agent admission (`admission.ts`) | free root slots, live reservations with their slots and return addresses, agents used | reserve panel and branches, consume, release | called by agent admission, `parallel()` and the drain; counts resume from the journal |
| Run journal (`journal.ts`) | an append-only JSONL file, poisoned or closed | append records, load and repair, resume, close | every durable step of a run; read again by the next generation |
| Worktree delivery (`runtime.ts`, `worktree.ts`) | worktrees, saved patches, the shared tree, the apply lock | create, capture, save patch, record intent, apply, commit, rescue, remove | journal, gate, user's repository |
| Panel records (`journal.ts`, `runtime.ts`) | panel-open, branch, complete records; replay plan | open, complete a branch, complete, plan a replay | admission credits, journal loading |
| Run lifecycle (`runtime.ts`) | pending fibers, first policy error, cleanup deadline | execute, abort, drain, recover | executor, gates, journal, tool host |
| Script executor (`script-executor.ts`) and worker (`script-worker.mjs`) | outstanding RPCs, tracked promises, terminal message | RPC, cancel, finish, fatal | worker thread and host exchange messages |
| Jev batch (`src/jev.ts`) | members joined, skipped or failed | join, skip, select efforts | one per `parallel()` batch of agents; must not hold permits |
| Agent runner (`agent-runner.ts`) | one session per agent | create, prompt, retry, cancel, clean up | called under a permit |
| Tool host, leases, registry, artifacts (`tool.ts`, `leases.ts`, `registry.ts`, `run-artifacts.ts`) | session leases, heartbeat, run list, artifact files | acquire, observe, publish, trim | starts, resumes and reports runs |
| Mode and preferences (`mode.ts`, `preferences.ts`, `extensions/ultracode.ts`) | ultracode mode, effort | toggle, restore | session entries |
| Run details (`run-details.ts`) | transcripts of agents on disk, their shared budget | append, compact, finalize, replay | written from agent sessions, read by the overlay |
| Parser, value limits, schemas, display, commands, prompts | none that a run's correctness rests on | | |

What is hard in it, and what each component owes:

* **Gate.** A granted fiber sleeps until the Effect scheduler resumes it; its
  scope may close or the run may be aborted in between.  Never more agents than
  permits, no permit idle while someone waits, first come first served, nobody
  left asleep by an abort.
* **Admission.** Panels nest, run side by side, replay from the journal and float
  on after the branch they were opened in.  No slot of the lifetime budget may be
  lost, invented or taken from a reservation that still needs it.
* **Delivery and journal.** The process may die between any two steps; a write
  may fail or tear; a patch may conflict, throw, or be rolled back badly; the user
  edits the same tree.  Work is applied at most once and never lost, and a run
  resumes only where the journal and the tree agree.
* **Panel records.** What a run wrote before it died, followed by what its resumes
  write, must be readable for ever; a replay reserves less than a first run, and
  must still have what the paths that a retry reveals need.
* **Executor, worker, lifecycle.** Messages of both sides cross; results come
  after cancellation; the drain is bounded; one failure is reported, the right
  one.
* **Call identity.**  A call keeps its name over resumes in which branches interleave
  differently and agents answer differently, and never takes another's.
* **Jev batch.** A batch must not wait for a member that will never join, nor
  hold permits while it waits.
* **Worktrees.** A patch is captured from a tree in which hooks, agent and Git have all
  been at work, is applied whole or not at all over a tree that somebody else edits, and
  the worktree is removed although others may have moved or replaced it.
* **Transcripts.** One budget over many files, kept through failures and resumes.
* **Tool host.** Lease, heartbeat, observers and outcome fail independently; the
  outcome is published once.

`PROJECT.json` lists these as hazards, each at its line with the properties that
would catch it.

## The modules

### ExecutionGate

`makeExecutionGate()` with the fibers that use it.  `queue`, `active` and `closed`
are the closure's variables; `state` is a waiter's `state` field and `ready` its
deferred.  `request()`, `release()` and `close()` are synchronous, so each is one
action together with the `pump()` it ends with (`RequestOpen`, `RequestClosed`,
`CloseScope` for the finalizer that releases, `Close`).  `Resume` is the fiber's
wake-up, a separate action because the scheduler runs it later: it tests the
scope and the abort again (`checkOpen()`), as the code does.  `pump()` is a loop
in the code; `PumpStops(.., k)` says after how many elements it ends.

`Turnstile` is the abstract specification: a place that is left goes to the head
of the line in the same step.  Its line is a set with an order, `ahead`.
`ImplementsTurnstile` is the property; the mapping orders the queued waiters as the
code's queue does, and those who were abandoned there are not in line.  `NobodyForgotten` joins two invariants: no permit idles while a
fiber waits (`NoIdlePermit`), and closing the gate answers all (`CloseAnswersAll`).

### Admission

`AgentAdmission` with the operations of `runtime.ts` that drive it.  A reservation
is named by its panel and branch.  The slots that reservations hold have names, and
`path` has for each the reservation that holds it followed by the return stack of the
code's `SlotEntry`; the root's slots are a number, as in the code.  So drawing a slot
puts a reservation in front of its path (`Reserve`, `SetAside`), and `returnSlot()` is the
suffix from the first live reservation on (`Onward`).  Two things differ from the code.
Which of its slots a reservation gives away is left open (`MayDraw`, `Gives`), where the
code takes the oldest; the order in which it draws on its parents and the root is
the code's.  And the reservations of a panel are released together (`Released`), where the
code does so one by one: `ReleaseOrder` proves that it comes to the same.

`OpenPanel` reserves the panel's slots and carves one
reservation per branch, then commits, or releases both again when the journal
refuses the record; `ConsumeReserved`, `ConsumeContingent` and `ConsumeRoot` are
the three ways `consumeAgent()` finds a slot; `ReleaseBranch`, `ReleasePanel` and
`Drain` return what is unused.  A caller passes the reservations of the branch it
runs in, also when that branch has been released since, in which case the code
throws and the action is disabled.  `history` is auxiliary: it records what
reservations were granted and what became of it, for the properties only.

`SlotsAccounted` joins the conservation of slots, that no slot is taken from a
reservation which still needs it (`NoSlotStolen`), and that a drain returns them all;
`PromisesKept` that a branch has the slot set aside for its first call
(`FirstCallGuaranteed`), and that a replayed panel stays within its declaration.

### Delivery

A worktree agent call from its admission to its committed result, with the
journal, the shared tree, the user, crashes and resumes.  `ledger` stands for the
records of the journal: the number of admissions, the delivery-starts, the agent
records.  `file` is the state of the file (whole, ending in a torn record, or
corrupt because a record follows a torn one).  `tree` and `head` say whose version
of each file the working tree and HEAD hold; `saved` and `kept` say what is left
of a call's latest attempt outside them.  `pc` is the place of the call's fiber
and maps to the code so: `admitted` after `admitAgent()`, `running` in the runner,
`waiting` for the repository lock in `integrateWorktree()`, `applying` between the
delivery-start record and the return of `applyPatch()`, `committing` between
that and the agent record, `verifying` in `verifyCachedDelivery()`; `done` returned
a result, `failed` returned null, `fatal` threw.

Code that runs without yielding is one action.  The exception is `applying`: no
other fiber and no callback runs there (`Uninterrupted`), but the process may die
there, with the patch unapplied, partly or wholly applied.  `committing` is
interleaved freely with the other fibers, the abort and the user, which is more
than the code allows.

`Written` and `Unwritten` are the two outcomes of `append()`.  An append that fails
may have put nothing, a part, or all of the record in the file; it poisons the
journal.  `Resumable` is what `RunJournal.resume()` demands; `Resume` starts the
next generation from the records; `RefuseResume` is the refusal, which has
repaired the file all the same.  A resume needs `~ up`: fibers of a run whose
drain gave up find the journal closed and the run aborted, and can do no more than
save and keep what they have.

`OnceDelivery` is the abstract specification: the work of a call is announced, takes
effect, is acknowledged; a call that loses its turn half way never gets another.
`Delivery!Once` is the mapping (`Stage`), `ImplementsOnce` the property.

`JournalIsTrue` joins what may be said of the records at any moment: a published
result is durable, runs were admitted, the lifetime limit holds, and the file can be
read.  `TreeIsRespected` is about steps: after the abort nothing is delivered, and a
delivery keeps what others delivered.

### PanelLedger

The panel records composed with `Admission`: `Slots == INSTANCE Admission` holds
the reservations, and `OpenPanel`, `AdmitAgent`, `ReleaseBranch`, `CompletePanel`
take its steps together with their own.  `OpenPanel` computes the replay plan from
the records (`Needs`, `SlotCredit`: `panelReplayPlan()` with `nestedPanelCredit()`)
and passes it to `Slots!OpenPanel`.

`ledger` is what `loadJournal()` makes of the file so far: a record that is
appended is read at once (`Load`), and `readable` says whether the reader's checks
(`Accepts`) held; `FileAccepted` are the checks at the end of the file.
`RunJournal`'s own memory differs only in its open panels, which are those that
this run opened (`Memory`); its checks before an append are `Consistent`.
`panels` is `activePanelTraces` with those two maps of the journal.

A call's place in the script is the list of branches it lies in (`Within`), outermost
first, as its path has them; the last of them makes it (`Home`).  A branch is a function
from the results that it has awaited to its next step; `running` has the results.  One call or panel of a branch runs at a time, as
`startOrchestration()` and the parser's refusal of calls that are not awaited
demand.  An agent's life is `AdmitAgent`, then `AgentSucceeds` or `AgentFails`;
`ReplayAgent` is the cached call.  `Resume` stands for the end of the process at any
moment and the next run.  A policy failure sets `fatal`: nothing is opened or
admitted after it, while results and branch records may still arrive.

`LedgerSound` joins that the journal can be read (`JournalReadable`), that the
host's checks never refuse the record of a branch or panel (`PanelsCommit`) and that the budget is what the records say
(`BudgetMatchesLedger`); `ReservationsSuffice` that a replay plan covers what its
branches start (`PlanCovers`) and that a panel opened without
credit has all that its branches ask for (`FreshPanelSuffices`).

### ScriptProtocol

`ScriptProtocol` is `executeWorkflowScript()` with the worker at its other end.
`outbox` and `inbox` are the two ports, `events` the host's event queue with its
single consumer (`Consume` takes one event; `HandleRpc`, `HandleFatal` and the others
are the cases of its switch), `reply` the promises that the host made, `pending` the
code's `pendingRpcCount`.  `Settle`, `Abort`, `DeadlineFires` and the watchdog put
their events behind those that are queued, but may overtake what is still in the
worker's port.  The script is free: it posts calls one by one or in a batch
(`PostCalls`), receives replies, breaks a rule of its own (`BreakPolicy`), returns,
hangs or dies.  The first policy failure is kept on both sides, `sticky` in the
worker and `fatal` at the host; the host then waits for the calls it has dispatched
(`Drained`), no longer than the deadline.

The script logs once, before its calls.  What the watchdog decides is left free once
the worker hangs: its ticks and heartbeats have no times here.  A host that is blocked
by synchronous Git for longer than `stallTimeoutMs` may take a busy worker for a hung
one, which is therefore neither modelled nor excluded.

`VerdictIsTrue` joins three invariants: a success is reported only when nothing runs
and no failure is known (`SuccessIsQuiet`), a policy failure never ends in success
(`PolicyFailureNeverSucceeds`), and the failure that is reported is the first
(`FirstFailureReported`).  `CallsAccounted` joins that a fatal error is reported, before
its deadline, only when no call runs (`FatalDrainsCalls`), that a worker waiting for its
calls is not taken for a stalled one (`WaitingIsNotStalling`), and that the host's counter is the
number of calls that run or whose settlements are queued (`PendingCountsCalls`).

### AgentScheduling and AgentSession

`AgentScheduling` composes `createJevBatch()` with the execution gate (`Gate ==
INSTANCE ExecutionGate`, its calls as waiters): a call initialises a session, submits
its capabilities or skips (`member`), the batch seals when all members have, asks the
selector once, and only with the answer does a member ask for a permit.  An abort
closes the gate and answers the members.  A runner without scheduling hooks skips
the batch and takes its permit first.  `models` is the model runtime that the
sessions of a runner share and that may fail for those who wait.  A call takes
the gate's steps (`Gate!RequestOpen`, `Gate!Resume`, ...) together with its own.
`NobodyWaitsInVain` joins that a call asks for a permit only after its batch has
answered (`AnswersBeforeAcquiring`), that who waits for the model runtime waits for an
initialisation under way (`WaitersHaveModels`), and that all permits are back when all
calls are over (`PermitsReturned`); `EffortsAsAsked` that an effort comes from the batch's own
selection.

`AgentSession` is one call in the runner, step by step: the SDK session and the
replacement that an older SDK needs, the abort listener, effort, permit, subscription,
prompt, and the finalizers in reverse order.  Every call into the SDK may fail;
observers run inside the call's own steps and may abort the run there.  The SDK's
`abort()` and `prompt()` settle when they like, in either order.  `SessionSound` joins that nothing of a session
runs when it is disposed of (`QuietBeforeDisposal`), that every session is disposed of,
that the usage of a cancelled call is complete, and that an abort reaches the prompt.

`AgentCalls` puts the two side by side and joins what holds of both:
`NothingBegunAfterAbort` says of scheduling and of sessions that after an abort nothing
new begins.

### CallIdentity

Call paths of the worker (`allocateCallPath()`, scopes, loop marks, phases, nested
workflows) and what `prepareAgent()` and the journal make of them.  Scripts are data,
as the parser has instrumented them: sequences of `phase`, `mark`, `parallel`,
`pipeline`, `helper`, `workflow` and `agent` instructions with jumps; the
instances in `MCReplay` were chosen because their calls ask the same thing.  A
scope or call has a second, independent name, its `Position` as the script's
author sees it, to which the properties hold the code's name.  A run is killed or
ends anywhere, and is resumed with other interleavings and other outcomes.  A script
does not run on while a pipeline that it started is under way: the parser refuses
calls that are not awaited.  `CallsAccepted` says that the host refuses no call for its
identity: no two calls of a run have one path, and no nested workflow is taken for a
changed one (`NeverRefused`).  `FindsItsOwn` joins that no call takes the record of another
(`ReplaysItsOwn`) and that none runs again that has its own (`SuccessNotRerun`).

### RunLifecycle

One `runWorkflow()`: `signal`, `children` and `script` are the caller's signal and
the two controllers; `stage` is the place of the run's own fiber and `fiber` those of
the calls, which run beside it and may ignore their abort.  `policy` is the first
policy error, recorded by whichever call or by the worker; `told` says whom the
script has heard it from.  `failure`, `outcome` and `attached` are the choice of the
error that the caller sees and the `cleanupError` that is attached to it.  A policy
error that the script does not get to see, together with an agent that ignores its
abort, does not end a run by itself, because the body goes on: `AbortSettles` is
about aborts and the errors the body was told of.  `AnswerIsTrue` is about the step that
settles the run, and all steps after it: the first policy error is the one reported, a
policy error is reported as nothing else, an abort was asked for, survivors are
reported, and nothing is recorded or started behind the answer.

`Execution` is one execution of a workflow: `ScriptProtocol` and `Run`, an instance of
`RunLifecycle`.

### ToolHost

Calls of the workflow tool with the leases: the acquisitions in their order, each of
which may fail (`holds` is the stack of finalizers), the run with its heartbeat,
observers and agents, the conclusion (`Publish`, `PublishFails`, `Fail` with
`failRun()`), and the releases (`Later` orders them).  A heartbeat or an observer that
throws aborts the run and takes precedence over what the run then reports.  `pc` is
the place in the chain of `acquire...` functions of `tool.ts`.  `runtime` is what the
host sees of `RunLifecycle`.  `LeasesGuardJournals` joins that one process writes a
journal and that what was acquired is released; `OneVerdict` that journal, snapshot and
caller agree on how a run ended; `VerdictStands` that this does not change.

### PatchApply and AtomicPatch

`applyPatch()` path by path: the private index is checked against the tree, the nodes
in the patch's way are snapshotted, then files are deleted, empty directories pruned,
files written, leftovers swept, and the result verified; a failure at any operation
starts the rollback (`remove`, `recreate`), in which operations may fail too.
Directories may turn into files and files into directories, by the patch or by the
user.  Modes and links are part of a file's contents.  `AtomicPatch` is the abstract
specification: applied as a whole, rejected with the tree as it was, or damaged
within the patch's reach and reported; `IsAtomic` is the refinement, and what
`Delivery` assumes of its atomic `applying`.  A step of the rollback that fails half
way is taken to have done nothing or all.

### WorktreeOwnership and WorktreeDiff

`WorktreeOwnership` follows the three directories of an isolated agent (working tree,
Git's registration, store of raw objects) by their identities, which a move keeps and
a replacement does not have.  The environment moves, deletes, renames, replaces and
repairs them between any two steps of `removeWorktree()`.  Creation is one step, for
nobody knows the random name before it ends.  A renamed registration looks as if it
were gone; `alone` excuses just that in `RegisteredIsComplete`.

`WorktreeDiff` follows the files of one worktree: the commit, what the hooks of the
repository make of it (`Baseline` with `extras`), what the agent does with files and
with Git (`head`, `index`, `ignored`), and `captureWorktreeDiff()`, which decides from
the raw files which paths are its work.  Where hooks changed files of the commit the
patch conflicts, which `Applies` leaves out.  A tracked path that is replaced by an
ignored file is delivered.  Gitlinks are left out.

`PatchIsWork` joins that the patch applies to the commit, loses nothing of the agent's
work (`NothingLost`), and holds nothing else (`NothingForeign`).  `RemovalSound` joins
that an undisturbed removal takes objects and root only of a worktree that Git does not
know any more (`RegisteredIsComplete`), and leaves nothing behind when nothing was
disturbed and nothing failed (`RemovalComplete`); `OnlyOwnDestroyed` is the other half.

`Worktrees` has both for one worktree, `Own` and `Diff`, with these properties.

### TranscriptStore

The transcripts of `run-details.ts`: `AppendLine` puts a line into the head or, when
that is full, the tail; `CompactTail` drops old lines; `Finalize` puts the two
together.  `used` is the budget that all transcripts share, `files` is the disk.  A
crash ends the session between operations or inside a write; `Begin` starts the next generation,
which keeps the transcripts of replayed calls (`Replay`) and the manifest's list of
the last one until it has tasks of its own.
`TranscriptsSound` joins that what a transcript holds and what it counts as omitted is
all that the agent did (`NothingUnaccounted`), and that the end of an event is never
before its beginning (`NewestWins`).  A crash inside `Finalize` leaves duplicates, which
are counted.

Any of the operations on files may fail (`Faults`), before it had an effect or behind it:

| Fault | What fails, and what is left |
| --- | --- |
| `count` | counting the files when a session begins: the budget begins too low |
| `reset` | a removal in `reset()`: old files stay, though the budget gets their bytes back |
| `append` | `appendArtifactFile()` before it writes: the line is omitted |
| `torn` | the same half way, or when the file is closed (`src/workflow/run-artifacts.ts:228-230`): a part of the line is in the file, or all of it (`Parts`), and the budget and `omittedBytes` are told that nothing is (`src/workflow/run-details.ts:1374-1376`) |
| `compact` | reading or rewriting the tail before the rename: the old tail stays |
| `compacted` | rewriting it behind the rename, when the directory is not synced (`src/workflow/run-artifacts.ts:274-275`): lines are gone that are counted as used, and not as omitted |
| `read` | `readText()` of head, tail or both in `finalize()`: they are taken to be empty, and removed |
| `write` | writing the final file before the rename: head and tail stay |
| `written` | the same behind the rename, or removing the head: the final file is beside head and tail, and the budget counts only these |
| `removeTail` | removing the tail, when the head is gone: the closing of the run finalizes again, finds no head, and replaces the complete transcript by a marker and the tail (`src/workflow/run-details.ts:1415`) |

Some cost exactness in the code, too, and the properties name them.  `BudgetIsDisk` holds in a
session in which there was none of `count`, `reset`, `torn`, `compacted`, `read`,
`written` and `removeTail`; `append`, `compact`, `write`, crashes, and whatever
failed in earlier sessions do not disturb it, as each session counts anew.
`NothingUnaccounted` excepts `reset`, `torn`, `compacted`, `read` and `removeTail`: after a
torn append the transcript holds bytes that it also says to be omitted, and after
`compacted` it misses some without saying so.  `NewestWins` excepts `reset` only, in any
session, since lines of an earlier attempt then stay in the file; without any one of these
exceptions TLC finds the property violated.  `Failed` and `FailedEver` are what failed in
this session, and at all.  `EndedIsKept` has no exception.

`readText()` also shows a file that is longer than a transcript may be as an empty one
(`Read`), to which a tail can grow when its compaction fails again and again: then the
tail is neither compacted any more nor put together, and is deleted with its bytes still
counted.  `Failed` has `"read"` as soon as that is possible.  It takes as many failures as
longest lines fit into the space of head and marker, a megabyte in the code.

Whatever is written next adheres to a line of which only a part was written (`Cut`), and
readers skip the two as one that they cannot parse.  The model keeps both apart and
`NewestWins` is about more lines than a reader gets; only `Kept`, which works on whole
lines, takes them as one.  Left out: `lstat()` failing for a file that `reset()` then
removes; temporary files that could not be removed, which no budget counts; a
manifest that could not be written, which stays as it was, so that a replayed call
that it misses has no entry to restore: no file changes by that either.  A crash among the
three removals of `reset()` is one before or behind them.

### UltracodeMode and RunRegistry

`UltracodeMode` is the controller of `mode.ts` with the extension's handlers and the
commands that change it.  The session is a tree of entries; a start (after reload,
fork or resume) may find the leaf anywhere, and the user may walk through the tree,
after which `session_tree` restores.  Each call into the host may throw, with what
follows of it in the code: `Keep`, `Unrestored`, the unchanged `shown`.  `current` is
a history variable: memory was read from this branch or saved on it without a throw.

`RunRegistry` is the bounded list of runs: `Register`,
`End`, `Close` for the runs of this process, `RestoreRuns` for manifests on disk.
"completed" stands for failed runs too.  It assumes of the leases only their number.
`HostSession` puts this list beside the calls of `ToolHost`: one module to reason about
what a session keeps of its workflows.
A manifest is written by one process here; two processes that have the same session
open are not modelled, and a finished run that is trimmed while it closes may be listed
as aborted later.

## The runs

Components that share no state are checked in one run, one of them at a time: an MC
module extends one or two of them, instantiates the others, and its variable `part`, chosen at
the start, says which one steps.  A property of such a run that its MC module defines
is the component's own.

| Run | Configuration | Checks |
| --- | --- | --- |
| `gate` | `MCExecutionGate`: 5 fibers, 2 permits | `PermitsBoundAgents`, `NobodyForgotten`, `ImplementsTurnstile`, `EveryWaiterAnswered` |
| `admission` | `MCAdmission`: 3 agents left of 4, 3 panels of at most 2 branches, fresh and replayed | `SlotsAccounted`, `PromisesKept` |
| `delivery` | `MCDelivery`: 2 calls that overlap in one of 2 files, limit 2 to 3, 3 generations, 1 step of the user | `NoLostWork`, `JournalIsTrue`, `ResumesOnAgreement`, `TreeIsRespected`, `ImplementsOnce`, `EveryDeliverySettles` |
| `replay` | `MCReplay`: `PanelLedger` with a nested panel on one path and a fallback on the other, limit 7; `CallIdentity` with two scripts; 3 generations | `LedgerSound`, `ReservationsSuffice`; `CallsAccepted`, `FindsItsOwn` |
| `execution` | `MCExecution`: `ScriptProtocol` with 2 agents, or a panel and its release; `RunLifecycle` with 3 calls | `VerdictIsTrue`, `CallsAccounted`, `FailureEndsExecution`; `AnswerIsTrue`, `AbortSettles` |
| `agents` | `MCAgents`: `AgentScheduling` with a pair and a single call on one permit; `AgentSession` with 2 usage events | `NobodyWaitsInVain`, `EffortsAsAsked`, `EveryCallEnds`; `SessionSound`, `AbortedCallEnds`; of both `NothingBegunAfterAbort` |
| `host` | `MCHost` (`HostSession` and the mode): `ToolHost` with 2 calls on 2 runs, of which two or one may be active; `RunRegistry` with 4 runs for 3 places; `UltracodeMode` with 2 entries and 1 throw | `LeasesGuardJournals`, `OneVerdict`, `VerdictStands`; `RegistrySound`; `BranchRules` |
| `transcripts` | `MCTranscriptStore`: 2 calls of up to 3 lines, 2 sessions, 1 failure of 10 kinds | `BudgetIsDisk`, `TranscriptsSound`, `EndedIsKept` |
| `worktree` | `MCWorktree`: `PatchApply` on every tree and patch over 5 paths; `WorktreeDiff` with 3 paths, 2 steps of the hooks, 3 of the agent; `WorktreeOwnership` with 5 disturbances | `IsAtomic`, `EditsSurvive`; `PatchIsWork`; `RemovalSound`, `OnlyOwnDestroyed` |
| `delivery_report` | `MCDeliveryReport`: 1 generation | `UndeliveredIsAbsent`, which the code violates |
| `panels_cached` | `MCReplayCached`: a panel with a spare slot; limit 2, 3 generations | `CachedPanelOpens`, which the code violates |
| `identity_retry` | `MCReplayRetry`: a retry loop inside a loop; 2 generations | `SuccessNotRerun`, which the code violates |

### Why the bounds are enough

Gate: with five fibers on two permits two hold, three queue, and one or two of those
abandon the queue before a release, which is every case `pump()` distinguishes.
Admission: three panels of two branches allow a panel in a branch of a panel in a
branch, siblings, a replayed panel below a fresh one and the reverse, and each of them
outliving its parent; three slots are fewer than the declarations ask for, so that
refusals happen.  The slots' names are symmetric: nothing tells them apart but their
paths, for which reason `replay` takes them for equal too (`ReplayView`).  Delivery: two calls that share one file and not the other meet in
conflict and pass each other; three generations let a call be admitted, crash, be
admitted again, crash and be refused; the raised limit lets a resume admit one more.
One user step is an edit, a restore or a commit at any moment; with it, a delivery is
undone, hidden or built upon.

Panels: one panel nested in another, mutually exclusive paths and two branches each
are what the plan distinguishes; with two resumes a panel is opened over the records
of a run that itself opened it over others; seven slots are fewer than the retries
can use, so panels and calls are refused too.  Identity: each script has calls with
equal prompts in one scope, in sibling scopes and in successive iterations; with two
resumes an outcome may change and change back.

Script and scheduling: two kinds of calls that end differently, or two of one kind,
are what the executor tells apart; each may settle, fail, or stay behind, and each
message be overtaken by each event.  Fewer permits than members is the case in which
a batch could wait for itself.  Lifecycle and tool host: one agent that breaks a rule,
one that ignores its abort and one that waits are the fibers that the drain
distinguishes; two calls contend for one run's lease, or, on two runs, for the last
free place among the active ones.

Worktrees: five paths hold a directory in a directory, with files beside and below it,
so that a patch can replace either by a file.  A second failing operation meets the
rollback of the first.  The two are explored apart from the user's edits while the
patch is applied: there one operation fails at most, the user edits once (a file in
place of the directory, one deep in it, or another one) and nothing was edited before.
Five disturbances suffice to move a directory away, put another in its place, and put
things back after the program has looked.  In `WorktreeDiff` a directory, its file and
another file meet every test of the capture.

Transcripts: heads and tails of a few bytes and lines of two sizes overflow each part
and the shared budget, and a tail that was not compacted grows to the very size that can
still be read.  One failure of any kind, anywhere in either session, suffices for each
exception of the properties to be needed; the proofs are for any number.  States are
compared by what later steps and the properties tell apart (`StoreView`).  Registry: one run more than handles, and less runs under way
than handles, as in the code (4 and 50); its clock ends after six steps.  Mode: two
entries hold an older choice and a later one, or two branches.

### Fairness

The gate's liveness assumes that a settled fiber is resumed and that an agent that runs
ends (runners are cancelled on abort and have their own limits).  Delivery's liveness
assumes that a call whose turn it is takes the lock and that the synchronous code under
the lock ends; nothing is assumed of agents or user.  `FailureEndsExecution` assumes
that messages are delivered, events consumed and that the timers fire; nothing of script
and agents.  `EveryCallEnds` assumes that fibers are scheduled, that a selector's answer
comes or times out (10 s), and, as its premise (`SessionsProgress`), that sessions are
created and end, for which the code has no timeout.  `AbortedCallEnds` assumes that the
SDK's `abort()` and `prompt()` settle once they are asked to stop.  `AbortSettles`
assumes that time passes, that the run's own fiber is scheduled, and that the body of a
script that was aborted or told of a policy error ends, which `FailureEndsExecution`
shows.

### What the code and its documents disagree on

`delivery_report`: after `applyPatch()` has returned true, `commitAgent()` looks at the
run's target again, and that can throw an ordinary error, for one because the patch
removed the directory the run was started in.  `integrateWorktree()` takes it for a
failed integration: the call fails with "worktree changes were not delivered"
(`src/workflow/runtime.ts:988`) while its changes are in the shared tree.

`panels_cached`: a panel that is opened again loses what the journal knew of it, so
that a run which dies just then makes the next resume ask for the full reservation of a
panel whose calls are all cached, and be refused.  The lifetime limit itself holds.
(Related, and the reason for `PlanCovers` being stated of scripts whose nested panels
reserve no more than they use: the plan credits a branch with the whole reservation of
a fully cached nested panel, spare slots included, which the first attempt had returned
and used for the rest of the branch, `src/workflow/journal.ts:532`.)

`identity_retry`: the marks of a loop count its entries and iterations in the order in
which they happened.  When an inner retry loop needs fewer turns in a resume than
before, what follows it gets another path, and a call that had succeeded is run again.
The scripts of `replay`, which have loops with fallbacks, panels, pipelines, shared
helpers and nested workflows, do not, and no call ever gets another's result.

## The proofs

Every safety property proved here has the same shape: an inductive invariant, a lemma
for each action or group of actions that may disturb it, and the property as a
consequence.  The theorems hold for every value of the constants that the module's
assumption admits.

### ExecutionGateProofs

For every finite set of waiters and every number of permits, `GateInvariant` is
inductive, and from it follow the type invariant, the safety invariants
(`ForgottenCorrect` is the joined one) and `NoGrantAfterClose`.  `GateInvariant` adds to
the properties what ties a waiter's four attributes together (`Consistent`) and what
the queue holds (`QueueConsistent`): no duplicates, none but queued or abandoned
waiters, empty when permits are left.  `PumpLemma` states once what `pump()` makes
of its arguments; requests and releases cite it.

`TurnstileCorrect` proves `Spec => ImplementsTurnstile`.  Its lemmas say what `pump()`
does to the line: those it leaves keep their order (`PumpOrder`); with no permit free it
takes nobody (`PumpFull`); with one free and somebody in line it takes exactly the first
who was not abandoned (`PumpOne`).  By the invariant there is never more than one free
while somebody waits, which is why a release admits the head and no other.

### DeliveryProofs

The corresponding theorems of `Delivery` for any finite set of calls, any files and any
bounds.  The inductive invariant `DeliveryInvariant` has a part per concern, each with
its own step lemma: `TypeOK` with `Counted` (every recorded admission took a slot);
`Durable` (only a journal that takes no more records may end torn); `RunsAreAdmitted`;
`Phase(c)` (where a call is determines what is recorded, applied and on disk of it);
`Traced` (what is in the tree was announced, and a torn file is owed to a delivery that
blocks every resume).  `Traced` needs `Stuck`, that such a delivery stays pending for
good, which is why `ResumesOnAgreement` and the refinement hold across generations.
`RefinementCorrect` proves `Spec => ImplementsOnce`: every step maps to a step of
`OnceDelivery` or to a stutter.  `JournalCorrect` and `TreeCorrect` are about the joined
properties that the run checks.

### AdmissionProofs

For any limit, any slots, panels and branches and any set of `parallel()` calls,
`AdmissionInvariant` is inductive (TLC has checked it on the configuration of
`admission` first).  It has conservation, `NoSlotStolen` and `FirstCallGuaranteed`
themselves, and what they need of each other: only reservations of panels opened so far
are on any path, and none that is live belongs to a panel the run no longer tracks
(`OnlyOpened`); what a branch holds returns to its panel next (`BranchesReturn`); the
calls of a panel's branches are covered by slots of that panel and by what its replay may
draw upstream (`CallsCovered`); and the branch that a panel was opened in has asked, so that
a nested panel that takes its slot breaks no promise (`ParentsAsked`).

The step that opens a panel is where the argument lies.  `OpenedPaths` says what the two
layers of reservations make of the paths; `PanelOpened` that the invariant survives it: a
slot drawn from a parent stays beneath that parent, since its path still goes through it;
and `PanelRefused` that releasing both layers again restores the account to what it was.
Releasing rests on `OnwardLemma`, for which the first live reservation of a path is a
least element of a set of naturals.  `SlotsCorrect` and `PromisesCorrect` are the two
properties of the run; `ReleaseOrder` is about the operators alone.

### ExecutionProofs: the script

`VerdictIsTrue` and `CallsAccounted` of `ScriptProtocol`, for every set of agents, panels
and scripts.  What can go wrong lies in the two channels: a message says something when
it is posted, and is believed when it is handled, behind events that have overtaken it.
`ScriptInvariant` therefore says of every message under way what has to be true of it
still (`MessagesTrue`: a result without error means that the script has finished, with
nothing pending and no failure known; an error of the thread means that it is dead; a
fatal message carries the worker's sticky error).  `FatalKnown` says that while the host
knows of no fatal error the worker's is in a channel, before the thread's last words, or
the crash would be reported in its place.  `CallsApart` and `CallsOfPlace` say where a
call is: posted, running, settled or answered, and in one of these places only.  This is
what makes `pendingRpcCount` exact: a settlement is counted twice, or a call not at all,
only if a call can be in two messages.  The lemmas on sequences (`RangeAppend`,
`ApartTail`, `FatalAppend`, `SettledTail` and others) say what posting a message and
taking the first one do to each of these; the step lemmas cite them.

### ExecutionProofs: the run

`AnswerIsTrue` for any finite set of calls, of which the run has three.
`LifecycleInvariant` says what links the stage of the run to the causes of its end:
before the body nothing has begun; a failure is there only in a recovery; the children
of a body that runs were stopped by the caller, a policy error or the executor
(`StopHasReason`); a recovery from an abort has one that was asked for, or a policy error
(`AbortHasReason`); and calls outlive the body only where the children were stopped
(`SurvivorsAreStopped`), without which a call could commit behind the answer.
`SettlesTruly` and `NothingFollows` are then the two halves of the property.

### ExecutionProofs: the identity of calls

`EveryCallAccepted` is `CallsAccepted` for every well-formed script, any number of resumes
and wherever each run dies.  A path is refused if it was seen before, by whichever branch,
possibly long ago, while the counters that make paths differ are spread over the scopes
that are alive and the host.  `IdentityInvariant` ties the two together.  `Paths` are
all paths of the run: those the host has seen, those of its scopes, and those of calls that
are on their way.

  - `TreeSound`: scopes and calls are a tree by their positions; a scope waits for exactly
    its children, and only while it is at the call that opened them, so that its key and
    its counters stand still meanwhile.
  - `ScopesCount`: whatever path begins with the path of a scope goes on with a segment
    that this scope has counted.  So its next call's path, which is counted one higher, is
    new, and so is everything behind it (`NewPathIsNew`).
  - `HostCounts`: the same of nested workflows, whose last segment counts requests in the
    host, since their sites count nothing (`NestedPathDiffers` keeps the two apart).
  - `StagesInOrder`: the stages of an item are not counted at all; its next stage's path is
    new because no path has passed through a later stage of this item (`InOrder`).
  - `PathsSound` and `CallsSound`: no two scopes have one path, and a posted call's is new
    to the host; `NestedSound`: a nested source is recorded under the request that its path
    tells.

Three notions of a step carry the induction: one that opens scopes or posts a call
(`Forks`, `Posts`; `ForkKeeps`), one that opens none (`Stays`; `StayKeeps`), and an item's
step to its next stage (`NextStage`); the actions are shown to be such steps.  A run that
begins, first or resumed, satisfies the invariant because paths and counters are empty
(`FreshRunSound`).  TLC has checked `IdentityInvariant` on the scripts of `replay` and
`identity_retry` before it was proved.

### AgentProofs

For any agents, batches and permits, `SchedulingInvariant` is the gate's invariant
(`GP!GateInvariant`, of an instance of `ExecutionGateProofs` whose waiters are the calls)
with what ties a call to gate and batch: who queues or holds a permit has answered its
batch, who waits for the models waits for an initialisation under way, who is over has
closed its scope (`CallsConsistent`), an answer names members that asked
(`AnswersInBatch`), and an effort was in an answer that has been given (`EffortsFixed`).
It yields `NobodyWaitsInVain` and `EffortsAsAsked`.  `CallsUseGate` proves that the calls
refine the gate: every step of theirs maps to a step of `ExecutionGate` or a stutter, so
that what is proved of the gate holds of the calls; `CallsBounded` is the bound on agents
running at once, which costs no further step.  (`QuietCorrect` is the half of
`NothingBegunAfterAbort` that is about the scheduling.)

`SessionInvariant` follows one call through its session by the place of its fiber:
whether a session is there (`SessionOfPlace`), whether the listener is on and has passed
an abort on (`ListenerOfPlace`), what prompt and subscription may be doing
(`PromptOfPlace`), and that a cancelled call whose prompt succeeded has waited for the
SDK's `abort()` and has counted everything (`UsageReported`).  `SessionSound` follows, and
with `QuietCorrect` and `StreamCorrect` also `NothingBegunAfterAbort`.

### AgentProofs: the ledger of panels

`LedgerCorrect` is `LedgerSound` for every script, every limit and number of runs, and
wherever each of them dies: no reader refuses what was appended, and the run never meets
a record of a settled branch or a completed panel that its own checks refuse.  That is
not inductive: what a branch's record must list was admitted long before, by other
branches' turns and in part by an earlier run.  `LedgerInvariant` says what connects the two.

  - `StackSound`: what runs is a tree.  A branch waits for one call or panel, that which its
    script has come to, and every branch around it is unsettled.  So a branch that
    settles has nothing under way, and no panel is left open inside one that completes.
  - `TracesSound`: a panel's trace lists every call that was admitted since it opened, once,
    with the status that the journal knows (`TraceIsTrue`); a call that is traced is not
    made again while the panel is open (`NotAgain`), for its branch is past it (`Called`).
    Without this a call admitted again would be listed twice, or as another status.
  - `SettledSound`: what a branch settled with are the calls traced in it, and they have
    stayed so, which is what the record of the completed panel is compared with.
  - `MemoryAgrees`: the run's memory of the panels that it has open is the reader's.
    `OpenSound`: the reader may have more panels open, those of runs that died; what was
    recorded of their branches still covers what was admitted in them, as no branch of
    theirs runs before the panel is opened again.  This is what `FileAccepted` asks at the
    end of the file, wherever that is.
  - `DurableSound` and `BudgetSound`: results are of admitted calls, calls under way are
    admitted and have none, and the account of slots satisfies `AdmissionInvariant`.

The last is not proved anew.  The account is an instance of `Admission` with its variables,
`SP` one of `AdmissionProofs`; both bring their own copies of the operators, which
`SameInvariant`, `SameOpenPanel`, `SameConsume` and `SameRelease` identify, so that the
lemmas of `AdmissionProofs` (any needs, any reservation, any credit) serve the steps of the
ledger.  The lemmas before are about paths (`PathFacts`: the branches around a call are
those around its panels), about counting (`Ranks`, `CallsInFacts`: `CallsIn` keeps a
branch's calls, each once), and about each record (`LoadAdmit` to `LoadComplete`).

### HostProofs

Of the calls: `LeasesGuardJournals`, `OneVerdict` and `VerdictStands` for any calls, runs, agents and
any cap on active runs.  `HostInvariant` has `HoldsOfPlace` (finalizers are stacked in
one order, and where a call is determines which it has), `LeasesFollow` (a lease is held by
one call, for the run that it names), `LeasesCounted` (as many leases as holders, which is
what the cap counts), `AgentsOfPlace` (an agent is shown running only while the run is,
and the run accepts events only until its verdict) and `VerdictOfPlace` (snapshot, record
and answer were set together).  `VerdictStands` needs `AgentsOfPlace`: late events are
refused because `accepting` and the status change together.

Of the list of runs: `RegistrySound`, for any runs and any capacity above the cap on active
runs.  It is not inductive alone: that trimming spares the runs under way
(`RunningStay`) needs their number, so `RegistryInvariant` adds `FewUnderWay`.  That each
handle is listed once is restated in terms of places (`OneEach`, `OnePlace`): a
list of as many places as runs that shows all of them has one place for each.
`FilteredList` says that this survives filtering, `RestoredList` that it survives the
manifests that are put behind the list.

### WorktreeProofs: the application of a patch

Two invariants of `applyPatch()`, for any paths, trees and patches.
`PatchInvariant` is about the user, who may edit between any two operations: an edit
outside the window in which `applyPatch()` looked at a path and has not written it yet is
in the tree, in the index (and then the patch does not apply: `ReadAsEdited`,
`Untouched`), or, once the rollback removes it, in the snapshot (`InPlace`,
`SavedForRollback`).  `EditsSurvive` follows.

`AtomicInvariant` is about a tree that nobody else edits, for as long as that is so.  It
says for each phase what index, snapshot and tree are with respect to the tree at the
start: what was accepted (`Accepted`, `AsRead`), what is saved (`AsSaved`), that nothing
is written before all is saved (`Unwritten`), that beside the patch's roots only
directories change (`Beside`), that deletes and writes leave a tree (`AsATree`,
`WrittenSoFar`), that the sweep removes the directories that were emptied (`Swept`), and
that a directory lost on the way is made again by putting back what was in it
(`Directories`, `Removed`).  `UndoneUnlessFaulty` says that the rollback restores the tree
unless one of its own operations fails, and `PatchIsAtomic` that `PatchApply` implements
`AtomicPatch`, by whose terms `Delivery` takes `applyPatch()` for one step.
The lemmas before them are the geometry of paths: prefixes are ordered, the roots cover
all touched paths, and a lost directory has a deepest or a highest one, which is found
by descent over the lengths of paths.

### WorktreeProofs: removal and diff

For the removal, `OwnershipInvariant` says how much of what `Inspect` saw still holds:
nothing is destroyed before (`NothingYet`); if nobody intervened, the entry found is the
registration's and the path is free or has its root when Git is asked to unregister it
(`Verified`), and the directories go after the registration (`Unregistered`); a worktree
that nobody touched loses all its parts (`Undisturbed`).  It yields `RemovalSound` and the
step property `OnlyOwnDestroyed`, for any number of disturbances and without any
constraint on where in the removal they come.

For the diff, `DiffInvariant` says that baseline and extras are exactly the files that the
agent started from and Git showed (`Began`), and that what is captured is their
difference from the final files (`Recorded`).  `PatchIsWork` follows, for any paths and
contents and any number of steps by hooks and agent.

### TranscriptProofs

For any finite set of calls, all sizes of lines, heads, tails and of the budget, any number
of sessions and of failures of the ten kinds in `Faults`.  `StoreInvariant` follows each
call's transcript from its first line to the file that is put together, and says of it only
what the failures so far allow: `OrderCertain`, `BytesCertain` and `FilesCertain` are the
exceptions of `NewestWins`, `NothingUnaccounted` and `BudgetIsDisk`.  While it is open (`OpenSound`)
the writer's counters are the bytes of its files (`Synced`), and these and the omitted
bytes are all that the agent did (`ToldOpen`); put together, the final file and the omitted
bytes are (`ToldClosed`).  Order is the delicate part, as lines go to the head or to the
tail by what fits: an event's end, which is no smaller than its beginning, is not put into
the head behind a beginning in the tail because a beginning is in the tail only where it
did not fit, and the head never shrinks (`Placed`, `AppendOrder`).  That a tail can be read
when it is compacted and put together rests on `AppendTail`: it is no longer than
`TailBytes` and a line for each compaction that failed (`Limit`).

Sums of bytes are cardinalities of sets of cells (`Total`), so that what the proofs need of
them (`TotalSplit`, `TotalChange`, `TotalMoved`) follows from the theorems on finite sets
without induction over sequences; `BytesConcat` and `BytesAppend` carry it over to files.
`BudgetCorrect` is the sum over all calls, of which a step changes one.

### What the proofs assume

The named assumptions of the modules, which TLC evaluates in the runs: those of
`RunLifecycle`, `RunRegistry`, `AgentSession`, `WorktreeOwnership` and `WorktreeDiff`, which
are used as instances, in the MC modules, as hypotheses of the theorems about them.  Five are more
than sizes and names.  `CodeAssumption` of `CallIdentity` says that scripts are well-formed:
a jump stays in its body, a call names a body, a panel has branches, and a pipeline items
and stages, as empty ones settle at once.  `ScriptAssumption` of `ScriptProtocol` says that a script
releases a panel exactly if it opens it, as `parallel()` does; those of `PanelLedger` that
a path lists the branches around a call, those around a panel being the same for all in
it (`PathAssumption`), and that a branch goes on until it ends and makes each call at a
path of its own, which `EveryCallAccepted` is about (`ScriptAssumption`).  `PatchAssumption`
says that what `applyPatch()` may be called on are trees (what is there has directories
above it), that a patch replaces files by files, and that what the user writes can be told
from what the patch was made from.

### What is only model-checked

The liveness properties: TLAPS has no support for ENABLED or fairness.
Three safety properties: `ReservationsSuffice`, since what a branch starts at most
(`Potential`) and what the replay plan credits are recursive over the script and over the
panels nested in it, and what they compute can only be shown by induction over that data;
`FindsItsOwn`, which is not true of every script (`identity_retry`), so that a theorem would
first have to say of which; and `BranchRules`, as the mode is that of a branch of a
tree of entries, which is found by recursion.

## Not modelled, and the plan

Left to prove: `FindsItsOwn` of the scripts of which it is true, and the invariants of the
mode.

Left to model: the times of the watchdog; the preferences file, which all processes of
a user share and each save rewrites as a whole; two processes with the same session.

Of the panel records the following is left out: the result, resume and
nested-source records, a failed append (it poisons the journal, as a crash would;
see `Delivery`), a raised limit, scripts that change, and `pipeline()`, which
reserves nothing.  A replayed panel that floats on after the branch it was opened in was
released is refused a contingent slot; no document promises it one, and `Admission`
has the refusal without a property about it.

A few steps that no property sees are left out: in `RunLifecycle` the drain's own
`cleanupDeadline ??=`, as whoever drains has set the deadline before or limits the wait
by the same time; in `ToolHost` a throw while the result of a published run is put into
words; in `RunRegistry` a manifest that a setup that failed left "running".

Not modelled at all: the static checks of the script parser, value limits and JSON
schemas, display, overlay and commands, prompts, model and role resolution, the
timeline of run details.  They are sequential and keep no state that a run's outcome
rests on.  File contents are reduced to whose version a file holds; prompts and cache
keys to what distinguishes the calls of an instance; modes and links to contents.
