------------------------------ MODULE Delivery ------------------------------
(***************************************************************************)
(* How the work of worktree agents reaches the shared working tree, and    *)
(* what the run's journal remembers of it: admission, the agent's private  *)
(* worktree, the saved patch, the delivery-start record, the application   *)
(* of the patch under the repository lock, the agent record, and the       *)
(* resumption of the run from its journal after it ended or crashed        *)
(* (src/workflow/runtime.ts, journal.ts, and applyPatch of worktree.ts).   *)
(*                                                                         *)
(* A step of the program that runs without yielding is one action, except  *)
(* between the delivery-start record and the application of the patch: a   *)
(* crash may separate them, though nothing else may (Uninterrupted).       *)
(***************************************************************************)
EXTENDS Naturals, FiniteSets

CONSTANTS
  Call,             \* the worktree agent() calls of the script, by call path
  Nobody,           \* no call: the repository lock is free
  File,             \* the files of the repository
  Touches,          \* the files that the work of a call changes
  maxAgents,        \* the lifetime agent limit of the first run
  capBound,         \* bound: the limit that resumes may raise it to
  generationBound,  \* bound: the first run and its resumes
  userBound         \* bound: what the user does to the repository meanwhile

ASSUME DeliveryAssumption ==
  /\ IsFiniteSet(Call) /\ Nobody \notin Call
  /\ Call \cap {"base", "torn", "edited"} = {}
  /\ Touches \in [Call -> (SUBSET File) \ {{}}]
  /\ maxAgents \in Nat \ {0} /\ capBound \in Nat /\ maxAgents <= capBound
  /\ generationBound \in Nat \ {0} /\ userBound \in Nat

VARIABLES
  ledger,      \* durable: the records: admissions, delivery-starts, agent results
  file,        \* durable: the journal file is "whole", ends "partial", or is "corrupt"
  cap,         \* durable: the lifetime limit in force
  tree,        \* durable: whose version of a file the working tree holds
  head,        \* durable: and the HEAD commit
  saved,       \* durable: the patch of the call's latest attempt is in patches/
  kept,        \* durable: the worktree of that attempt is on disk
  up,          \* a process runs the workflow
  journal,     \* its journal: "open", "poisoned" by a failed write, "closed"
  consumed,    \* AgentAdmission's count of the agents admitted
  aborted,     \* childController was aborted: by the user, by a policy error
  pc,          \* of a call: where its fiber is
  lock,        \* the holder of the repository apply lock
  base,        \* of a call's worktree: the files it started from
  work,        \* the agent has changed files in its worktree
  generation,  \* the number of this run
  userSteps,   \* what the user has done so far
  applies,     \* history: how often the patch of a call was applied
  runs         \* history: how many agents were run, over all runs

journalVars == <<ledger, file, journal>>
treeVars == <<tree, head, userSteps, applies>>
attemptVars == <<saved, kept, base, work, runs>>
runVars == <<up, cap, consumed, generation>>
vars == <<journalVars, treeVars, attemptVars, runVars, aborted, pc, lock>>

Content == Call \cup {"base", "torn", "edited"}
Active == {"admitted", "running", "waiting", "applying", "committing", "verifying"}
Over == {"done", "failed", "fatal"}

Ledger ==
  [admits: Nat, started: SUBSET Call, agent: [Call -> {"none", "plain", "delivered"}]]

TypeOK ==
  /\ ledger \in Ledger
  /\ file \in {"whole", "partial", "corrupt"}
  /\ cap \in maxAgents..capBound
  /\ tree \in [File -> Content] /\ head \in [File -> Content]
  /\ saved \in [Call -> BOOLEAN] /\ kept \in [Call -> BOOLEAN]
  /\ up \in BOOLEAN /\ aborted \in BOOLEAN
  /\ journal \in {"open", "poisoned", "closed"}
  /\ consumed \in 0..cap
  /\ pc \in [Call -> {"idle"} \cup Active \cup Over]
  /\ lock \in Call \cup {Nobody}
  /\ base \in [Call -> [File -> Content]]
  /\ work \in [Call -> BOOLEAN]
  /\ generation \in 1..generationBound
  /\ userSteps \in 0..userBound
  /\ applies \in [Call -> Nat] /\ runs \in Nat

Untouched == [f \in File |-> "base"]

Init ==
  /\ ledger = [admits |-> 0, started |-> {}, agent |-> [c \in Call |-> "none"]]
  /\ file = "whole"
  /\ cap = maxAgents
  /\ tree = Untouched /\ head = Untouched
  /\ saved = [c \in Call |-> FALSE] /\ kept = [c \in Call |-> FALSE]
  /\ up = TRUE /\ journal = "open" /\ consumed = 0 /\ aborted = FALSE
  /\ pc = [c \in Call |-> "idle"]
  /\ lock = Nobody
  /\ base = [c \in Call |-> Untouched]
  /\ work = [c \in Call |-> FALSE]
  /\ generation = 1 /\ userSteps = 0
  /\ applies = [c \in Call |-> 0] /\ runs = 0

----------------------------------------------------------------------------
(***************************************************************************)
(* The journal.                                                            *)
(***************************************************************************)
\* Mutant: loadJournal() does not rebuild the pending deliveries.
PendingForgotten(c) == FALSE

\* A delivery that was started and has no agent record.
Pending(c) == c \in ledger.started /\ ledger.agent[c] = "none"

\* loadJournal() counts the admissions of all runs, finished or not.
Admitted == ledger.admits

\* append() succeeds: the record is written and synced.
Written(new) ==
  /\ journal = "open"
  /\ ledger' = new
  /\ file' = IF file = "partial" THEN "corrupt" ELSE file
  /\ UNCHANGED journal

\* append() throws: the journal is poisoned, closed or full and nothing is
\* written; or the write or its fsync fails, and whatever reached the file
\* (nothing, a part of the record, all of it) no record will follow it.
Unwritten(new) ==
  \/ UNCHANGED journalVars
  \/ /\ journal = "open"
     /\ journal' = "poisoned"
     /\ \/ UNCHANGED <<ledger, file>>
        \/ file' = "partial" /\ UNCHANGED ledger
        \/ ledger' = new /\ UNCHANGED file

----------------------------------------------------------------------------
\* A synchronous block is under way: no callback or other fiber runs inside it.
Uninterrupted == \A c \in Call : pc[c] # "applying"

Goto(c, place) == pc' = [pc EXCEPT ![c] = place]

\* A WorkflowPolicyError: the run's children are aborted and the error is thrown.
PolicyFailure(c) == Goto(c, "fatal") /\ aborted' = TRUE

\* Any other error: the call returns null, unless the run has been aborted.
CallFailure(c) ==
  /\ Goto(c, IF aborted THEN "fatal" ELSE "failed")
  /\ UNCHANGED aborted

\* The scope's finalizer removes the worktree, at best effort.
MayRemove(c) == kept' \in {kept, [kept EXCEPT ![c] = FALSE]}

\* Mutant: what could not be captured or saved is removed all the same.
RecoverCarelessly(c, keep) ==
  /\ saved' \in {saved, [saved EXCEPT ![c] = work[c]]}
  /\ IF keep THEN UNCHANGED kept ELSE MayRemove(c)

\* recoverFailedWorktree(): the work of a failed agent is captured and saved as a
\* patch, which may fail.  The worktree goes only once the patch is saved or
\* there was no work, and never on an abort or a policy error (keep).
Recover(c, keep) ==
  /\ saved' \in {saved, [saved EXCEPT ![c] = work[c]]}
  /\ IF keep \/ (work[c] /\ ~ saved'[c]) THEN UNCHANGED kept ELSE MayRemove(c)

\* A failure of the call after its worktree was made and before it was delivered.
FailAndRecover(c) ==
  \/ CallFailure(c) /\ Recover(c, aborted)
  \/ PolicyFailure(c) /\ Recover(c, TRUE)

----------------------------------------------------------------------------
(***************************************************************************)
(* The life of a call: runAgent().                                         *)
(***************************************************************************)
CanStart(c) == up /\ Uninterrupted /\ pc[c] = "idle" /\ journal # "closed"

\* prepareAgent() finds nothing recorded for this call; admitAgent() takes a slot
\* and commits the admission.
Admit(c) ==
  /\ CanStart(c)
  /\ ~ aborted
  /\ ledger.agent[c] = "none" /\ ~ Pending(c)
  /\ consumed < cap
  /\ consumed' = consumed + 1
  /\ LET new == [ledger EXCEPT !.admits = @ + 1]
     IN  \/ Written(new) /\ Goto(c, "admitted") /\ UNCHANGED aborted
         \/ Unwritten(new) /\ PolicyFailure(c)
  /\ UNCHANGED <<treeVars, attemptVars, up, cap, generation, lock>>

\* The call is refused: the run is aborted, no slot is left, or lookup() finds
\* that an earlier delivery of it was never settled.
Refuse(c) ==
  /\ CanStart(c)
  /\ \/ aborted /\ CallFailure(c)
     \/ /\ ~ aborted
        /\ Pending(c) \/ (ledger.agent[c] = "none" /\ consumed >= cap)
        /\ PolicyFailure(c)
  /\ UNCHANGED <<journalVars, treeVars, attemptVars, runVars, lock>>

\* lookup() finds the agent record: replayAgent() returns it without running
\* anything, after verifyCachedDelivery() if it was delivered.
Replay(c) ==
  /\ CanStart(c)
  /\ ~ aborted
  /\ ledger.agent[c] # "none"
  /\ Goto(c, IF ledger.agent[c] = "plain" THEN "done" ELSE "verifying")
  /\ UNCHANGED <<journalVars, treeVars, attemptVars, runVars, aborted, lock>>

\* verifyAppliedPatch(): the files that a patch changed hold what it made of them.
Present(c) == \A f \in Touches[c] : tree[f] = c

\* The cached delivery is verified under the repository lock.
VerifyReplay(c) ==
  /\ up /\ Uninterrupted
  /\ pc[c] = "verifying" /\ lock = Nobody
  /\ IF Present(c) THEN Goto(c, "done") /\ UNCHANGED aborted ELSE PolicyFailure(c)
  /\ UNCHANGED <<journalVars, treeVars, attemptVars, runVars, lock>>

\* The agent gets its permit and a worktree at HEAD, and starts to run.
StartAgent(c) ==
  /\ up /\ Uninterrupted
  /\ pc[c] = "admitted"
  /\ Goto(c, "running")
  /\ saved' = [saved EXCEPT ![c] = FALSE]
  /\ kept' = [kept EXCEPT ![c] = TRUE]
  /\ base' = [base EXCEPT ![c] = head]
  /\ work' = [work EXCEPT ![c] = FALSE]
  /\ runs' = runs + 1
  /\ UNCHANGED <<journalVars, treeVars, runVars, aborted, lock>>

\* It gets neither: aborted while it waited, or the worktree cannot be made.
FailToStart(c) ==
  /\ up /\ Uninterrupted
  /\ pc[c] = "admitted"
  /\ CallFailure(c) \/ PolicyFailure(c)
  /\ UNCHANGED <<journalVars, treeVars, attemptVars, runVars, lock>>

AgentEdits(c) ==
  /\ up /\ Uninterrupted
  /\ pc[c] = "running" /\ ~ work[c]
  /\ work' = [work EXCEPT ![c] = TRUE]
  /\ UNCHANGED <<journalVars, treeVars, saved, kept, base, runs, runVars, aborted, pc, lock>>

\* The runner rejects, its result is refused, or its work cannot be captured.
AgentFails(c) ==
  /\ up /\ Uninterrupted
  /\ pc[c] = "running"
  /\ FailAndRecover(c)
  /\ UNCHANGED <<journalVars, treeVars, base, work, runs, runVars, lock>>

\* The agent succeeds without changing a file: its result is committed.
FinishUnchanged(c) ==
  /\ up /\ Uninterrupted
  /\ pc[c] = "running" /\ ~ work[c] /\ ~ aborted
  /\ LET new == [ledger EXCEPT !.agent[c] = "plain"]
     IN  \/ Written(new) /\ Goto(c, "done") /\ MayRemove(c) /\ UNCHANGED <<aborted, saved>>
         \/ Unwritten(new) /\ PolicyFailure(c) /\ Recover(c, TRUE)
  /\ UNCHANGED <<treeVars, base, work, runs, runVars, lock>>

\* The agent succeeds with changes: planDelivery() saves the patch and the call
\* queues for the repository lock.
PlanDelivery(c) ==
  /\ up /\ Uninterrupted
  /\ pc[c] = "running" /\ work[c] /\ ~ aborted
  /\ saved' = [saved EXCEPT ![c] = TRUE]
  /\ Goto(c, "waiting")
  /\ UNCHANGED <<journalVars, treeVars, kept, base, work, runs, runVars, aborted, lock>>

HasLock(c) == up /\ Uninterrupted /\ pc[c] = "waiting" /\ lock = Nobody

\* Mutant: the patch is applied without a record that it is about to be.
StartDeliveryUnrecorded(c) ==
  /\ HasLock(c)
  /\ ~ aborted
  /\ lock' = c
  /\ Goto(c, "applying")
  /\ UNCHANGED <<journalVars, treeVars, attemptVars, runVars, aborted>>

\* applyDelivery() with the lock: the start of the delivery is recorded.
StartDelivery(c) ==
  /\ HasLock(c)
  /\ ~ aborted
  /\ ~ Pending(c) /\ ledger.agent[c] = "none"
  /\ Written([ledger EXCEPT !.started = @ \cup {c}])
  /\ lock' = c
  /\ Goto(c, "applying")
  /\ UNCHANGED <<treeVars, attemptVars, runVars, aborted>>

\* It is not: the run is aborted, the target has changed or cannot be resolved,
\* or the record cannot be written.  The worktree is preserved.
CancelDelivery(c) ==
  /\ HasLock(c)
  /\ \/ CallFailure(c) /\ UNCHANGED journalVars
     \/ /\ ~ aborted
        /\ Unwritten([ledger EXCEPT !.started = @ \cup {c}])
        /\ PolicyFailure(c)
  /\ UNCHANGED <<treeVars, attemptVars, runVars, lock>>

\* Mutant: the result need not be what the agent saw in its worktree.
ApplyMerged(c) ==
  /\ pc[c] = "applying"
  /\ tree' = [f \in File |-> IF f \notin Touches[c] THEN tree[f]
                             ELSE IF tree[f] = base[c][f] THEN c ELSE "edited"]
  /\ applies' = [applies EXCEPT ![c] = @ + 1]
  /\ Goto(c, "committing")
  /\ UNCHANGED <<journalVars, head, userSteps, attemptVars, runVars, aborted, lock>>

\* The patch is applied: every touched file is byte for byte what the agent left
\* in its worktree, which it can only be where the tree held the base.
PatchApplied(c) ==
  /\ \A f \in Touches[c] : tree[f] = base[c][f]
  /\ tree' = [f \in File |-> IF f \in Touches[c] THEN c ELSE tree[f]]
  /\ applies' = [applies EXCEPT ![c] = @ + 1]

\* applyPatch() returns true.
Apply(c) ==
  /\ pc[c] = "applying"
  /\ PatchApplied(c)
  /\ Goto(c, "committing")
  /\ UNCHANGED <<journalVars, head, userSteps, attemptVars, runVars, aborted, lock>>

\* Mutant: the lock stays taken when a patch does not apply.
RejectWithLock(c) ==
  /\ pc[c] = "applying"
  /\ CallFailure(c)
  /\ MayRemove(c)
  /\ UNCHANGED <<journalVars, treeVars, saved, base, work, runs, runVars, lock>>

\* applyPatch() returns false, the tree being as it was: the call fails and its
\* worktree is removed, for the patch is saved.
Reject(c) ==
  /\ pc[c] = "applying"
  /\ CallFailure(c)
  /\ MayRemove(c)
  /\ lock' = Nobody
  /\ UNCHANGED <<journalVars, treeVars, saved, base, work, runs, runVars>>

\* The versions of the tree that an unfinished application of c can leave.
Torn(c) == {[f \in File |-> IF f \in torn THEN "torn" ELSE tree[f]] : torn \in SUBSET Touches[c]}

\* applyPatch() throws: it cannot resolve the repository, or its rollback failed.
\* The worktree is preserved.
ApplyThrows(c) ==
  /\ pc[c] = "applying"
  /\ tree' \in Torn(c)
  /\ CallFailure(c)
  /\ lock' = Nobody
  /\ UNCHANGED <<journalVars, head, userSteps, applies, attemptVars, runVars>>

\* Mutant: the call succeeds although its record was not written.
CommitUnrecorded(c) ==
  /\ up /\ Uninterrupted
  /\ pc[c] = "committing"
  /\ LET new == [ledger EXCEPT !.agent[c] = "delivered"]
     IN  Written(new) \/ Unwritten(new)
  /\ Goto(c, "done") /\ MayRemove(c) /\ UNCHANGED <<aborted, saved>>
  /\ lock' = Nobody
  /\ UNCHANGED <<treeVars, base, work, runs, runVars>>

\* commitAgent(): the agent record makes the delivery final.  If it cannot be
\* written, or the target is another one now, the policy error is thrown.
Commit(c) ==
  /\ up /\ Uninterrupted
  /\ pc[c] = "committing"
  /\ LET new == [ledger EXCEPT !.agent[c] = "delivered"]
     IN  \/ Written(new) /\ Goto(c, "done") /\ MayRemove(c) /\ UNCHANGED <<aborted, saved>>
         \/ Unwritten(new) /\ PolicyFailure(c) /\ Recover(c, TRUE)
  /\ lock' = Nobody
  /\ UNCHANGED <<treeVars, base, work, runs, runVars>>

\* The target cannot even be resolved: integrateWorktree() takes this ordinary
\* error for a failed integration and preserves the worktree.
CommitCheckThrows(c) ==
  /\ up /\ Uninterrupted
  /\ pc[c] = "committing"
  /\ CallFailure(c)
  /\ lock' = Nobody
  /\ UNCHANGED <<journalVars, treeVars, attemptVars, runVars>>

----------------------------------------------------------------------------
(***************************************************************************)
(* The life of a run.                                                      *)
(***************************************************************************)
\* The user or the script's executor aborts the run's children.
Abort ==
  /\ up /\ Uninterrupted
  /\ ~ aborted
  /\ aborted' = TRUE
  /\ UNCHANGED <<journalVars, treeVars, attemptVars, runVars, pc, lock>>

\* The run has ended and closes its journal after the terminal record.  Calls may
\* still be in flight if it was aborted and the bounded drain gave up on them.
EndRun ==
  /\ up /\ Uninterrupted
  /\ journal # "closed"
  /\ aborted \/ \A c \in Call : pc[c] \notin Active
  /\ journal' = "closed"
  /\ file' \in {file} \cup (IF journal = "open" THEN {"partial"} ELSE {})
  /\ UNCHANGED <<ledger, treeVars, attemptVars, runVars, aborted, pc, lock>>

\* The process ends, at any point: also with a patch partly or wholly applied.
Crash ==
  /\ up
  /\ up' = FALSE
  /\ pc' = [c \in Call |-> "idle"]
  /\ lock' = Nobody
  /\ aborted' = FALSE
  /\ \/ Uninterrupted /\ UNCHANGED <<tree, applies>>
     \/ \E c \in Call :
          /\ pc[c] = "applying"
          /\ PatchApplied(c) \/ (tree' \in Torn(c) /\ UNCHANGED applies)
  /\ UNCHANGED <<journalVars, head, userSteps, attemptVars, cap, consumed, generation>>

\* What RunJournal.resume() demands of the repaired journal: every recorded
\* delivery is validated, a pending one refuses the run, the limit never falls.
Resumable(newCap) ==
  /\ file # "corrupt"
  /\ \A c \in Call : ~ Pending(c)
  /\ \A c \in Call : ledger.agent[c] = "delivered" => Present(c)
  /\ newCap >= cap

\* The resume record is written, and the run starts from what the journal says.
Resume(newCap) ==
  /\ ~ up
  /\ generation < generationBound
  /\ Resumable(newCap)
  /\ up' = TRUE
  /\ generation' = generation + 1
  /\ cap' = newCap
  /\ consumed' = Admitted
  /\ file' = "whole"
  /\ journal' = "open"
  /\ UNCHANGED <<ledger, treeVars, attemptVars, aborted, pc, lock>>

\* resume() throws after the repair: the run is refused, or its resume record is
\* not written, though a part or all of it may have reached the file.
RefuseResume(newCap) ==
  /\ ~ up
  /\ generation < generationBound
  /\ file # "corrupt"
  /\ \/ file' = "whole" /\ UNCHANGED cap
     \/ Resumable(newCap) /\ file' = "partial" /\ UNCHANGED cap
     \/ Resumable(newCap) /\ file' = "whole" /\ cap' = newCap
  /\ UNCHANGED <<ledger, journal, treeVars, attemptVars, up, consumed, generation,
                 aborted, pc, lock>>

----------------------------------------------------------------------------
(***************************************************************************)
(* The user, whose working tree it is.                                     *)
(***************************************************************************)
UserStep ==
  /\ Uninterrupted
  /\ userSteps < userBound
  /\ userSteps' = userSteps + 1
  /\ UNCHANGED <<journalVars, applies, attemptVars, runVars, aborted, pc, lock>>

Edit(f) ==
  /\ UserStep
  /\ tree' = [tree EXCEPT ![f] = "edited"]
  /\ UNCHANGED head

Restore(f) ==
  /\ UserStep
  /\ tree' = [tree EXCEPT ![f] = head[f]]
  /\ UNCHANGED head

CommitTree ==
  /\ UserStep
  /\ head' = tree
  /\ UNCHANGED tree

\* The process has ended, and the run is not resumed any more or cannot be.
Stopped == ~ up /\ UNCHANGED vars

CallNext(c) ==
  \/ Admit(c) \/ Refuse(c) \/ Replay(c) \/ VerifyReplay(c)
  \/ StartAgent(c) \/ FailToStart(c) \/ AgentEdits(c) \/ AgentFails(c)
  \/ FinishUnchanged(c) \/ PlanDelivery(c)
  \/ StartDelivery(c) \/ CancelDelivery(c)
  \/ Apply(c) \/ Reject(c) \/ ApplyThrows(c)
  \/ Commit(c) \/ CommitCheckThrows(c)

Next ==
  \/ \E c \in Call : CallNext(c)
  \/ Abort
  \/ EndRun
  \/ Crash
  \/ \E newCap \in maxAgents..capBound : Resume(newCap) \/ RefuseResume(newCap)
  \/ \E f \in File : Edit(f) \/ Restore(f)
  \/ CommitTree
  \/ Stopped

Spec == Init /\ [][Next]_vars

\* What a call does with the repository lock: it takes it, and it gives it back.
TakeTurn(c) == VerifyReplay(c) \/ StartDelivery(c) \/ CancelDelivery(c)
EndTurn(c) == Apply(c) \/ Reject(c) \/ ApplyThrows(c) \/ Commit(c) \/ CommitCheckThrows(c)

\* The lock is a FIFO gate, and everything under it is synchronous.  Nothing is
\* assumed of the agents, which may run for ever, nor of the user.
FairSpec == Spec /\ \A c \in Call : WF_vars(TakeTurn(c)) /\ WF_vars(EndTurn(c))

----------------------------------------------------------------------------
(***************************************************************************)
(* Properties                                                              *)
(***************************************************************************)
\* Whatever crashes, aborts, failed writes and resumes intervene, the work of a
\* call is applied to the shared tree at most once.
AppliedAtMostOnce == \A c \in Call : applies[c] <= 1

\* Work that an agent did is never lost: its patch is saved, or its worktree kept.
NoLostWork == \A c \in Call : work[c] => saved[c] \/ kept[c]

\* A result that was returned to the script is durable, and if the agent changed
\* files they were delivered.
PublishedIsDurable ==
  \A c \in Call : pc[c] = "done" =>
    /\ ledger.agent[c] # "none"
    /\ work[c] => ledger.agent[c] = "delivered"

\* However often the run crashes and resumes, its agents are run no more often,
\* over all its lifetime, than the limit in force says.
LifetimeLimit == runs <= cap

\* No agent runs, or is about to, whose admission is not in the journal.
RunsAreAdmitted ==
  runs + Cardinality({c \in Call : pc[c] = "admitted"}) <= ledger.admits

\* No record ever follows a torn one: the journal can always be loaded again.
JournalStaysReadable == file # "corrupt"

\* The journal is the truth, whatever becomes of the process and of its writes:
\* about results, about admissions and so about the limit; and it can be read.
JournalIsTrue ==
  PublishedIsDurable /\ RunsAreAdmitted /\ LifetimeLimit /\ JournalStaysReadable

\* A run resumes only where tree and journal agree: the calls with a recorded
\* delivery are those whose work is in the tree, and no file is torn.
ResumesOnAgreement ==
  [][~ up /\ up' => \A c \in Call :
       IF ledger.agent[c] = "delivered" THEN Present(c)
       ELSE applies[c] = 0 /\ \A f \in File : tree[f] \notin {c, "torn"}]_vars

\* After an abort no delivery starts and nothing more is applied to the tree.
NoDeliveryAfterAbort ==
  [][up /\ aborted => ledger'.started = ledger.started /\ applies' = applies]_vars

\* A delivery leaves those before it in place, except where the worktree already
\* started from their result, the user having committed it.
DeliveriesKeepEachOther ==
  [][\A c, d \in Call :
       applies'[c] > applies[c] /\ c # d =>
         \A f \in File : tree[f] = d => tree'[f] = d \/ base[c][f] = d]_vars

\* No delivery comes when it may not, or at another's expense.
TreeIsRespected == NoDeliveryAfterAbort /\ DeliveriesKeepEachOther

\* A call that queues for the repository lock, or holds it, gets past it whatever
\* the others' patches do: a delivery that fails leaves the lock free.
EveryDeliverySettles ==
  \A c \in Call :
    pc[c] \in {"waiting", "applying", "committing", "verifying"} ~>
      pc[c] \in {"idle"} \cup Over

\* How far the delivery of a call's work has come.
Stage(c) ==
  IF ledger.agent[c] = "delivered" THEN "acknowledged"
  ELSE IF applies[c] > 0 THEN "effective"
  ELSE IF c \in ledger.started THEN "announced" ELSE "new"

Once == INSTANCE OnceDelivery WITH stage <- [c \in Call |-> Stage(c)], turn <- lock

\* The delivery of each call's work is announced in the journal, takes effect
\* once, and is acknowledged after it did, across crashes and resumes.
ImplementsOnce == Once!Spec

\* "worktree changes were not delivered" (runtime.ts): what a call that failed
\* so has changed is not in the shared tree.
UndeliveredIsAbsent ==
  \A c \in Call : pc[c] = "failed" => ~ \E f \in File : tree[f] = c

----------------------------------------------------------------------------
(***************************************************************************)
(* What every reachable state satisfies, strong enough to be preserved by  *)
(* each action: the proofs start from it.                                  *)
(***************************************************************************)
\* Where a call is, and what is recorded, applied and on disk of it.
Phase(c) ==
  /\ pc[c] \in {"applying", "committing"} <=> lock = c
  /\ pc[c] \in Active \ {"verifying"} => ledger.agent[c] = "none"
  /\ pc[c] \in {"admitted", "running", "waiting"} => c \notin ledger.started
  /\ pc[c] = "running" => kept[c]
  /\ pc[c] \in {"waiting", "applying", "committing"} => work[c] /\ saved[c]
  /\ pc[c] = "applying" => c \in ledger.started /\ applies[c] = 0 /\ ~ aborted
  /\ pc[c] = "committing" => applies[c] = 1
  /\ pc[c] = "verifying" => ledger.agent[c] = "delivered"
  /\ pc[c] = "done" => ledger.agent[c] # "none"
  /\ ledger.agent[c] = "plain" => ~ work[c] /\ c \notin ledger.started
  /\ ledger.agent[c] = "delivered" => applies[c] = 1
  /\ applies[c] \in {0, 1}
  /\ applies[c] = 1 => c \in ledger.started
  /\ work[c] => saved[c] \/ kept[c]

\* Only a journal that takes no more records may end with a torn one.
Durable ==
  /\ file # "corrupt"
  /\ up /\ journal = "open" => file = "whole"

\* Every admission took a slot.
Counted == ledger.admits <= consumed

\* A delivery that was started and will not be finished: it blocks every resume.
Stuck(c) == Pending(c) /\ pc[c] \notin Active

\* What is in the tree was announced in the journal; what is torn blocks resumes.
Traced ==
  \A f \in File :
    /\ \A c \in Call : c \in {tree[f], head[f]} => c \in ledger.started
    /\ "torn" \in {tree[f], head[f]} => \E c \in Call : Stuck(c)

DeliveryInvariant ==
  /\ TypeOK
  /\ Counted
  /\ Durable
  /\ RunsAreAdmitted
  /\ Traced
  /\ \A c \in Call : Phase(c)
=============================================================================
