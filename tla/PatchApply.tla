----------------------------- MODULE PatchApply -----------------------------
(***************************************************************************)
(* applyPatch() of src/workflow/worktree.ts: the patch of an agent is      *)
(* tried in a private index, the files it touches are snapshotted, and the *)
(* result is written into the shared working tree, path by path; after any *)
(* failure the snapshot is restored.                                       *)
(*                                                                         *)
(* The program holds the repository's lock, but the user's editor knows    *)
(* nothing of it: every step of the program may be followed by an edit.    *)
(* Modes, symbolic links and hard links are part of a file's contents.     *)
(***************************************************************************)
EXTENDS Naturals, SequencesExt

CONSTANTS
  Path,        \* the paths of the repository, closed under parents
  Trees,       \* the working trees to start from
  Patches,     \* the patches to apply: contents of files before and after
  UserPath,    \* the files that the user may edit
  userBound,   \* bound: the edits
  faultBound   \* bound: the operations of the system that fail

ASSUME PatchAssumption ==
  /\ Path \subseteq Seq(STRING)
  /\ UserPath \subseteq Path /\ userBound \in Nat /\ faultBound \in Nat
  \* What is not absent has directories above it; a patch is of files; and what the
  \* user writes can be told from what the patch was made from.
  /\ \A t \in Trees :
       /\ t = [x \in Path |-> t[x]]
       /\ \A x, y \in Path : IsStrictPrefix(x, y) /\ t[y] # "absent" => t[x] = "dir"
       /\ \A x \in Path : t[x] # "unsaved"
  /\ \A p \in Patches : \A x \in Path : p.old[x] \notin {"dir", "edit"} /\ p.new[x] # "dir"

VARIABLES
  fs,        \* the working tree
  patch,     \* the patch
  pc,        \* the phase of applyPatch()
  todo,      \* the paths that the phase has yet to visit
  index,     \* the private index: the contents of a path, or "absent"
  snapshot,  \* the nodes that were saved; "unsaved" for all others
  result,    \* "applied" (true), "rejected" (false), "uncertain" (throws)
  faults,    \* operations that failed
  edits,     \* edits of the user
  before,    \* history: the tree when applyPatch() was called
  safe       \* history: the paths whose latest edit must not be lost

program == <<pc, todo, index, snapshot, result>>
history == <<before, safe, edits>>
vars == <<fs, patch, program, faults, history>>

\* What the caller sees; an edit of the user's ends the comparison.
Atomic == INSTANCE AtomicPatch WITH
  tree <- IF pc = "done" /\ edits = 0 THEN fs ELSE before,
  result <- IF edits = 0 THEN result ELSE "none"

Written == {"delete", "write", "verify", "sync"}
Phase == {"index", "snapshot", "remove", "recreate", "done"} \cup Written

TypeOK ==
  /\ DOMAIN fs = Path /\ DOMAIN before = Path
  /\ patch \in Patches
  /\ pc \in Phase /\ todo \subseteq Path
  /\ DOMAIN index = Path /\ DOMAIN snapshot = Path
  /\ result \in {"none", "applied", "rejected", "uncertain"}
  /\ (pc = "done") <=> (result # "none")
  /\ faults \in 0..faultBound /\ edits \in 0..userBound
  /\ safe \subseteq Path

Parents(x) == {a \in Path : IsStrictPrefix(a, x)}
Below(x) == {y \in Path : IsStrictPrefix(x, y)}
IsFile(node) == node \notin {"absent", "dir"}

Touched == {x \in Path : patch.old[x] # patch.new[x]}

\* minimalPaths(): touched paths that are not under another one.
Roots == {x \in Touched : Parents(x) \cap Touched = {}}
UnderRoots == {x \in Path : \E r \in Roots : IsPrefix(r, x)}

Init ==
  /\ fs \in Trees
  /\ patch \in Patches
  /\ pc = "index"
  /\ todo = Touched
  /\ index = [x \in Path |-> "absent"]
  /\ snapshot = [x \in Path |-> "unsaved"]
  /\ result = "none"
  /\ faults = 0 /\ edits = 0
  /\ before = fs
  /\ safe = {x \in Path : fs[x] = "edit"}

----------------------------------------------------------------------------
(***************************************************************************)
(* Operations of the file system.                                          *)
(***************************************************************************)
\* lstat() of a path with a file for a parent fails with ENOTDIR.
Blocked(x) == \E a \in Parents(x) : IsFile(fs[a])
Empty(x) == \A y \in Below(x) : fs[y] = "absent"

Put(x, node) == fs' = [fs EXCEPT ![x] = node]

\* Remove the directories of S that are empty, or become so by the removal of
\* others: the deepest come first.
WithoutEmpty(tree, S) ==
  [x \in Path |->
     IF x \in S /\ tree[x] = "dir"
          /\ \A y \in Below(x) : tree[y] = "absent" \/ (y \in S /\ tree[y] = "dir")
     THEN "absent" ELSE tree[x]]

\* mkdir -p of the parents, and the file
WriteFile(x, content) ==
  fs' = [y \in Path |-> CASE y = x -> content
                          [] y \in Parents(x) -> "dir"
                          [] OTHER -> fs[y]]

----------------------------------------------------------------------------
(***************************************************************************)
(* The private index.                                                      *)
(***************************************************************************)
Enter(phase, paths) == pc' = phase /\ todo' = paths

Finish(r) == pc' = "done" /\ todo' = {} /\ result' = r

\* populatePatchIndex(): the entry of a path is the file there, or the file that
\* stands where a directory above it should be.
ReadIndex(x) ==
  /\ pc = "index" /\ x \in todo
  /\ todo' = todo \ {x}
  /\ index' = [y \in Path |-> IF y \in Parents(x) \cup {x} /\ IsFile(fs[y])
                              THEN fs[y] ELSE index[y]]
  /\ UNCHANGED <<fs, patch, pc, snapshot, result, faults, history>>

\* The index after `git apply --cached', and whether it is one.
Result == [x \in Path |-> IF x \in Touched THEN patch.new[x] ELSE index[x]]

Applies ==
  /\ \A x \in Touched : index[x] = patch.old[x]
  /\ \A x \in Path : IsFile(Result[x]) => \A y \in Below(x) : ~ IsFile(Result[y])
  /\ \A x \in Path \ Touched : ~ IsFile(Result[x])

Check ==
  /\ pc = "index" /\ todo = {}
  /\ IF Applies
     THEN Enter("snapshot", Roots) /\ UNCHANGED result
     ELSE Finish("rejected")
  /\ UNCHANGED <<fs, patch, index, snapshot, faults, history>>

\* Mutant: only what the patch touches is saved.
SnapshotTouched(r) ==
  /\ pc = "snapshot" /\ r \in todo
  /\ \A a \in Parents(r) : ~ IsFile(fs[a])
  /\ snapshot' = [x \in Path |-> IF x \in Touched \/ x \in Parents(r)
                                 THEN fs[x] ELSE snapshot[x]]
  /\ IF todo = {r} THEN Enter("delete", {x \in Touched : ~ IsFile(patch.new[x])})
                   ELSE todo' = todo \ {r} /\ UNCHANGED pc
  /\ UNCHANGED <<fs, patch, index, result, faults, history>>

\* snapshotApplyPaths(), for one root: all that is under it, and the directories
\* above it.  After the last one the patch is applied to the private index.
Snapshot(r) ==
  /\ pc = "snapshot" /\ r \in todo
  /\ \A a \in Parents(r) : ~ IsFile(fs[a])
  /\ snapshot' = [x \in Path |-> IF IsPrefix(r, x) \/ (x \in Parents(r) /\ snapshot[x] = "unsaved")
                                 THEN fs[x] ELSE snapshot[x]]
  /\ IF todo = {r} THEN Enter("delete", {x \in Touched : ~ IsFile(patch.new[x])})
                   ELSE todo' = todo \ {r} /\ UNCHANGED pc
  /\ UNCHANGED <<fs, patch, index, result, faults, history>>

----------------------------------------------------------------------------
(***************************************************************************)
(* materializePatchIndex()                                                 *)
(***************************************************************************)
Deepest(x) == \A y \in todo : Len(y) <= Len(x)
Shallowest(x) == \A y \in todo : Len(x) <= Len(y)
MaterialUnchanged == UNCHANGED <<patch, index, snapshot, result, faults, history>>

\* A path that is gone: unlink() the file, rmdir() the directory if it is empty.
Delete(x) ==
  /\ pc = "delete" /\ x \in todo /\ Deepest(x)
  /\ ~ Blocked(x)
  /\ todo' = todo \ {x}
  /\ IF fs[x] = "dir" /\ ~ Empty(x) THEN UNCHANGED fs ELSE Put(x, "absent")
  /\ UNCHANGED pc /\ MaterialUnchanged

\* Directories of touched paths that a file is to replace, and those under them
Replaced ==
  {d \in Path : \E x \in Touched : \E y \in Touched :
     IsFile(patch.new[x]) /\ IsStrictPrefix(x, y) /\ d \in Parents(y) /\ IsPrefix(x, d)}

\* pruneDirectoriesReplacedByLeaves()
Prune ==
  /\ pc = "delete" /\ todo = {}
  /\ fs' = WithoutEmpty(fs, Replaced)
  /\ Enter("write", {x \in Touched : IsFile(patch.new[x])})
  /\ MaterialUnchanged

\* A path that has contents: what is there is removed, a directory only when it is
\* empty; then the file is created.
Write(x) ==
  /\ pc = "write" /\ x \in todo /\ Shallowest(x)
  /\ ~ Blocked(x)
  /\ fs[x] = "dir" => Empty(x)
  /\ todo' = todo \ {x}
  /\ WriteFile(x, patch.new[x])
  /\ UNCHANGED pc /\ MaterialUnchanged

\* Mutant: every empty directory of the repository is swept away.
SweepAll ==
  /\ pc = "write" /\ todo = {}
  /\ fs' = WithoutEmpty(fs, Path)
  /\ Enter("verify", {})
  /\ MaterialUnchanged

\* pruneEmptyPatchParents()
Sweep ==
  /\ pc = "write" /\ todo = {}
  /\ fs' = WithoutEmpty(fs, UNION {Parents(x) : x \in Touched})
  /\ Enter("verify", {})
  /\ MaterialUnchanged

\* assertPatchPostModes() and assertPatchPostContents()
PostCondition ==
  \A x \in Touched : IF IsFile(patch.new[x]) THEN fs[x] = patch.new[x] ELSE ~ IsFile(fs[x])

Verify ==
  /\ pc = "verify" /\ PostCondition
  /\ Enter("sync", {})
  /\ UNCHANGED fs /\ MaterialUnchanged

\* fsyncAppliedPaths(), and the return
Sync ==
  /\ pc = "sync"
  /\ Finish("applied")
  /\ UNCHANGED <<fs, patch, index, snapshot, faults, history>>

----------------------------------------------------------------------------
(***************************************************************************)
(* Failure: nothing was written yet, or the snapshot is restored.          *)
(***************************************************************************)
\* An operation throws because of what it finds in the working tree.
Obstructed ==
  \/ pc = "snapshot" /\ \E r \in todo : \E a \in Parents(r) : IsFile(fs[a])
  \/ pc = "delete" /\ \E x \in todo : Deepest(x) /\ Blocked(x)
  \/ pc = "write" /\ \E x \in todo :
       Shallowest(x) /\ (Blocked(x) \/ (fs[x] = "dir" /\ ~ Empty(x)))
  \/ pc = "verify" /\ ~ PostCondition

Throw ==
  /\ IF pc \in Written THEN Enter("remove", Roots) /\ UNCHANGED result
                       ELSE Finish("rejected")
  /\ UNCHANGED <<patch, index, snapshot, history>>

Obstruct == Obstructed /\ Throw /\ UNCHANGED <<fs, faults>>

\* Any operation may fail by itself: no space, no permission, a timeout of git.
\* Between the unlink() and the write of a file it leaves the path empty.
Fault ==
  /\ pc \in Written \cup {"index", "snapshot"} /\ faults < faultBound
  /\ faults' = faults + 1
  /\ \/ UNCHANGED fs
     \/ /\ pc = "write"
        /\ \E x \in todo : Shallowest(x) /\ ~ Blocked(x) /\ Empty(x) /\ Put(x, "absent")
  /\ Throw

\* restoreApplySnapshot(): the roots are removed
RemoveRoot(r) ==
  /\ pc = "remove" /\ r \in todo
  /\ ~ Blocked(r)
  /\ todo' = todo \ {r}
  /\ fs' = [x \in Path |-> IF IsPrefix(r, x) THEN "absent" ELSE fs[x]]
  /\ pc' = IF todo = {r} THEN "recreate" ELSE pc
  /\ UNCHANGED <<patch, index, snapshot, result, faults, history>>

Saved(x) == x \in UnderRoots /\ snapshot[x] \notin {"absent", "unsaved"}

\* Directories above the roots, which were there or were not
Above == UNION {Parents(r) : r \in Roots}

\* ... what was saved is put back, with the directories above it; then those that
\* the patch had made above a root are removed again.
Restored ==
  WithoutEmpty([x \in Path |-> CASE Saved(x) -> snapshot[x]
                                 [] ~ Saved(x) /\ \E y \in Below(x) : Saved(y) -> "dir"
                                 [] OTHER -> fs[x]],
               {x \in Above : snapshot[x] = "absent"})

\* A file is in the way; or a directory that was there has disappeared, and its
\* mode cannot be restored.
RestoreFails ==
  \/ \E x \in Path : Saved(x) /\ (Blocked(x) \/ (snapshot[x] = "dir" /\ IsFile(fs[x])))
  \/ \E x \in Above : snapshot[x] = "dir" /\ Restored[x] = "absent"

Recreate ==
  /\ pc = "recreate" /\ ~ RestoreFails
  /\ fs' = Restored
  /\ Finish("rejected")
  /\ UNCHANGED <<patch, index, snapshot, faults, history>>

\* The rollback fails, by itself or because of what it finds: applyPatch() throws.
\* How far it had come is abstracted to nothing or all of the step.
RollbackFails ==
  /\ pc \in {"remove", "recreate"}
  /\ \/ pc = "recreate" /\ RestoreFails /\ UNCHANGED <<fs, faults>>
     \/ pc = "remove" /\ (\E r \in todo : Blocked(r)) /\ UNCHANGED <<fs, faults>>
     \/ /\ faults < faultBound /\ faults' = faults + 1
        /\ fs' \in {fs} \cup {t \in {Restored} : pc = "recreate" /\ ~ RestoreFails}
  /\ Finish("uncertain")
  /\ UNCHANGED <<patch, index, snapshot, history>>

----------------------------------------------------------------------------
(***************************************************************************)
(* The user.                                                               *)
(***************************************************************************)
\* The window in which applyPatch() may overwrite a file: a touched path from the
\* moment that it was read, what else is under a root from its snapshot.
Exposed ==
  CASE pc = "index" -> Touched \ todo
    [] pc = "snapshot" -> Touched \cup {x \in UnderRoots : \A r \in todo : ~ IsPrefix(r, x)}
    [] OTHER -> UnderRoots

\* The user saves a file, where there is a directory for it.
Edit(x) ==
  /\ edits < userBound /\ pc # "done"
  /\ fs[x] # "dir" /\ \A a \in Parents(x) : fs[a] = "dir"
  /\ Put(x, "edit")
  /\ edits' = edits + 1
  /\ safe' = IF x \in Exposed THEN safe \ {x} ELSE safe \cup {x}
  /\ UNCHANGED <<patch, program, faults, before>>

Done == pc = "done" /\ UNCHANGED vars

Next ==
  \/ \E x \in Path : ReadIndex(x) \/ Snapshot(x) \/ Delete(x) \/ Write(x) \/ RemoveRoot(x)
  \/ Check \/ Prune \/ Sweep \/ Verify \/ Sync \/ Obstruct \/ Fault
  \/ Recreate \/ RollbackFails
  \/ \E x \in UserPath : Edit(x)
  \/ Done

Spec == Init /\ [][Next]_vars

----------------------------------------------------------------------------
(***************************************************************************)
(* Properties                                                              *)
(***************************************************************************)
\* Whatever was written when applyPatch() failed can be undone: as long as nobody
\* else writes into the tree, only another failure of the system, in the rollback
\* itself, makes it throw.
AlwaysUndone ==
  [][edits = 0 /\ result = "none" /\ result' = "uncertain" => faults' > faults]_vars

\* While nobody else writes into the tree, applyPatch() is atomic: it does what
\* the patch says, or nothing, or it throws; and it seldom throws.
IsAtomic == Atomic!Spec /\ AlwaysUndone

\* An edit of the user survives whatever happens, unless it was made to a file
\* that the patch touches, or that is in the way of one, and within the window:
\* after applyPatch() had read the file and before it returned.
EditsSurvive ==
  pc = "done" =>
    \A x \in safe : fs[x] = "edit" \/ (result = "uncertain" /\ x \in UnderRoots)
=============================================================================
