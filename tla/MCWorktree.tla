------------------------------ MODULE MCWorktree ------------------------------
(***************************************************************************)
(* Model-checking instances of what src/workflow/worktree.ts does with     *)
(* files: the application of a patch, while nobody else edits and while    *)
(* the user does (PatchApply), the capture of an agent's work              *)
(* (WorktreeDiff), and the removal of a worktree (WorktreeOwnership).      *)
(* They share no state: a behaviour steps one of them, chosen at the       *)
(* start, and the others stay in one initial state.                        *)
(***************************************************************************)
EXTENDS PatchApply, Worktrees

VARIABLE part

----------------------------------------------------------------------------
(***************************************************************************)
(* All working trees over a few paths, and all patches that git could have *)
(* made between two commits.                                               *)
(***************************************************************************)
d == <<"d">>
df == <<"d", "f">>
ds == <<"d", "s">>
dsh == <<"d", "s", "h">>
e == <<"e">>

Deep == {d, df, ds, dsh, e}

\* What the user edits: a file in place of the directory, one deep in it, another.
Edited == {d, dsh, e}

\* Every node has a directory above it.
IsTree(t) == \A x \in Path : t[x] # "absent" => \A a \in Parents(x) : t[a] = "dir"

\* No file of a commit is under another.
IsCommit(tree) == \A x \in Path : tree[x] # "absent" => \A y \in Below(x) : tree[y] = "absent"

AllTrees == {t \in [Path -> {"absent", "dir", "old", "edit"}] : IsTree(t)}

AllPatches ==
  LET Before == {f \in [Path -> {"absent", "old"}] : IsCommit(f)}
      After == {f \in [Path -> {"absent", "old", "new"}] : IsCommit(f)}
  IN  {p \in [old : Before, new : After] :
         /\ p.old # p.new
         /\ \A x \in Path : p.new[x] = "old" => p.old[x] = "old"}

----------------------------------------------------------------------------
\* The worktree has a directory that may be a file, and another file.
Files == {d, df, e}

ASSUME Diff!DiffAssumption /\ Own!OwnershipAssumption

----------------------------------------------------------------------------
PatchAtRest == fs = [x \in Path |-> "absent"] /\ patch = CHOOSE p \in Patches : TRUE
DiffAtRest == base = [x \in DiffPath |-> 0] /\ ignored = {}

WorktreeInit ==
  /\ \/ part = "patch" /\ Init
     \/ part = "shared" /\ Init /\ safe = {}
     \/ part \in {"diff", "ownership"} /\ PatchAtRest /\ Init
  /\ Diff!Init
  /\ part # "diff" => DiffAtRest
  /\ Own!Init

\* The faults of the system and the edits of the user are explored apart: two of the
\* former and files that were edited before, or one of each.
WorktreeNext ==
  \/ /\ part = "patch" /\ Next /\ edits' = 0
     /\ UNCHANGED <<part, diffVars, ownershipVars>>
  \/ /\ part = "shared" /\ Next /\ faults' <= 1
     /\ UNCHANGED <<part, diffVars, ownershipVars>>
  \/ part = "diff" /\ Diff!Next /\ UNCHANGED <<part, vars, ownershipVars>>
  \/ part = "ownership" /\ Own!Next /\ UNCHANGED <<part, vars, diffVars>>

WorktreeSpec ==
  WorktreeInit /\ [][WorktreeNext]_<<part, vars, diffVars, ownershipVars>>

=============================================================================
