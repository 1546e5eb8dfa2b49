------------------------------ MODULE Worktrees ------------------------------
(***************************************************************************)
(* The worktree of an isolated agent, from both sides: the files in it,    *)
(* of which captureWorktreeDiff() makes a patch (WorktreeDiff), and the    *)
(* directories that it consists of, which removeWorktree() takes away      *)
(* (WorktreeOwnership).  The removal looks at no file, and the capture at  *)
(* no directory's identity, so that they share no state.                   *)
(***************************************************************************)
CONSTANTS
  DiffPath, Content, hookBound, workBound,  \* of WorktreeDiff
  disturbanceBound                          \* of WorktreeOwnership

VARIABLES
  \* the variables of WorktreeDiff:
  base, files, head, staged, unmerged, ignored, diffStage, baseline, extras, work, steps, start,
  \* the variables of WorktreeOwnership:
  at, pointer, registered, stage, seen, registration, disturbances, failed, alone, destroyed

diffVars == <<base, files, head, staged, unmerged, ignored, diffStage, baseline, extras, work,
              steps, start>>
ownershipVars == <<at, pointer, registered, stage, seen, registration, disturbances, failed,
                   alone, destroyed>>

Diff == INSTANCE WorktreeDiff WITH
  Path <- DiffPath, fs <- files, index <- staged, pc <- diffStage, patch <- work

Own == INSTANCE WorktreeOwnership WITH pc <- stage

----------------------------------------------------------------------------
\* The captured patch is the agent's work.
PatchIsWork == Diff!PatchIsWork

\* A removal destroys nothing that is not its own, and is complete when it can be.
RemovalSound == Own!RemovalSound
OnlyOwnDestroyed == Own!OnlyOwnDestroyed
=============================================================================
