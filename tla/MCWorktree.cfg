\* Five paths, every tree and patch over them.  A worktree with three paths, two steps of
\* the hooks and three of the agent; five disturbances of its directories, at any time
\* before and during the removal.
CONSTANTS
  Path <- Deep
  Trees <- AllTrees
  Patches <- AllPatches
  UserPath <- Edited
  userBound = 1
  faultBound = 2
  DiffPath <- Files
  Content = {1, 2}
  hookBound = 2
  workBound = 3
  disturbanceBound = 5
SPECIFICATION WorktreeSpec
INVARIANTS
  PatchIsWork
  RemovalSound
  EditsSurvive
PROPERTIES
  IsAtomic
  OnlyOwnDestroyed
