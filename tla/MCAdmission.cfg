\* A resumed run with three agents left: panels nested in panels, siblings,
\* replays, and panels that float on after the one they were opened in.
CONSTANTS
  maxAgents = 4
  usedAgents = 1
  Slot = {s1, s2, s3}
  panelBound = 3
  branchBound = 2
  Shape <- FreshAndReplayed
SYMMETRY Symmetry
SPECIFICATION Spec
INVARIANTS
  SlotsAccounted
  PromisesKept
