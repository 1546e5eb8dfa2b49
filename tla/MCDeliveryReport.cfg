\* What a failed call reports, against what it left in the tree: one run.
CONSTANTS
  a = a
  b = b
  f = f
  g = g
  Nobody = Nobody
  Call = {a, b}
  File = {f, g}
  Touches <- Overlap
  maxAgents = 2
  capBound = 2
  generationBound = 1
  userBound = 0
SPECIFICATION Spec
INVARIANT UndeliveredIsAbsent
