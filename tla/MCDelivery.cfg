\* Two worktree agents that edit the same file, two resumes with one more slot
\* between them, and one step of the user at any moment.
CONSTANTS
  a = a
  b = b
  f = f
  g = g
  Nobody = Nobody
  Call = {a, b}
  File = {f, g}
  Touches <- Overlap
  maxAgents = 2
  capBound = 3
  generationBound = 3
  userBound = 1
SPECIFICATION FairSpec
INVARIANTS
  NoLostWork
  JournalIsTrue
PROPERTIES
  ResumesOnAgreement
  TreeIsRespected
  ImplementsOnce
  EveryDeliverySettles
