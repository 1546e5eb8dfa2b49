\* Two calls of up to three lines, two sessions, one failure; a tail of which the compaction
\* failed grows to just what can still be read.
CONSTANTS
  a = a
  b = b
  Call <- Two
  LineBytes = 2
  HeadBytes = 1
  TailBytes = 2
  MarkerBytes = 3
  RunBytes = 7
  Faults = {"count", "reset", "append", "torn", "compact", "compacted",
            "read", "write", "written", "removeTail"}
  faultBound = 1
  lineBound = 3
  generationBound = 2
SPECIFICATION Spec
VIEW StoreView
SYMMETRY Symmetry
INVARIANTS
  BudgetIsDisk
  TranscriptsSound
PROPERTY EndedIsKept
