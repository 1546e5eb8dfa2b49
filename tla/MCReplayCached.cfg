\* The script of the test on over-reservation: a spare slot that a later call uses.
CONSTANTS
  maxAgents = 2
  Slot = {1, 2}
  generationBound = 3
  Generations = 3
  Script <- SpareScript
  Within <- SpareWithin
  ReserveAgents <- SpareReserve
  Parts = {"panels"}
  Code <- AllCode
  Workflows = {"branches"}
VIEW ReplayView
SPECIFICATION ReplaySpec
INVARIANT
  CachedPanelOpens
