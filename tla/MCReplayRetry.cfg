\* A retry loop inside a loop.
CONSTANTS
  maxAgents = 2
  Slot = {1, 2}
  generationBound = 2
  Generations = 2
  Script <- SpareScript
  Within <- SpareWithin
  ReserveAgents <- SpareReserve
  Parts = {"identity"}
  Code <- AllCode
  Workflows = {"retries"}
VIEW ReplayView
SPECIFICATION ReplaySpec
INVARIANT
  SuccessNotRerun
