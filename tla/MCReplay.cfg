\* A panel nested in a branch of another, with a fallback on the path not taken.
\* For call identity: a panel with phases and a shared helper, then a pipeline; and
\* a loop with a fallback and a nested workflow that depends on it.
\* A first run and two resumes, each of which may die anywhere.
CONSTANTS
  maxAgents = 7
  Slot = {1, 2, 3, 4, 5, 6, 7}
  generationBound = 3
  Generations = 3
  Script <- NestedScript
  Within <- NestedWithin
  ReserveAgents <- NestedReserve
  Parts = {"panels", "identity"}
  Code <- AllCode
  Workflows = {"branches", "loops"}
VIEW ReplayView
SPECIFICATION ReplaySpec
INVARIANTS
  LedgerSound
  ReservationsSuffice
  CallsAccepted
  FindsItsOwn
