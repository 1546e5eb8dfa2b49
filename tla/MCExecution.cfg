\* A script with a fan-out of two agents or a panel; a run with three calls, of which
\* one may break a rule while one is queued and one ignores its abort.
CONSTANTS
  Agent = {a1, a2}
  Panel = {p1}
  Cleanup = {r1}
  panelOf <- TheirPanel
  Scripts <- FanOutOrPanel
  Call = {c1, c2, c3}
SPECIFICATION ExecutionSpec
INVARIANTS
  VerdictIsTrue
  CallsAccounted
PROPERTIES
  FailureEndsExecution
  AnswerIsTrue
  AbortSettles
