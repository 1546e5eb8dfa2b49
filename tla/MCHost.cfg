\* Two calls and two runs, of which both or one may be active; the second call may
\* resume the run of the first.  Four runs for three places in the list.
CONSTANTS
  Call = {c1, c2}
  Run = {r1, r2}
  Agent = {g1}
  NoRun = NoRun
  MaxActive = 2
  ListedRun = {a, b, c, d}
  capacity = 3
  timeBound = 6
SPECIFICATION HostSpec
INVARIANTS
  LeasesGuardJournals
  OneVerdict
  RegistrySound
PROPERTIES
  VerdictStands
  BranchRules
SYMMETRY Symmetry
