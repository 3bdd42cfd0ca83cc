SPECIFICATION Spec
CONSTANTS
  Scenarios <- MCScenarios
  Options <- AllOptions
INVARIANTS
  TreeRestored
  InstalledMeansGuarded
  HostContentKept
  RerunIdempotent
PROPERTIES
  GuardKept
CHECK_DEADLOCK FALSE
