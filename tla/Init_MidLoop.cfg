SPECIFICATION Spec
CONSTANTS
  Scenarios <- OnlyCodex
  Options <- Verified
INVARIANT
  FailedInstallRestored
CHECK_DEADLOCK FALSE
