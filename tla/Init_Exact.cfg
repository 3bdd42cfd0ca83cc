SPECIFICATION Spec
CONSTANTS
  Scenarios <- OnlyCline
  Options <- Verified
INVARIANT
  RestoredExactly
CHECK_DEADLOCK FALSE
