SPECIFICATION Spec
CONSTANTS
  u1 = u1
  u2 = u2
  Procs = {u1, u2}
  Versions = {0, 1, 2}
  Pre = {2}
  BadTag = BadTag
  Latest = Latest
  Options <- MCOptions
  a = a
  b = b
  Names = {a, b}
  Foreign <- MCForeign
  Nobody = Nobody
  NoFile = NoFile
  Partial = Partial
  None = None
SYMMETRY Symmetry
INVARIANTS
  ExecutedAsVerified
  ExitHonest
  NoSilentDowngrade
CHECK_DEADLOCK FALSE
