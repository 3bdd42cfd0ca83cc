SPECIFICATION Spec
CONSTANTS
  enabled = enabled
  decision = decision
  path = path
  a = a
  b = b
  out = out
  p1 = p1
  p2 = p2
  e1 = e1
  Keys <- MCKeys
  AuditPath = path
  Values = {a, b, out}
  Outside = {out}
  Unset = Unset
  Absent = Absent
  Bad = Bad
  NoPolicy = NoPolicy
  Default <- MCDefault
  Entries = {e1}
  Paths = {p1, p2}
  RuleIds = {"x", "y", "core.x"}
  Builtin = {"core.x"}
  Reserved = {"core.x"}
  Starts <- MCStarts
  Layers <- MCLayers
  PluginFiles <- MCPluginFiles
  MaxEdits = 1
INVARIANTS
  UniqueRuleIds
  DiskPolicyInForce
PROPERTIES
  ImplementsEffectivePolicy
CHECK_DEADLOCK FALSE
