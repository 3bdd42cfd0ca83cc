SPECIFICATION Spec
CONSTANTS
  NRules = 4
  HardDeny <- MCHardDeny
  Overridable <- MCOverridable
  Packs <- MCPacks
  PackKeys <- MCPackKeys
  Configs <- MCConfigs
  Requests <- MCRequests
  MaxTime = 1
  MaxCalls = 1
INVARIANTS
  HardDenyAlwaysBlocks
  LockedRuleFloor
  StricterOverrideNeverWeakens
  AllowlistIdExplainsAllow
PROPERTIES
  MonitorModeLeavesTrail
  ImplementsPolicyDecision
CHECK_DEADLOCK FALSE
