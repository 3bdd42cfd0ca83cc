SPECIFICATION FairBridgeSpec
CONSTANTS
  Agents <- Bridged
  Calls <- MCCalls
  AuditCfgs <- NoAudit
  HostCfgs <- MCHostCfgs
INVARIANTS
  ToolRunsOnlyIfPermitted
  LateAnswerDropped
  BlockExplained
  NoOrphan
PROPERTIES
  CallSettles
  HungOpenCodeChildDies
CHECK_DEADLOCK FALSE
