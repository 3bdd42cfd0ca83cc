SPECIFICATION FairBridgeSpec
CONSTANTS
  Agents <- PiOnly
  Calls <- AllowDeny
  AuditCfgs <- NoAudit
  HostCfgs <- PlainHost
PROPERTY
  HungChildDies
CHECK_DEADLOCK FALSE
