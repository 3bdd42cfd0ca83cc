SPECIFICATION HookSpec
CONSTANTS
  Agents <- MCAgents
  Calls <- MCCalls
  AuditCfgs <- MCAuditCfgs
INVARIANTS
  DenyBlocks
  AskNeverRunsUnasked
  PermittedRuns
  RecordedOrAnnounced
CHECK_DEADLOCK FALSE
