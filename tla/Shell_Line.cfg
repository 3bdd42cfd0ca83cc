SPECIFICATION SelfSpec
CONSTANTS
  Lines <- MCSelfLines
  Bodies <- MCSelfBodies
  Tokens <- LineTokens
  NestingBudget = 2
  Targets <- MCTargets
  Root <- MCRoot
  Home <- MCHome
  Links <- MCLinks
INVARIANTS
  NothingLost
  FlowMatched
  StatementsApart
  WritesSeen
  NothingElseFlagged
CHECK_DEADLOCK FALSE
