SPECIFICATION AnalyticsSpec
CONSTANTS
  NoPlan = NoPlan
  Mentioned <- MCMentioned
  Priors <- MCPriors
  Proposals <- MCProposals
  Tables <- MCTables
  Now <- MCNow
  Weekday <- MCWeekday
  NameOrder <- MCNames
  ServiceOrder <- MCServiceNames
  ResultBound = 2
INVARIANT
  PlanCompiles
CHECK_DEADLOCK FALSE
