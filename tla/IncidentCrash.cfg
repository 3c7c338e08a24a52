SPECIFICATION Spec
CONSTANTS
  Pollers = {p1}
  Webhooks = {}
  MaxVersion = 4
  CountCap = 3
  MaxCrashes = 1
  MaxDbFaults = 1
  MaxConnectFaults = 2
  MaxOperatorStops = 0
  MaxAlerts = 0
  QueueLevels = {2, 4}
  Failures = {"TASK_FAILED", "FAILED"}
  KeepBase = TRUE
  RootVersioned = TRUE
  FailureConfirmChecks = 1
  TaskRestartMax = 1
INVARIANTS
  AttemptsBounded
  EscalationAudited
  RestartOnlyNotRecreated
PROPERTIES
  BaseKept
  ClosedStaysClosed
  CurrentNeverDeleted
CHECK_DEADLOCK FALSE
