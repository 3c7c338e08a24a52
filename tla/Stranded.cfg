SPECIFICATION FairSpec
CONSTANTS
  Pollers = {p1}
  Webhooks = {}
  MaxVersion = 2
  CountCap = 3
  MaxCrashes = 0
  MaxDbFaults = 1
  MaxConnectFaults = 1
  MaxOperatorStops = 0
  MaxAlerts = 0
  QueueLevels = {2, 4}
  Failures = {"TASK_FAILED", "FAILED"}
  KeepBase = FALSE
  RootVersioned = FALSE
  FailureConfirmChecks = 1
  TaskRestartMax = 1
PROPERTIES
  EventuallyClosed
CHECK_DEADLOCK FALSE
