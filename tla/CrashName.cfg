SPECIFICATION Spec
CONSTANTS
  Pollers = {p1}
  Webhooks = {}
  MaxVersion = 2
  CountCap = 3
  MaxCrashes = 1
  MaxDbFaults = 0
  MaxConnectFaults = 0
  MaxOperatorStops = 0
  MaxAlerts = 0
  QueueLevels = {2, 4}
  Failures = {"TASK_FAILED", "FAILED"}
  KeepBase = FALSE
  RootVersioned = FALSE
  FailureConfirmChecks = 1
  TaskRestartMax = 1
INVARIANTS
  NamePreserved
CHECK_DEADLOCK FALSE
