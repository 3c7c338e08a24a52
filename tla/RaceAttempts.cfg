SPECIFICATION Spec
CONSTANTS
  Pollers = {}
  Webhooks = {a1, a2}
  MaxVersion = 2
  CountCap = 3
  MaxCrashes = 0
  MaxDbFaults = 0
  MaxConnectFaults = 0
  MaxOperatorStops = 0
  MaxAlerts = 3
  QueueLevels = {4}
  Failures = {"TASK_FAILED"}
  KeepBase = FALSE
  RootVersioned = FALSE
  FailureConfirmChecks = 1
  TaskRestartMax = 1
INVARIANTS
  AttemptsBounded
CHECK_DEADLOCK FALSE
