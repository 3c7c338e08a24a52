SPECIFICATION Spec
CONSTANTS
  Pollers = {p1}
  Webhooks = {a1}
  MaxVersion = 2
  CountCap = 3
  MaxCrashes = 0
  MaxDbFaults = 0
  MaxConnectFaults = 1
  MaxOperatorStops = 0
  MaxAlerts = 1
  QueueLevels = {4}
  Failures = {"TASK_FAILED"}
  KeepBase = FALSE
  RootVersioned = FALSE
  FailureConfirmChecks = 1
  TaskRestartMax = 1
INVARIANTS
  ActsOnConfirmed
  RunsFromKnownOffsets
CHECK_DEADLOCK FALSE
