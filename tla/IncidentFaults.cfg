SPECIFICATION Spec
CONSTANTS
  Pollers = {p1}
  Webhooks = {}
  MaxVersion = 2
  CountCap = 4
  MaxCrashes = 0
  MaxDbFaults = 2
  MaxConnectFaults = 2
  MaxOperatorStops = 1
  MaxAlerts = 0
  QueueLevels = {2, 4}
  Failures = {"TASK_FAILED", "FAILED"}
  KeepBase = FALSE
  RootVersioned = FALSE
  FailureConfirmChecks = 2
  TaskRestartMax = 1
INVARIANTS
  TypeOK
  Debounced
  OneLiveConnector
  RunsFromKnownOffsets
  RecoveryAudited
PROPERTIES
  NoActionInsideWait
  ImplementsLadder
CHECK_DEADLOCK FALSE
