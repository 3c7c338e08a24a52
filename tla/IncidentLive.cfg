SPECIFICATION HealingLiveSpec
CONSTANTS
  Pollers = {p1}
  Webhooks = {}
  MaxVersion = 2
  CountCap = 4
  MaxCrashes = 0
  MaxDbFaults = 0
  MaxConnectFaults = 2
  MaxOperatorStops = 0
  MaxAlerts = 0
  QueueLevels = {2, 4}
  Failures = {"TASK_FAILED", "FAILED"}
  KeepBase = FALSE
  RootVersioned = FALSE
  FailureConfirmChecks = 2
  TaskRestartMax = 1
  Clients = {t1, t2, t3}
  MaxOutages = 2
  MaxRaises = 1
INVARIANTS
  ProbeInFlight
  OneProbePerOpening
PROPERTIES
  EventuallyClosed
  CircuitRecovers
CHECK_DEADLOCK FALSE
