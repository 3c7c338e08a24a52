SPECIFICATION Spec
CONSTANTS
  Names = {n1}
  Episodes = {e1}
  Statuses = {"firing"}
  Workers = {w1}
  Requests = {h1}
  Callbacks = {c1}
  QueueSize = 1
  MaxDeliveries = 1
INVARIANTS
  ConfirmationKept
CHECK_DEADLOCK FALSE
