SPECIFICATION FairSpec
CONSTANTS
  Names = {n1}
  Episodes = {e1}
  Statuses = {"resolved"}
  Workers = {w1, w2}
  Requests = {h1, h2}
  Callbacks = {c1}
  QueueSize = 1
  MaxDeliveries = 3
INVARIANTS
  TypeOK
  OneEventPerClaim
  FollowupNotForgotten
  NoTimerAfterCancel
PROPERTIES
  AlertAnswered
  WorkersStop
CHECK_DEADLOCK FALSE
