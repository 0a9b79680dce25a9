SPECIFICATION Spec
CONSTANTS
  NumAgents = 1
  MaxTime = 0
  Suffixes = {1, 2, 3}
  Places = {"dir"}
  Sink = "http"
  SecondsPerHour = 1
  BackoffLimit = 2
INVARIANTS
  SucceededDelivered
CHECK_DEADLOCK FALSE
