SPECIFICATION Spec
CONSTANTS
  NumAgents = 2
  MaxTime = 1
  Suffixes = {1, 2, 3, 4}
  Places = {"dir"}
  Sink = "stdout"
  SecondsPerHour = 1
  BackoffLimit = 1
PROPERTIES
  ImplementsReportJob
  ImplementsStore
CHECK_DEADLOCK FALSE
