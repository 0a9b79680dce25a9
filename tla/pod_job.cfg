SPECIFICATION FairSpec
CONSTANTS
  NumAgents = 1
  MaxTime = 0
  Suffixes = {1, 2, 3}
  Places = {"dir", "file", "absent"}
  Sink = "http"
  SecondsPerHour = 1
  BackoffLimit = 2
PROPERTIES
  Settles
  ImplementsReportJob
  ImplementsCronJob
CHECK_DEADLOCK FALSE
