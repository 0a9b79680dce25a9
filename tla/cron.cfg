SPECIFICATION FairSpec
CONSTANTS
  NumAgents = 2
  MaxHour = 2
  BackoffLimit = 1
INVARIANTS
  TypeOK
  RecordsOfRun
PROPERTIES
  JobsSettle
  ImplementsReportJobs
CHECK_DEADLOCK FALSE
