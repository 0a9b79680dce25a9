SPECIFICATION Spec
CONSTANTS
  NumAgents = 2
  MaxTime = 1
  Suffixes = {1, 2, 3, 4}
  Places = {"dir", "file", "absent"}
  Sink = "http"
  SecondsPerHour = 1
  BackoffLimit = 1
INVARIANTS
  TypeOK
  OfferedComplete
  NewestLast
  RetriesRepeat
  SucceededAnswered
  SucceededSentAll
PROPERTIES
  PostIsCurrent
  CountsDown
CHECK_DEADLOCK FALSE
