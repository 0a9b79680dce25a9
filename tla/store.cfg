SPECIFICATION StoreSpec
CONSTANTS
  NumAgents = 2
  MaxTime = 1
  Suffixes = {1, 2}
  Places = {"dir", "file", "absent"}
INVARIANTS
  StoreTypeOK
  OkMeansStored
PROPERTIES
  StoredRecordsKept
