SPECIFICATION Spec
CONSTANTS
  Nil = Nil
  Names <- MCNames
  MachineIDs <- MCMachineIDs
  SystemUUIDs <- MCSystemUUIDs
  Details <- MCDetails
  MaxChanges = 3
  MaxRecords = 2
INVARIANT
  StableID
CHECK_DEADLOCK FALSE
