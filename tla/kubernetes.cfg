SPECIFICATION Spec
CONSTANTS
  Nil = Nil
  Names <- MCNames
  MachineIDs <- MCMachineIDs
  SystemUUIDs <- MCSystemUUIDs
  Details <- MCDetails
  MaxChanges = 3
  MaxRecords = 2
INVARIANTS
  TypeOK
  IDsIdentify
  EntriesRepeat
  NodesOfOneMoment
CHECK_DEADLOCK FALSE
