CONSTANTS
  Place = {"beside"}
  MetadataShards = 3
  Spare = 2
  MaxEdit = 4
  MaxRot = 2
SPECIFICATION Spec
INVARIANTS
  TypeOK
  RepairedIsWhole
  NoEditLost
  OpensWithinCapacity
PROPERTIES
  RepairNeverOverwritesGood
  RepairsWithinCapacity
CHECK_DEADLOCK FALSE
