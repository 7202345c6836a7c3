CONSTANTS
  Place = {"beside"}
  MetadataShards = 1
  Spare = 1
  MaxEdit = 3
  MaxRot = 1
SPECIFICATION Spec
PROPERTIES
  RepairNeverOverwritesGood
CHECK_DEADLOCK FALSE
