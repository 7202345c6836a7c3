CONSTANTS
  Place = {"beside"}
  MetadataShards = 2
  Spare = 1
  MaxEdit = 1
  MaxRot = 1
SPECIFICATION Spec
PROPERTIES
  ExportKeepsOpenable
CHECK_DEADLOCK FALSE
