SPECIFICATION Spec
CONSTANTS
  Requests <- MCRequests
  Width = 3
  Gear <- MCGear
  CdcMin = 2
  CdcAvg = 2
  CdcMax = 4
  SmallFile = 3
  PackTarget = 4
  ReadChunk = 2
  MaxPlaintext = 4
  MaxBlock = 4
  Tag = 1
  MaxWrites = 1
INVARIANT ReadsBack
