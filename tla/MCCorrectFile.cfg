SPECIFICATION Spec
CONSTANTS
  Proc = {p1, p2}
  DataShards = 2
  ParityShards = 1
  WindowShards = 2
  Original <- MCOriginal
  Given <- MCGiven
  Missing = Missing
  Torn = Torn
  MaxLength = 4
  MaxEvents = 3
INVARIANTS TypeOK NothingInvented
PROPERTIES AnchorKept VerdictTrue ScanForetells RepairHeals
CHECK_DEADLOCK FALSE
