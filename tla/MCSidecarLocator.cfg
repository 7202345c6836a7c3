SPECIFICATION Spec
CONSTANTS
  TotalLens <- MCTotalLens
  WindowSize = 2
  DataShards = 2
  ParityShards = 1
  MaxParity = 2
  MaxDirectories = 60
  Huge = 1000
  MaxDamage = 3
INVARIANTS TypeOK ReadersAgree OpensTheRightWindows HealsWithinBudget OneSlotIsEnough
CHECK_DEADLOCK FALSE
