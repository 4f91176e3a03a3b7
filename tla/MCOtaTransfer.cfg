CONSTANTS
  Chunk = 2
  Block = 4
  Radix = 2
  SlotSize = 8
  MaxSize = 10
  MaxConns = 2
  MaxResets = 1
SPECIFICATION FairSpec
INVARIANTS TypeOK AcksMatchBlocks
PROPERTIES SessionTerminates UpgradeSlotEndsWithImage OtaRefinement
CHECK_DEADLOCK FALSE
