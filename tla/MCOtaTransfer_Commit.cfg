CONSTANTS
  Chunk = 2
  Block = 4
  Radix = 2
  SlotSize = 8
  MaxSize = 10
  MaxConns = 2
  MaxResets = 1
SPECIFICATION Spec
PROPERTY FailedSessionNeverCommits
CHECK_DEADLOCK FALSE
