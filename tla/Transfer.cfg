SPECIFICATION Spec
CONSTANTS
  STRIP_SIZE = 2
  BlockSize = 2
  Widths <- UpToTwo
  NumBlocks = 3
  MaxLen = 4
  MaxCalls = 3
INVARIANTS TypeOK KeepsToBuffer ReadsBack OwnBlock
PROPERTY WritesInRange
CHECK_DEADLOCK FALSE
