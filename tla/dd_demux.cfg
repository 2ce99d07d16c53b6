SPECIFICATION Spec
CONSTANTS
  Messages <- Mixed
  MaxMessages = 3
  MaxCells = 130
  MaxTotalLen = 200
  MaxFrame = 12
  CloseFlag = 12
INVARIANTS
  ChunkInsensitive
  InStep
CHECK_DEADLOCK FALSE
