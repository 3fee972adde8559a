SPECIFICATION Spec
CONSTANTS
  Char <- AnyKind
  MaxTyped = 3
  HeaderLen = 2
  PipeCap = 30
  ReadSize = 30
  Chunks = {9}
  MisreadLen = {1, 1000}
INVARIANTS
  FramesInOrder
  
  AllReadAtRest
CHECK_DEADLOCK FALSE
