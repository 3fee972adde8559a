SPECIFICATION Spec
CONSTANTS
  User = {1, 2}
  BaseLen = 1
  MaxOps = 4
  MaxSkip = 0
INVARIANTS
  TextIsInsertedMinusDeleted
  IndexInSync
  AnchorComesFirst
  OrderIsTreeOrder
  InsertsCommute
CHECK_DEADLOCK FALSE
