SPECIFICATION FairSpec
CONSTANTS
  Thread = {"main", "merge"}
  MaxClock = 4
INVARIANTS
  TimestampsIncrease
PROPERTIES
  NeverBackwards
  LaterThanRemote
  UpdateReturns
CHECK_DEADLOCK FALSE
