SPECIFICATION FairSpec
CONSTANTS
  Capacity = 3
  Retries = 2
  MaxItems = 7
INVARIANTS
  TypeOK
  NothingLost
  NoSlotShared
PROPERTIES
  EveryItemTaken
  IsBoundedFifo
CHECK_DEADLOCK FALSE
