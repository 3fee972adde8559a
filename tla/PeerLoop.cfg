SPECIFICATION FairSpec
CONSTANTS
  Conn = {1, 2, 3}
  MayClose = {1, 2}
  MaxData = 1
  MaxManual = 2
INVARIANTS
  TypeOK
  IdleRecvOnlyAfterShift

  
CHECK_DEADLOCK FALSE
