SPECIFICATION Spec
CONSTANTS
  User = {1, 2}
  BaseLen = 0
  MaxOps = 2
  Typists = {1}
  Movers = {}
  MayQuit = {1}
  LocalCap = 4
  InboundCap = 4
  OutboundCap = 4
  SyncCap = 1
  Link <- OneLink
  Up <- OneLink
INVARIANTS
  LogsHaveNoGaps
CHECK_DEADLOCK FALSE
