SPECIFICATION Spec
CONSTANTS
  User = {1, 2}
  BaseLen = 0
  MaxOps = 2
  Typists = {1}
  Movers = {}
  MayQuit = {}
  LocalCap = 4
  InboundCap = 4
  OutboundCap = 4
  SyncCap = 2
  Link <- OneLink
  Up <- NoLink
INVARIANTS
  ConvergedAtRest
CHECK_DEADLOCK FALSE
