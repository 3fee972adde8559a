SPECIFICATION Spec
CONSTANTS
  User = {1, 2}
  BaseLen = 1
  MaxOps = 1
  Typists = {1}
  Movers = {}
  MayQuit = {}
  LocalCap = 4
  InboundCap = 4
  OutboundCap = 4
  SyncCap = 1
  Link <- BothLinks
  Up <- NoLink
INVARIANTS
  ConvergedAtRest
  LoggedIsShown
CHECK_DEADLOCK FALSE
