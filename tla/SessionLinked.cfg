SPECIFICATION Spec
CONSTANTS
  User = {1, 2}
  BaseLen = 1
  MaxOps = 1
  Typists = {1, 2}
  Movers = {}
  MayQuit = {}
  LocalCap = 4
  InboundCap = 4
  OutboundCap = 4
  SyncCap = 1
  Link <- OneLink
  Up <- OneLink
INVARIANTS
  TypeOK
  ConvergedAtRest
  FileIsText
PROPERTIES
  ImplementsSharedText
CHECK_DEADLOCK FALSE
