SPECIFICATION OneSpec
CONSTANTS
  User = {2}
  Remote = {1}
  BaseLen = 1
  MaxOps = 2
  MaxRemote = 1
  MaxTime = 2
  MaxArrivals = 1
  Typists = {2}
  Movers = {2}
  MayQuit = {}
  LocalCap = 2
  InboundCap = 1
  OutboundCap = 1
  SyncCap = 1
INVARIANTS
  OneTypeOK
  DocumentIsReplay
  ClockAhead
  OwnOpsComeBack
  IdsAreUnique
  CursorStaysAtAnchor
PROPERTIES
  KeysEditAtCursor
  TypedAfterLogged
CHECK_DEADLOCK FALSE
