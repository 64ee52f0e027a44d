SPECIFICATION Live
CONSTANTS
  MaxUnsent = 1
  RecvCap = 1
  SockRoom = 1
  MaxSize = 1
  MaxLimit = 2
  IoThreads = {t1}
  AppThreads = {a1}
  DelayThreads = {}
  Kinds = {"connect"}
  PeerEnds = {"fin", "reset"}
  MaxInbox = 1
  MaxEvents = 1
  MaxRead = 1
  CtlResults = {TRUE}
  NULL = NULL
  Freed = Freed
CHECK_DEADLOCK FALSE
INVARIANT NoFalseError
PROPERTIES ClosedReleased EventsReported
