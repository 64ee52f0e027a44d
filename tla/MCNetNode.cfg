SPECIFICATION Spec
CONSTANTS
  MaxUnsent = 1
  RecvCap = 1
  SockRoom = 1
  MaxSize = 2
  MaxLimit = 3
  IoThreads = {t1, t2}
  AppThreads = {a1}
  DelayThreads = {}
  Kinds = {"connect"}
  PeerEnds = {}
  MaxInbox = 0
  MaxEvents = 1
  MaxRead = 1
  CtlResults = {TRUE}
  NULL = NULL
  Freed = Freed
CHECK_DEADLOCK FALSE
SYMMETRY Symmetry
INVARIANTS NodeIntact
