SPECIFICATION Parts
CONSTANTS
  MaxUnsent = 1
  RecvCap = 1
  SockRoom = 1
  MaxSize = 2
  MaxLimit = 4
  IoThreads = {t1, t2}
  AppThreads = {a1, a2}
  DelayThreads = {d1}
  Kinds = {"listen", "connect"}
  PeerEnds = {"fin", "reset"}
  MaxInbox = 1
  MaxEvents = 1
  MaxRead = 1
  CtlResults = {TRUE, FALSE}
  NULL = NULL
  Freed = Freed
CHECK_DEADLOCK FALSE
SYMMETRY Symmetry
INVARIANTS TypeOK OnePlace RegistrationExact NoStuckOutput NoLostInput NoStuckClosing
PROPERTY OwnsIds
