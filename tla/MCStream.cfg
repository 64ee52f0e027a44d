SPECIFICATION Spec
CONSTANTS
  SendPoolCnt = 2
  SendSize = 3
  RecvPoolCnt = 3
  RecvSize = 2
  Radix = 6
  EnBytes = {1, 2}
  Versions = {"buff", "queue"}
  Sizes = {1, 4}
  WireCap = 2
  NULL = NULL
INVARIANTS TypeOK NothingLost NeverRejected
PROPERTIES ReadsInOrder MessagesArrive
CHECK_DEADLOCK FALSE
