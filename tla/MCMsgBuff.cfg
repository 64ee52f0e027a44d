SPECIFICATION FairSpec
CONSTANTS
  Writers = {w1}
  Readers = {r1}
  Msg = {m1, m2}
  PoolCnt = 3
  BufferSize = 2
  MaxRead = 3
  Load = 5
  NULL = NULL
  Junk = Junk
INVARIANTS NoStrayCopy NoLostPart
PROPERTIES ImplementsFifo CallsEnd
