SPECIFICATION Spec
CONSTANTS
  Writers = {w1}
  Readers = {r1}
  Msg = {m1, m2}
  PoolCnt = 2
  BufferSize = 2
  MaxRead = 4
  Load = 4
  NULL = NULL
  Junk = Junk
INVARIANTS NoStrayCopy
