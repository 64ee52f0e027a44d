SPECIFICATION FairSpec
CONSTANTS
  z1 = z1
  z2 = z2
  l1 = l1
  Services <- MCServices
  Shared = Shared
  NULL = NULL
  Loads <- MCLoads
  Packed <- Pack
  Unpacked <- Unpack
  B8 = 1
  B16 = 2
  B32 = 4
  B64 = 8
  S8 = 2
  S16 = 4
INVARIANTS ExecutedInOrder NothingLost ArrivesIntact NoUseAfterFree
PROPERTIES ShutdownEnds
CHECK_DEADLOCK FALSE
