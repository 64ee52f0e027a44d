SPECIFICATION Spec
CONSTANTS
  MaxSize = 3
  MaxLimit = 8
CHECK_DEADLOCK FALSE
INVARIANTS TypeOK ChainIsFifo LookupsExact SizeExact
PROPERTIES NoEarlyReissue ImplementsPool
