SPECIFICATION Spec
CONSTANTS
  AggMaxSize = 4
  AggTimeout = 2
  Sizes <- MCWithEmpty
  Addrs <- MCAddrs
  NoAddr = NoAddr
  Batches <- MCOneBatch
  MaxMessages = 4
  a1 = a1
  a2 = a2
INVARIANTS
  WaitsAtMostTimeout
CHECK_DEADLOCK FALSE
