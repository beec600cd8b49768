SPECIFICATION Spec
CONSTANTS
  AggMaxSize = 4
  AggTimeout = 2
  Sizes <- MCSizes
  Addrs <- MCAddrs
  NoAddr = NoAddr
  Batches <- MCBatches
  MaxMessages = 4
  Antennas <- MCAntennas
  WlanOf <- MCWlanOf
  Levels <- MCLevels
  Counters <- MCCounters
  Delta = 3
  MaxCount = 3
  StatusBatch <- MCStatus
  a1 = a1
INVARIANTS
  WaitsAtMostTimeout
PROPERTIES
  InOrder
  Leaves
  PacketsCutUp
  ChoiceGoodEnough
  StatusFits
CHECK_DEADLOCK FALSE
