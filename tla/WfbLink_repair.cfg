SPECIFICATION Spec
CONSTANTS
  FecK = 2
  FecN = 4
  MaxBlock = 1
  AnnounceMsec = 1
  Sizes <- MCSizes
  MaxSession = 1
  RingSize = 1
  SeqMod = 64
  Junk = Junk
  Cards <- MCOneCard
  Backlog = 3
  MaxPackets = 100
  MaxRxStarts = 1
  c1 = c1
  c2 = c2
INVARIANTS
  Repaired
CHECK_DEADLOCK FALSE
