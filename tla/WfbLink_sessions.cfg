SPECIFICATION Spec
CONSTANTS
  FecK = 1
  FecN = 2
  MaxBlock = 0
  AnnounceMsec = 1
  Sizes <- MCSizes
  MaxSession = 3
  RingSize = 2
  SeqMod = 64
  Junk = Junk
  Cards <- MCOneCard
  Backlog = 4
  MaxPackets = 100
  MaxRxStarts = 2
  c1 = c1
  c2 = c2
INVARIANTS
  OpensWhatItHears
PROPERTIES
  NeverBack
CHECK_DEADLOCK FALSE
