SPECIFICATION Spec
CONSTANTS
  FecK = 2
  FecN = 2
  MaxBlock = 0
  AnnounceMsec = 1
  Sizes <- MCSizes
  MaxSession = 2
  RingSize = 2
  SeqMod = 64
  Junk = Junk
  Cards <- MCTwoCards
  Backlog = 1
  MaxPackets = 100
  MaxRxStarts = 2
  c1 = c1
  c2 = c2
INVARIANTS
  OnlySent
PROPERTIES
  ImplementsStream
  OnlyNew
CHECK_DEADLOCK FALSE
