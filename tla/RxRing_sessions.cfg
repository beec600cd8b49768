SPECIFICATION Spec
CONSTANTS
  FecK = 2
  FecN = 3
  RingSize = 2
  MaxBlock = 1
  SeqMod = 64
  Keys <- MCKeys
  NoKey = NoKey
  IsEncrypt = TRUE
  Antennas <- MCAntennas
  Junk = Junk
  LogEvery = 1
  k1 = k1
  k2 = k2
  a1 = a1
SYMMETRY MCSymmetry
PROPERTIES
  ReceivedIsGenuine
