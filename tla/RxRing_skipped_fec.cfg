SPECIFICATION Spec
CONSTANTS
  FecK = 2
  FecN = 3
  RingSize = 2
  MaxBlock = 3
  SeqMod = 64
  Keys <- MCOneKey
  NoKey = NoKey
  IsEncrypt = TRUE
  Antennas <- MCAntennas
  Junk = Junk
  LogEvery = 1
  k1 = k1
  k2 = k2
  a1 = a1
PROPERTIES
  AlwaysGenuine
