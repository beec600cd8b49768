SPECIFICATION VideoSpec
CONSTANTS
  FecK = 2
  FecN = 3
  MaxBlock = 1
  AnnounceMsec = 1
  Sizes <- MCSizes
  MaxSession = 4
  Outputs = 2
  Backlog = 2
  MaxArrivals = 6
PROPERTIES
  AllServed
  NonceRises
  KeyOnAir
  ParityFits
CHECK_DEADLOCK FALSE
