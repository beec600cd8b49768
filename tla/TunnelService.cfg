SPECIFICATION Spec
CONSTANTS
  Interval = 2
  MaxPackets = 2
  MaxWaiting = 1
  Services <- MCServices
  Gathering <- MCGathering
  Child <- MCChild
  ServiceOf <- MCServiceOf
  Commands = 2
  Tunnel = tunnel
  tunnel = tunnel
  video = video
  tunnel_rx = tunnel_rx
  tunnel_tx = tunnel_tx
  video_tx = video_tx
INVARIANTS
  SilenceBounded
  NothingLost
  StatusTruthful
  DeviceOfLivingService
PROPERTIES
  FailureEndsServer
  Drained
CHECK_DEADLOCK FALSE
