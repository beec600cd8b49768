SPECIFICATION Spec
CONSTANTS
  Wlans <- MCWlans
  MaxStarts = 2
  MaxKills = 2
INVARIANTS
  NoOrphan
  WlansBack
  ChildOnMonitor
  OnePipeline
  NoPipelineLeft
PROPERTIES
  Ends
  Returns
CHECK_DEADLOCK FALSE
