SPECIFICATION Spec
CONSTANTS
  Lines <- MCLines
  Reads <- MCReads
  MaxLosses = 1
INVARIANTS
  AsSent
  WithinOneDegree
PROPERTIES
  CatchesUp
CHECK_DEADLOCK FALSE
