SPECIFICATION FairSpec
CONSTANTS
  N = 3
  Ids = 3
  Ring = 1
  PortSize = 3
  MaxLost = 1
INVARIANTS
  TypeOK
  InStepAfterPause
  SameReadings
PROPERTY
  StopReturns
CHECK_DEADLOCK FALSE
