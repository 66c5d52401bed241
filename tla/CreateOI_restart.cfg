\* startOI after stopOI_MT leaves the library in threaded mode.
SPECIFICATION Spec
CONSTANTS
  Callers = {"main"}
  OpsOf <- MCRestart
  Reported <- MCCalm
  Increments <- MCForward
  Goals <- MCNear
  MaxTravel = 2
  OverLimit = 0
  MaxPosts = 1
  MixedModes = TRUE
INVARIANTS
  NoUseAfterDestroy
CHECK_DEADLOCK FALSE
