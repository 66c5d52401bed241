\* The odometer's data under two program threads and the sensor thread.
SPECIFICATION Spec
CONSTANTS
  Callers = {"main", "aux"}
  OpsOf <- MCTwoCallers
  Reported <- MCCalm
  Increments <- MCForward
  Goals <- MCNear
  MaxTravel = 1
  OverLimit = 0
  MaxPosts = 1
  MixedModes = FALSE
INVARIANTS
  Conservation
  ReplyToAsker
  DistanceWaitExact
  NoUseAfterDestroy
PROPERTIES
  NothingLostInSession
CHECK_DEADLOCK FALSE
