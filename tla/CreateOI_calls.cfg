\* Waits, interrupts and the shutdown, with fairness.
SPECIFICATION FairSpec
CONSTANTS
  Callers = {"main"}
  OpsOf <- MCDriver
  Reported <- Signals
  Increments <- MCStill
  Goals <- MCBack
  MaxTravel = 0
  OverLimit = 1
  MaxPosts = 1
  MixedModes = FALSE
INVARIANTS
  TypeOK
  DriveForEndsHalted
PROPERTIES
  CallsReturn
  HazardEndsWait
CHECK_DEADLOCK FALSE
