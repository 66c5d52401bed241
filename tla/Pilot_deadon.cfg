\* The robot may point exactly at its target.
SPECIFICATION Spec
CONSTANTS
  Programs = {"driveIMU"}
  WP_max_laps = 1
  KeySteps = 0
  DeadOn = TRUE
INVARIANT
  InverseToError
CHECK_DEADLOCK FALSE
