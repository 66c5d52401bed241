SPECIFICATION FairSpec
CONSTANTS
  Programs = {"driveIMU", "driveInnerLoop"}
  WP_max_laps = 1
  KeySteps = 1
  DeadOn = TRUE
INVARIANTS
  TypeOK
  LapsFlown
  HomeBeforeEnd
PROPERTIES
  TourInOrder
  MissionEnds
CHECK_DEADLOCK FALSE
