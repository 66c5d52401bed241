\* The threads of iMain from start to shutdown, with fairness.
SPECIFICATION FairSpec
CONSTANTS
  Hz50 = 1
  Hz2 = 2
  Wrap = 2
  MaxPosts = 1
  Online = FALSE
INVARIANTS
  TypeOK
  EndsClean
  StopRequestStays
PROPERTIES
  WorkersLeave
CHECK_DEADLOCK FALSE
