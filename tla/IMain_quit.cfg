\* The program does not always end after q.
SPECIFICATION FairSpec
CONSTANTS
  Hz50 = 1
  Hz2 = 2
  Wrap = 2
  MaxPosts = 1
  Online = TRUE
PROPERTIES
  QuitEnds
CHECK_DEADLOCK FALSE
