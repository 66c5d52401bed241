SPECIFICATION FairSpec
CONSTANTS
  Threads = {a, b}
  Requests <- MCRequests
  Sensed = {1, 254}
  Stray = {7, 137}
  MaxCalls = 2
  GiveUpAt = 3
INVARIANTS
  TypeOK
  ObeysCalls
  GetsItsAnswer
  SameDecoding
PROPERTY
  CallsReturn
CHECK_DEADLOCK FALSE
