SPECIFICATION FairSpec
CONSTANTS
  Data = {b0, b1}
  Zero = b0
  Requests <- MCRequests
  Calls = {"begin", "end", "write", "read"}
INVARIANTS
  TypeOK
  Armed
PROPERTIES
  TxInOrder
  RxInOrder
  WriteReturns
CHECK_DEADLOCK FALSE
