SPECIFICATION Spec
CONSTANTS
  Keys = {k1}
  TestKey = test
  Manners = {TRUE, FALSE}
  MaxReaders = 2
  MaxOperations = 2
  MaxSteadyOperations = 3
  None = None
INVARIANTS
  TypeOK
  AssertionsHold
  OngoingHasCallback
  NothingDangles
  KeysForTheirReader
PROPERTIES
  OperationEnds
  KsnCatchesUp
CHECK_DEADLOCK FALSE
