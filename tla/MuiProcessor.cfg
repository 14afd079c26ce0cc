SPECIFICATION Spec
CONSTANTS
  Users = {window, page}
  Ops = {o1, o2, o3}
  Stop = Stop
  None = None
INVARIANTS
  TypeOK
  WakeupPerOperation
  NothingLostAtStop
PROPERTIES
  ImplementsSerialExecutor
  EveryOperationAnswered
  StopsInTheEnd
CHECK_DEADLOCK FALSE
