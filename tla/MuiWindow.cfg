SPECIFICATION Spec
CONSTANTS
  MaxProcessors = 2
  MaxTimers = 2
  MaxChanges = 2
  MaxQueue = 2
INVARIANTS
  AlwaysListening
  ChainPerSetup
PROPERTIES
  QuietAfterDispose
  ReaderServed
CHECK_DEADLOCK FALSE
