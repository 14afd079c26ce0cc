SPECIFICATION Spec
CONSTANTS
  MaxProcessors = 2
  MaxTimers = 2
  MaxChanges = 2
  MaxQueue = 2
CHECK_DEADLOCK FALSE
INVARIANT LoadFindsDevice
