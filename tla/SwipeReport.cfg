SPECIFICATION Spec
CONSTANTS
  Word = 32
  MCCR_USAGE = mccr
  UsageIds = {status, track}
  Sizes = {4, 8}
  Counts = {1, 2}
  MaxUsages = 3
  MaxSwipes = 2
INVARIANTS
  AgreesWithHid
  FieldsDelivered
PROPERTY ReceiveEnds
CHECK_DEADLOCK FALSE
