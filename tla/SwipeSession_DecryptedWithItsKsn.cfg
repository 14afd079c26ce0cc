SPECIFICATION Spec
CONSTANTS
  Manners = {FALSE}
  MaxSwipes = 2
  MaxQuick = 2
  MaxUpsets = 1
  MaxItems = 3
  FirstKeyType = pin
  MaxEdits = 1
  Bdks = {b1}
  Ksns = {1, 2, 3}
  Data = {1, 2, 3}
  KeyTypes = {pin, data}
  Levels = {3}
  None = None
INVARIANT DecryptedWithItsKsn
CHECK_DEADLOCK FALSE
