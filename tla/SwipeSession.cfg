SPECIFICATION Spec
CONSTANTS
  Manners = {TRUE, FALSE}
  MaxSwipes = 2
  MaxQuick = 1
  MaxUpsets = 2
  MaxItems = 2
  FirstKeyType = pin
  MaxEdits = 1
  Bdks = {b1}
  Ksns = {1, 2, 3}
  Data = {1, 2, 3}
  KeyTypes = {pin, data}
  Levels = {3}
  None = None
INVARIANTS
  KeysCurrent
  ShownWithCurrentKey
  DecryptedIfLeisurely
PROPERTY EverySwipeShown
CHECK_DEADLOCK FALSE
