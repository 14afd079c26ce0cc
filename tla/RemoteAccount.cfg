SPECIFICATION Spec
CONSTANTS
  Pages = {p1, p2}
  Clients = {p1, p2}
  Fields = {"url", "login"}
  Texts = {"", "text"}
  Blank = ""
  Default <- MCDefault
  Missing = Missing
  NoFile = NoFile
  Files <- MCFiles
  Accounts <- MCAccounts
  Unset = Unset
  Documents <- MCDocuments
  CurrentKsis = {"mine", ""}
  None = None
  MaxWindows = 2
  MaxActs = 3
INVARIANTS
  AccountOfOperation
  RunsWhatItAskedFor
PROPERTIES
  SavedAsShown
  StoredTextsStay
  EditIsStored
CHECK_DEADLOCK FALSE
