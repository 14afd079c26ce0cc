SPECIFICATION Spec
CONSTANTS
  Cli = cli
  Gui = gui
  Users = {cli, gui}
  Readers = {r1, r2}
  None = None
  Data <- MCData
  Long <- MCLong
  Calls <- MCCalls
  GuiCalls <- MCGuiCalls
  MaxGuiCalls = 1
  Paths = {r1}
  Codes = {"SUCCESS", "DELAYED"}
  MaxPlugs = 1
INVARIANTS
  RequestAsCalled
  AnswerOfThisCall
  DoneAsAsked
PROPERTIES
  ProcessEnds
CHECK_DEADLOCK FALSE
