SPECIFICATION Spec
CONSTANTS
  Process = {p1, p2}
  NULL = NULL
  NumEvents = 1
  CountWrap = 2
  Posted = {"CONTINUE"}
  MayExitBusy = TRUE
  MaxStarts = 2
CHECK_DEADLOCK FALSE
INVARIANTS
  ExitIsFinal
