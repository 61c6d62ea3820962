SPECIFICATION FairSpec
CONSTANTS
  Process = {p1, p2}
  NULL = NULL
  NumEvents = 2
  CountWrap = 4
  Posted = {"CONTINUE"}
  MayExitBusy = FALSE
  MaxStarts = 3
CHECK_DEADLOCK FALSE
INVARIANTS
  TypeOK
  ListIsSound
  CurrentRuns
  NotReentered
PROPERTIES
  NoPollLost
  PollsServed
  QueueIsFifo
