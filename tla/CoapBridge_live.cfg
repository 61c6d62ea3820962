SPECIFICATION FairSpec
CONSTANTS
  Uris = {u1}
  MaxToken = 2
  MaxLines = 1
  LinkBreaks = TRUE
CHECK_DEADLOCK FALSE
INVARIANTS
  TypeOK
  HandlersAreSubscriptions
  WaitHasAnEnd
PROPERTIES
  RequestEnds
