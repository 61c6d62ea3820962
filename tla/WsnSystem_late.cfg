SPECIFICATION SystemSpec
CONSTANTS
  Uris = {u1}
  EventUris = {}
  MaxToken = 3
  MaxLines = 1
  LinkBreaks = FALSE
CHECK_DEADLOCK FALSE
INVARIANTS
  SubscribedAsCommanded
