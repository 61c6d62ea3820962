SPECIFICATION FairSpec
CONSTANTS
  Uris = {u1}
  MaxToken = 1
  MaxLines = 1
  LinkBreaks = TRUE
CHECK_DEADLOCK FALSE
PROPERTIES
  ReconnectServed
