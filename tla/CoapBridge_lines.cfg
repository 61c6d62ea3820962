SPECIFICATION Spec
CONSTANTS
  Uris = {u1}
  MaxToken = 2
  MaxLines = 2
  LinkBreaks = TRUE
CHECK_DEADLOCK FALSE
PROPERTIES
  NoRequestLost
