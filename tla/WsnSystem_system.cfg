SPECIFICATION SystemSpec
CONSTANTS
  Uris = {u1, u2}
  EventUris = {u2}
  MaxToken = 2
  MaxLines = 1
  LinkBreaks = FALSE
CHECK_DEADLOCK FALSE
INVARIANTS
  ResponsesMatchExchanges
  SystemTypeOK
  OnlyCommandedSubscriptions
  SubscriptionIsKnown
PROPERTIES
  GetsSpareRelations
  SilenceHolds
