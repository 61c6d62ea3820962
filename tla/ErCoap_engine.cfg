SPECIFICATION FairSpec
CONSTANTS
  Clients = {c1, c2}
  Urls = {button, temperature}
  EventUrls = {button}
  COAP_MAX_OPEN_TRANSACTIONS = 2
  COAP_MAX_OBSERVERS = 2
  COAP_MAX_RETRANSMIT = 2
  PROCESS_CONF_NUMEVENTS = 1
  MaxMid = 2
INVARIANTS
  TypeOK
  PoolsMatchLists
  NoStrandedTransaction
  OneRelationPerUrl
PROPERTIES
  ReplyIsSelective
  StoredUnlessRejected
  KeepsPromise
  TransactionsEnd
