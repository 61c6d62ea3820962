CONSTANTS
  Clients = {c1}
  Urls = {button, temperature}
  EventUrls = {button}
  COAP_MAX_OPEN_TRANSACTIONS = 2
  COAP_MAX_OBSERVERS = 2
  COAP_MAX_RETRANSMIT = 2
  PROCESS_CONF_NUMEVENTS = 2
  MaxMid = 2

SPECIFICATION Spec

PROPERTIES
  StoredUntilAnswered
