SPECIFICATION FairSpec
CONSTANTS
  Refreshers = {r1}
  Callbacks = {c1}
  Updates = {}
  PeerKeys = {p1}
  SharedCredential = FALSE
  UseNavLocks = TRUE
  LoginOverSession = TRUE
  MaxTracked = 2
  MaxTokens = 1
  MaxCalls = 2
PROPERTIES TransitionsSettle RefreshersSettle
CHECK_DEADLOCK FALSE
