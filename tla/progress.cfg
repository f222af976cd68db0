SPECIFICATION FairSpec
CONSTANTS
  Refreshers = {r1, r2}
  Callbacks = {}
  Updates = {}
  PeerKeys = {}
  SharedCredential = TRUE
  UseNavLocks = TRUE
  LoginOverSession = TRUE
  MaxTracked = 2
  MaxTokens = 2
  MaxCalls = 3
PROPERTIES TransitionsSettle RefreshersSettle
CHECK_DEADLOCK FALSE
