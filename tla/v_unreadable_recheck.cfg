SPECIFICATION Spec
CONSTANTS
  Refreshers = {r1}
  Callbacks = {}
  Updates = {}
  PeerKeys = {p1}
  SharedCredential = TRUE
  UseNavLocks = FALSE
  LoginOverSession = TRUE
  MaxTracked = 2
  MaxTokens = 2
  MaxCalls = 1
PROPERTIES OnlyRejectedCleared
CHECK_DEADLOCK FALSE
