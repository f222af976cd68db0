SPECIFICATION Spec
CONSTANTS
  Refreshers = {r1}
  Callbacks = {c1}
  Updates = {}
  PeerKeys = {}
  SharedCredential = TRUE
  UseNavLocks = TRUE
  LoginOverSession = FALSE
  MaxTracked = 2
  MaxTokens = 2
  MaxCalls = 4
PROPERTIES OnlyOwnSessionEnded
CHECK_DEADLOCK FALSE
