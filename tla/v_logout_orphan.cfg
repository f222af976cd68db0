SPECIFICATION Spec
CONSTANTS
  Refreshers = {r1}
  Callbacks = {}
  Updates = {}
  PeerKeys = {}
  SharedCredential = TRUE
  UseNavLocks = TRUE
  LoginOverSession = TRUE
  MaxTracked = 2
  MaxTokens = 2
  MaxCalls = 2
PROPERTIES LogoutLeavesNothingUntracked
CHECK_DEADLOCK FALSE
