SPECIFICATION Spec
CONSTANTS
  Refreshers = {r1, r2}
  Callbacks = {c1}
  Updates = {}
  PeerKeys = {}
  SharedCredential = TRUE
  UseNavLocks = FALSE
  LoginOverSession = FALSE
  MaxTracked = 2
  MaxTokens = 3
  MaxCalls = 4
PROPERTIES KeepsCustody ReturnedInSession
SYMMETRY RefresherSymmetry
CHECK_DEADLOCK FALSE
