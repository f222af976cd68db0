SPECIFICATION Spec
CONSTANTS
  Refreshers = {r1}
  Callbacks = {c1}
  Updates = {}
  PeerKeys = {p1}
  SharedCredential = TRUE
  UseNavLocks = TRUE
  LoginOverSession = FALSE
  MaxTracked = 2
  MaxTokens = 2
  MaxCalls = 2
PROPERTIES NewerSessionSurvives
CHECK_DEADLOCK FALSE
