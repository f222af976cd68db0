SPECIFICATION Spec
CONSTANTS
  Refreshers = {}
  Callbacks = {c1}
  Updates = {}
  PeerKeys = {p1}
  SharedCredential = TRUE
  UseNavLocks = TRUE
  LoginOverSession = TRUE
  MaxTracked = 2
  MaxTokens = 2
  MaxCalls = 3
INVARIANTS NoOrphanBlock
PROPERTIES NewerSessionSurvives
CHECK_DEADLOCK FALSE
