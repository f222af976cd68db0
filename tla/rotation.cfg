SPECIFICATION Spec
CONSTANTS
  Refreshers = {r1}
  Callbacks = {c1}
  Updates = {}
  PeerKeys = {}
  SharedCredential = TRUE
  UseNavLocks = TRUE
  LoginOverSession = TRUE
  MaxTracked = 2
  MaxTokens = 2
  MaxCalls = 4
INVARIANTS CancelledIsDead EndedStaysUnreadable GateAccounting
PROPERTIES CutOffStaysCutOff ReturnedInSession
CHECK_DEADLOCK FALSE
