SPECIFICATION Spec
CONSTANTS
  Refreshers = {r1, r2}
  Callbacks = {c1}
  Updates = {u1}
  PeerKeys = {}
  SharedCredential = TRUE
  UseNavLocks = FALSE
  LoginOverSession = FALSE
  MaxTracked = 2
  MaxTokens = 3
  MaxCalls = 3
INVARIANTS TypeOK
PROPERTIES KeepsCustody
SYMMETRY RefresherSymmetry
CHECK_DEADLOCK FALSE
