SPECIFICATION Spec
CONSTANTS
  Refreshers = {}
  Callbacks = {c1}
  Updates = {}
  PeerKeys = {p1, p2}
  SharedCredential = FALSE
  UseNavLocks = TRUE
  LoginOverSession = TRUE
  MaxTracked = 2
  MaxTokens = 1
  MaxCalls = 2
INVARIANTS GateAccounting NoOrphanBlock
SYMMETRY PeerSymmetry
CHECK_DEADLOCK FALSE
