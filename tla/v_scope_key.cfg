SPECIFICATION Spec
CONSTANTS
    freva = freva
    user = user
    custom = custom
    Builtin = {freva, user}
    Freva = freva
    User = user
    Custom = {custom}
    Selection = {s1, s2}
    Mounts <- MCMounts
    NoFlavour = NoFlavour
    NoWire = NoWire
    MaxPages = 2
INVARIANTS ScopedRequestsKeyed
CHECK_DEADLOCK FALSE
