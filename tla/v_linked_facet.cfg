SPECIFICATION Spec
CONSTANTS
    freva = freva
    user = user
    custom = custom
    Builtin = {freva, user}
    Freva = freva
    User = user
    Custom = {custom}
    Selection = {s1, s2}
    Mounts <- MCLinks
    NoFlavour = NoFlavour
    NoWire = NoWire
    MaxPages = 2
PROPERTIES LinkedFacetKept
CHECK_DEADLOCK FALSE
