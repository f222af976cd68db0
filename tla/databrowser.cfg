SPECIFICATION FairSpec
CONSTANTS
    freva = freva
    user = user
    custom = custom
    Builtin = {freva, user}
    Freva = freva
    User = user
    Custom = {custom}
    Selection = {s1, s2}
    Mounts <- MCMounts
    NoFlavour = NoFlavour
    NoWire = NoWire
    MaxPages = 2
INVARIANTS ShownIsCurrent RowsOfOneQuery ListsInStep
PROPERTIES AnswersFitQuery SearchSettles
CHECK_DEADLOCK FALSE
