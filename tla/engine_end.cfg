SPECIFICATION FairSpec
CONSTANTS
    MaxOps = 3
    MaxBoots = 2
    Owner = {c1}
    Nobody = Nobody
    HasStartup = FALSE
    Kinds = {"push", "run"}
PROPERTIES EveryCommandSettles EveryStartSettles
CHECK_DEADLOCK FALSE
