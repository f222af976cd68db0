SPECIFICATION Spec
CONSTANTS
    MaxOps = 3
    MaxBoots = 2
    Owner = {c1, c2}
    Nobody = Nobody
    HasStartup = TRUE
    Kinds = {"push", "run", "cell", "clear", "import", "quiesce"}
INVARIANTS NeverRetargeted OneStatement StateIsTrue NeverStuckBusy
PROPERTIES InProgramOrder
SYMMETRY ConsoleSymmetry
CHECK_DEADLOCK FALSE
