SPECIFICATION Spec
CONSTANTS
    Name = {a, b}
    Slot = {s1, s2}
    File = {f1, f2, f3}
    Lease = {l1, l2}
    MaxOpen = 3
    NoName = NoName
    NoSlot = NoSlot
    NoFile = NoFile
    Staging = Staging
INVARIANTS SlotsAccounted FreeSlotsAreEmpty ReadyIsWhole LeasedIsFrozen
SYMMETRY WorkspaceSymmetry
CHECK_DEADLOCK FALSE
