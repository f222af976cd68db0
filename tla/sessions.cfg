SPECIFICATION Spec
CONSTANTS
    Session = {s1, s2}
    Document = page
    Capacity = 1
    NoReservation = NoReservation
    File = {f1}
    Nobody = Nobody
    MaxGrants = 3
INVARIANTS NothingRunsOnceListed NoSlotLeaked WithinCapacity ManifestMeansComplete
PROPERTIES FilesKept
SYMMETRY Symmetry
CHECK_DEADLOCK FALSE
