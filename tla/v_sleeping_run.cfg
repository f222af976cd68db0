SPECIFICATION Spec
CONSTANTS
    Session = {s1, s2}
    Document = page
    Capacity = 1
    NoReservation = NoReservation
    File = {f1}
    Nobody = Nobody
    MaxGrants = 2
SYMMETRY Symmetry
CHECK_DEADLOCK FALSE
INVARIANTS NoCodeWhileSleeping
