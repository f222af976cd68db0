SPECIFICATION FairSpec
CONSTANTS
    Session = {s1, s2}
    Document = page
    Capacity = 1
    NoReservation = NoReservation
    File = {}
    Nobody = Nobody
    MaxGrants = 2
PROPERTIES OperationsEnd
CHECK_DEADLOCK FALSE
