SPECIFICATION Spec
CONSTANTS
    n1 = n1
    n2 = n2
    n3 = n3
    None = None
    Node = {n1, n2, n3}
    HistoryMax = 1
    BackupsMax = 1
    Threshold = 1
    Mode = "Sync"
    FirstPrimary = n1
    External = {}
    Unpolled = {}
    MayCrash = {n1, n2, n3}
    MayLoseContact = {n1, n2, n3}
    MayFall = TRUE
    MaxFaults = 1
    MaxRequests = 1
INVARIANTS
    TypeOK
    OneOperation
PROPERTIES
    RewindsOutsideFailover
    
    RecordsOnlyPrimaries
SYMMETRY Others
