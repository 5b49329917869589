SPECIFICATION Spec
CONSTANTS
    n1 = n1
    n2 = n2
    n3 = n3
    None = None
    Node = {n1, n2}
    HistoryMax = 1
    BackupsMax = 1
    Threshold = 1
    Mode = "Sync"
    FirstPrimary = n1
    External = {}
    Unpolled = {}
    MayCrash = {n1, n2}
    MayLoseContact = {n1, n2}
    MayFall = TRUE
    MaxFaults = 2
    MaxRequests = 0
PROPERTIES
    FailoverRetries
    StalePrimaryStops
