SPECIFICATION SwSpec
CONSTANTS
    n1 = n1
    n2 = n2
    n3 = n3
    None = None
    Node = {n1, n2}
    HistoryMax = 1
    BackupsMax = 1
    Threshold = 1
    Mode = "Sync"
    FirstPrimary = n1
    Unpolled = {}
    MayCrash = {n2}
    MayLoseContact = {n1, n2}
    MayFall = TRUE
    MaxFaults = 1
    MaxRequests = 0
    MaxLag = 0
    SteadyReads = 1
    MaxReads = 3
    External = {}
    Requests = {"switchover"}
    MaxOperations = 1
    MaxCommits = 1
 
PROPERTIES
    NothingLost
    OperationsEnd
