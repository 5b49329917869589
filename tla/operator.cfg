SPECIFICATION SwSpec
CONSTANTS
    n1 = n1
    n2 = n2
    n3 = n3
    None = None
    Node = {n1, n2, n3}
    HistoryMax = 1
    BackupsMax = 1
    Threshold = 2
    Mode = "Sync"
    FirstPrimary = n1
    Unpolled = {}
    MayCrash = {}
    MayLoseContact = {}
    MayFall = FALSE
    MaxFaults = 0
    MaxRequests = 0
    MaxLag = 0
    SteadyReads = 1
    MaxReads = 2
    External = {n3}
    Requests = {"restart", "maintenance", "nodes", "seed", "detach"}
    MaxOperations = 2
    MaxCommits = 0
INVARIANTS
    RestartsOneAtATime

    
