\* Two databases on three hosts.
SPECIFICATION Spec
CONSTANTS
    Databases = {d1, d2}
    Hosts = {h1, h2, h3}
    domain <- MCDomain
    HA_NODES = 2
    PortBlocks = 2
    Plans <- MCPlans
    MaxFaults = 1
    None = None
SYMMETRY Symmetric
INVARIANTS
    ClientsAfterBackup
    VotersKept
    ToldWhatToRun
    RotationsAnnounced
CHECK_DEADLOCK FALSE
