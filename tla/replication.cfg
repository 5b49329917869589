SPECIFICATION Spec
CONSTANTS
  n1 = n1
  n2 = n2
  n3 = n3
  x = x
  Node = {n1, n2, n3}
  None = None
  HistoryMax = 1
  BackupsMax = 1
  FirstPrimary = n1
  FirstModes = {"Sync", "SyncStrict"}
  External = {}
  DegradeAfter = 1
  Modes = {"Async", "Sync", "SyncStrict"}
  MayCrash = {n1, n2}
  MayCut = {n2}
  MaxCommits = 1
  MaxLinkLosses = 1
  MaxModeChanges = 1
INVARIANTS
  TypeOK
  
PROPERTIES
  
  
  ReconcileSettles
