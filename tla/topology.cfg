SPECIFICATION Spec
CONSTANTS
  Node = {n1, n2}
  None = None
  HistoryMax = 1
  BackupsMax = 1
  Instance = {i1, i2}
  Command <- EveryCommand
  MaxLog = 2
INVARIANTS
  TypeOK
  OnePrimary
  ReplicasAgree
PROPERTY
  ImplementsLog
SYMMETRY Instances
