SPECIFICATION FairSpec
CONSTANTS
  a = a
  b = b
  Hosts = {a, b}
  Enrolled = {a}
  None = None
  MaxRotations = 2
  MaxFaults = 1
INVARIANTS
  
  OldCaRetired
PROPERTIES
  RotationEnds
CHECK_DEADLOCK FALSE
