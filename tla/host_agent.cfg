SPECIFICATION FairSpec
CONSTANTS
  a = a
  b = b
  Instances = {a, b}
  None = None
  Plans <- MCPlans
  Preloaded <- MCPreloaded
  MaxFaults = 2
INVARIANTS
  ReportedIsLoaded
  

  
  
CHECK_DEADLOCK FALSE
