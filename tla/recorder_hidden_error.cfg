CONSTANTS
  t1 = t1
  t2 = t2
  JS = JS
  Nobody = Nobody
  None = None
  NoFile = NoFile
  LateMessages = FALSE
  Threads <- TwoThreads
  Addresses <- Outer
  ProbesAt <- OneProbe
  InsProbes = {}
  KindOf <- MCKindOf
  Filtered = {}
  AnyThread = {}
  Required = {}
  BatchCapacity = 1
  YieldPoints = {}
  Faults = {"capture_leave"}
  MaxDepth = 1
  MaxStimuli = 3
  MaxFaults = 1
INIT Init
NEXT Next
SYMMETRY Symmetry
INVARIANTS AcceptedUnraised
