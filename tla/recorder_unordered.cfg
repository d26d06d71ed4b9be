CONSTANTS
  t1 = t1
  t2 = t2
  JS = JS
  Nobody = Nobody
  None = None
  NoFile = NoFile
  LateMessages = FALSE
  Threads <- TwoThreads
  Addresses <- Outer
  ProbesAt <- OneProbe
  InsProbes = {}
  KindOf <- MCKindOf
  Filtered = {}
  AnyThread = {}
  Required = {}
  BatchCapacity = 1
  YieldPoints = {"send"}
  Faults = {}
  MaxDepth = 1
  MaxStimuli = 3
  MaxFaults = 0
INIT Init
NEXT Next
SYMMETRY Symmetry
INVARIANTS AcceptedKeepsDelivered
