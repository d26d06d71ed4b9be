CONSTANTS
  t1 = t1
  t2 = t2
  JS = JS
  Nobody = Nobody
  None = None
  NoFile = NoFile
  LateMessages = TRUE
  Threads <- TwoThreads
  Addresses <- Outer
  ProbesAt <- OuterProbes
  InsProbes = {"point"}
  KindOf <- MCKindOf
  Filtered = {}
  AnyThread = {}
  Required = {"process"}
  BatchCapacity = 2
  YieldPoints = {}
  Faults = {"install", "drop", "send", "death", "capture_enter"}
  MaxDepth = 2
  MaxStimuli = 3
  MaxFaults = 1
INIT Init
NEXT Next
SYMMETRY Symmetry
INVARIANTS TypeOK AcceptedParses AcceptedComplete AcceptedUnraised
