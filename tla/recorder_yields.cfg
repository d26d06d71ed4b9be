CONSTANTS
  t1 = t1
  t2 = t2
  JS = JS
  Nobody = Nobody
  None = None
  NoFile = NoFile
  LateMessages = TRUE
  Threads <- TwoThreads
  Addresses <- Outer
  ProbesAt <- OneProbe
  InsProbes = {}
  KindOf <- MCKindOf
  Filtered = {}
  AnyThread = {}
  Required = {}
  BatchCapacity = 1
  YieldPoints = {"clock", "send"}
  Faults = {"death"}
  MaxDepth = 1
  MaxStimuli = 3
  MaxFaults = 1
SPECIFICATION Spec
INVARIANTS FileIsPrefix AcceptedWhole
PROPERTIES KeepsContract HostTerminates
