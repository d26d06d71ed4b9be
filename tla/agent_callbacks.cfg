CONSTANTS
  t1 = t1
  t2 = t2
  JS = JS
  Nobody = Nobody
  None = None
  Threads <- OneThread
  Addresses <- OuterInner
  ProbesAt <- OuterInnerProbes
  InsProbes = {"point"}
  KindOf <- MCKindOf
  Filtered = {"helper"}
  AnyThread = {"audit"}
  BatchCapacity = 4
  YieldPoints = {"clock"}
  Faults = {"capture_enter", "capture_leave", "capture_hit", "drop", "install"}
  MaxDepth = 3
  MaxStimuli = 5
  MaxFaults = 1
INIT AgentInit
NEXT AgentNext
INVARIANTS LogsNest CountersExact
\* the bound on stimuli ends every behaviour
CHECK_DEADLOCK FALSE
