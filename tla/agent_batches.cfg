CONSTANTS
  t1 = t1
  t2 = t2
  JS = JS
  Nobody = Nobody
  None = None
  Threads <- TwoThreads
  Addresses <- Single
  ProbesAt <- SingleProbes
  InsProbes = {}
  KindOf <- MCKindOf
  Filtered = {}
  AnyThread = {}
  BatchCapacity = 2
  YieldPoints = {"clock", "send"}
  Faults = {"send"}
  MaxDepth = 1
  MaxStimuli = 5
  MaxFaults = 1
SPECIFICATION AgentSpec
INVARIANTS AgentTypeOK Authentic AgentInv BatchesAreRuns NumbersUsedOnce
PROPERTIES CallbackReturns
\* the bound on stimuli ends every behaviour
CHECK_DEADLOCK FALSE
