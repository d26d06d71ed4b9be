CONSTANTS
  fixture = fixture
  worker = worker
  Absent = Absent
  ProbesDirs <- MCProbesDirs
  Listed <- MCListed
  Pinned = "pinned"
  Modules <- MCModules
  MaxLoads = 2
  Fixture = fixture
  Workers <- MCWorkers
  FixtureCalls = 3
  MaxWorkerCalls = 1
  MaxClock = 2
SPECIFICATION Spec
INVARIANTS AttachedIsVerified ReadyAttachedOnce ClaimsAreRecorded AlonePasses PassUsesOwnReadings
PROPERTIES SessionEnds
