CONSTANTS
  s1 = s1
  s2 = s2
  Refused = Refused
  Nothing = Nothing
  Numbers <- MCNumbers
  CasesPerKind = 2
  CasesPerConfig = 1
  MaxSamples <- Room
  MaxTroubles = 1
  Sessions <- MCSessions
  Jobs <- MCJobs
  Oracle <- MCOracle
SPECIFICATION Spec
INVARIANTS OutputIsOwn NoLeftovers PassMeansAgreement PassMeansSameCalls ClaimsHold CorrectPasses
