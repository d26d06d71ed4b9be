CONSTANTS
  Declarations <- MCDeclarations
  ArgSources = {"arg0"}
  Arguments <- MCArguments
  LastArg = 5
  Word = 16
  LinkRegister = 34
  FlagBits = 2
SPECIFICATION Spec
INVARIANTS PartsAreCaptured LeaveReadsEntryBuffers
\* one probe is hit once
CHECK_DEADLOCK FALSE
