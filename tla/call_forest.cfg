CONSTANTS
  t1 = t1
  t2 = t2
  NoParent = NoParent
  Tids <- MCTids
  Ids <- MCIds
  Kinds <- MCKinds
  MaxEvents = 6
SPECIFICATION Spec
INVARIANTS TypeOK ParsedIffForest ParentIsInnermost InstructionsAttachedOnce ChildrenInEntryOrder SingleProbeIsFlat
\* the reader stops at the end of the file
CHECK_DEADLOCK FALSE
