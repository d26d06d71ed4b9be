CONSTANTS
  t1 = t1
  t2 = t2
  NoFile = NoFile
  Unread = Unread
  Kinds <- MCKinds
  Tids <- MCTids
  MetadataBytes = 13
  EventBytes <- MCEventBytes
  Required = {"k"}
  Streams <- MCStreams
  Strays = {"waiting", "error"}
  MaxDeliveries = 7
SPECIFICATION Spec
INVARIANTS BufferFollowsNumbers ReadIsWritten
\* the stream is used up and the file written
CHECK_DEADLOCK FALSE
