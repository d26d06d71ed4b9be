----------------------------- MODULE BatchStream -----------------------------
(***************************************************************************)
(* The writer against a channel that may lose, repeat and reorder: of a    *)
(* stream of numbered batches, well formed or not, any may be delivered at *)
(* any time, and finish() may be called at any time.  The agent's own      *)
(* channel (Recorder) repeats nothing, but can post batches out of order.  *)
(* The host may die while it writes the file; the file, whole or not, is   *)
(* then read.                                                              *)
(***************************************************************************)
EXTENDS Integers, TraceWriter, TraceFile

CONSTANTS
  Kinds, Tids,    \* probe kinds and thread ids that occur in the events
  Streams,        \* the streams of batch messages; batch n of one has number n
  Strays,         \* types of the messages between them
  NoFile,
  Unread,
  MaxDeliveries   \* bound

Messages ==
  [type : {"batch"}, data : BOOLEAN, number : Nat, declared : Int, sized : BOOLEAN, torn : BOOLEAN,
   recs : Seq(EventSet(Kinds, Tids))]

ASSUME StreamsAssumption ==
  /\ Streams \subseteq Seq(Messages)
  /\ \A posts \in Streams : \A n \in DOMAIN posts : posts[n].number = n
  /\ "batch" \notin Strays

VARIABLES
  stream,         \* what the agent posted
  delivered,      \* deliveries so far
  file,           \* the events finish() wrote
  bytes,          \* how many bytes of the file are on the disk
  trace           \* what read_trace() makes of them

fileVars == <<file, bytes, trace>>
vars == <<writerVars, stream, delivered, fileVars>>

Init ==
  /\ WriterInit
  /\ stream \in Streams /\ delivered = 0
  /\ file = NoFile /\ bytes = 0 /\ trace = Unread

Deliver(m) ==
  /\ file = NoFile
  /\ delivered < MaxDeliveries
  /\ delivered' = delivered + 1
  /\ OnMessage(m)
  /\ UNCHANGED <<stream, fileVars>>

Delivery ==
  \/ \E n \in DOMAIN stream : Deliver(stream[n])
  \/ \E type \in Strays : Deliver([type |-> type])

(* finish() writes the file unless it finds an orphan or a gap.            *)
Writes(length) ==
  /\ file = NoFile
  /\ Orphans(events) = {} /\ Contiguous(events)
  /\ file' = events
  /\ bytes' = length
  /\ UNCHANGED <<writerVars, stream, delivered, trace>>

Finish == Writes(FileBytes(events))
FinishKilled == \E length \in Cuts(events) : Writes(length)

Read ==
  /\ file # NoFile /\ trace = Unread
  /\ trace' = ReadTrace(file, bytes)
  /\ UNCHANGED <<writerVars, stream, delivered, file, bytes>>

Next == Finish \/ FinishKilled \/ Read \/ Delivery

Spec == Init /\ [][Next]_vars

-----------------------------------------------------------------------------
(* The events a batch contributes: none when its shape is refused, else    *)
(* the whole ones.  One without data never comes to its number.            *)
Contribution(m) == IF m.sized /\ m.declared > 0 THEN m.recs ELSE <<>>

(* Whatever is lost, repeated or reordered, the buffer is the contribution *)
(* of the batches 1 .. nextBatch - 1, each once and in their order.        *)
BufferFollowsNumbers ==
  events = FlattenSeq([n \in 1..(nextBatch - 1) |-> Contribution(stream[n])])

(* What is read is what was written: a whole file gives back every event   *)
(* finish() wrote, or is refused because a call in it is open; a file cut  *)
(* anywhere by the death of its writer is refused or gives its first       *)
(* events, never others and never half a call (format.py:114-140).         *)
ReadIsWritten ==
  trace # Unread =>
    /\ ~trace.refused => IsPrefix(trace.events, file) /\ Forest(trace.events)
    /\ bytes = FileBytes(file) =>
         trace = (IF Complete(file) THEN Trace(file) ELSE Refused)
=============================================================================
