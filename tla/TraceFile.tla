------------------------------ MODULE TraceFile ------------------------------
(***************************************************************************)
(* The file a recording is kept in, by the lengths of its parts: a header, *)
(* the metadata padded to eight bytes, the events (trace_writer.py,        *)
(* finish), and what decode_trace makes of the first so many bytes of it   *)
(* (rrtrace/format.py).  A file can be short because the process that      *)
(* wrote it ended in the middle of write_bytes.                            *)
(***************************************************************************)
EXTENDS TraceEvents, SequencesExt

CONSTANTS
  MetadataBytes,   \* length of the metadata
  EventBytes       \* phase -> total_size of its events

FileHeaderBytes == 64
EventHeaderBytes == 40

ASSUME BytesAssumption ==
  /\ MetadataBytes \in Nat
  /\ \A phase \in Phases : /\ EventBytes[phase] \in Nat
                            /\ EventBytes[phase] >= EventHeaderBytes + 40
                            /\ EventBytes[phase] % 8 = 0

Refused == [refused |-> TRUE, events |-> <<>>]       \* TraceError
Trace(es) == [refused |-> FALSE, events |-> es]

MetadataEnd == FileHeaderBytes + MetadataBytes
EventsBegin == MetadataEnd + ((8 - (MetadataBytes % 8)) % 8)

(* Where event n of es begins in the file; event Len(es) + 1 is its end.   *)
Offset(es, n) ==
  LET end[k \in 0..Len(es)] ==
        IF k = 0 THEN EventsBegin ELSE end[k - 1] + EventBytes[es[k].phase]
  IN  end[n - 1]
FileBytes(es) == Offset(es, Len(es) + 1)

(* Mutant: the padding of the metadata is not skipped.                     *)
Unaligned == MetadataEnd

FirstEvent == ((MetadataEnd + 7) \div 8) * 8

WholeEvents(es, bytes) ==
  Cardinality({n \in DOMAIN es : Offset(es, n + 1) <= bytes})

(* The events of the first bytes of a file: an event that has a header but *)
(* not its whole length is refused, fewer bytes than a header are ignored. *)
(* A reader out of step with the writer meets no event header.             *)
DecodeTrace(es, bytes) ==
  LET n == WholeEvents(es, bytes)
  IN  IF \/ MetadataEnd > bytes
         \/ FirstEvent # EventsBegin /\ FirstEvent + EventHeaderBytes <= bytes
         \/ n < Len(es) /\ Offset(es, n + 1) + EventHeaderBytes <= bytes
        THEN Refused
        ELSE Trace(SubSeq(es, 1, n))

(* read_trace: _assemble refuses what is not a forest (CallForest).        *)
ReadTrace(es, bytes) ==
  IF DecodeTrace(es, bytes).refused \/ ~Forest(DecodeTrace(es, bytes).events)
    THEN Refused
    ELSE DecodeTrace(es, bytes)

(* Lengths at which the reader's answer may change, and one byte less.     *)
Edges(es) ==
  {FileHeaderBytes, MetadataEnd}
    \cup UNION {{Offset(es, n), Offset(es, n) + EventHeaderBytes} :
                  n \in 1..(Len(es) + 1)}
Cuts(es) == {b \in Edges(es) \cup {e - 1 : e \in Edges(es)} : b < FileBytes(es)}
=============================================================================
