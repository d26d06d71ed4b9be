---------------------------- MODULE StreamProofs ----------------------------
(***************************************************************************)
(* Proofs about the writer and the reader of a file, for any stream of     *)
(* batches, delivered in any order and any number of times, and for any    *)
(* lengths of metadata and events: what is buffered follows the numbers of *)
(* the batches, and what is read of a file, whole or cut, is what was      *)
(* written.  Offset is a recursive function; the facts about   *)
(* it are proved by induction over sets of naturals (NatInd).              *)
(***************************************************************************)
EXTENDS BatchStream, SequenceLemmas, FiniteSetTheorems

(* The buffer.                                                             *)

AllEvents == EventSet(Kinds, Tids)
Contributions(k) == [n \in 1..k |-> Contribution(stream[n])]

FileInv == file # NoFile => file \in Seq(AllEvents)
StreamInv ==
  /\ stream \in Streams
  /\ nextBatch \in Nat \ {0} /\ nextBatch <= Len(stream) + 1
  /\ events \in Seq(AllEvents)
  /\ BufferFollowsNumbers
  /\ FileInv

LEMMA ContributionTyped ==
  ASSUME stream \in Streams
  PROVE  /\ stream \in Seq(Messages)
         /\ \A n \in DOMAIN stream : Contribution(stream[n]) \in Seq(AllEvents)
<1>1. stream \in Seq(Messages)
  BY StreamsAssumption
<1>2. ASSUME NEW n \in DOMAIN stream
      PROVE  Contribution(stream[n]) \in Seq(AllEvents)
  <2>1. stream[n] \in Messages
    BY <1>1
  <2>2. stream[n].recs \in Seq(AllEvents)
    BY <2>1 DEF Messages, AllEvents
  <2> QED BY <2>2 DEF Contribution
<1> QED BY <1>1, <1>2

LEMMA NextContribution ==
  ASSUME stream \in Streams, NEW k \in Nat, k + 1 \in DOMAIN stream
  PROVE  /\ Contributions(k) \in Seq(Seq(AllEvents))
         /\ Contributions(k + 1) = Append(Contributions(k), Contribution(stream[k + 1]))
<1>1. /\ \A n \in 1..(k + 1) : Contribution(stream[n]) \in Seq(AllEvents)
      /\ Contribution(stream[k + 1]) \in Seq(AllEvents)
  BY ContributionTyped
<1> DEFINE c == Contributions(k)
           d == Contributions(k + 1)
           x == Contribution(stream[k + 1])
<1>2. c \in Seq(Seq(AllEvents)) /\ Len(c) = k
  BY <1>1 DEF Contributions
<1>3. d \in Seq(Seq(AllEvents)) /\ Len(d) = k + 1
  BY <1>1 DEF Contributions
<1>4. d[k + 1] = x /\ \A i \in 1..k : d[i] = c[i]
  BY DEF Contributions
<1> HIDE DEF c, d, x
<1>5. /\ Append(c, x) \in Seq(Seq(AllEvents)) /\ Len(Append(c, x)) = k + 1
      /\ Append(c, x)[k + 1] = x /\ \A i \in 1..k : Append(c, x)[i] = c[i]
  BY <1>1, <1>2, AppendProperties DEF x
<1>6. d = Append(c, x)
  <2>1. \A i \in 1..(k + 1) : i = k + 1 \/ i \in 1..k
    OBVIOUS
  <2>2. \A i \in 1..Len(d) : d[i] = Append(c, x)[i]
    BY <1>3, <1>4, <1>5, <2>1
  <2> QED BY <1>3, <1>5, <2>2, SeqEqual
<1> QED BY <1>2, <1>6 DEF c, d, x

LEMMA OtherMessages ==
  ASSUME NEW m, OnMessage(m), ~AppendBatch(m)
  PROVE  UNCHANGED <<events, nextBatch>>
BY DEF OnMessage, writerVars

(* A message leaves the buffer and the number the writer expects alone, or *)
(* it is the batch of that number and the buffer takes what it contributes.*)
LEMMA MessageTakesContribution ==
  ASSUME StreamInv, NEW n \in DOMAIN stream, OnMessage(stream[n])
  PROVE  \/ UNCHANGED <<events, nextBatch>>
         \/ /\ n = nextBatch /\ nextBatch' = nextBatch + 1
            /\ events' = events \o Contribution(stream[n])
<1> DEFINE m == stream[n]
<1>1. stream[n].number = n /\ stream[n] \in Messages
  BY StreamsAssumption DEF StreamInv
<1>2. m.declared \in Int /\ m.sized \in BOOLEAN
  BY <1>1 DEF Messages
<1>3. events \o <<>> = events
  BY DEF StreamInv
<1>4. CASE OutOfOrder(m) \/ WithoutData(m)
  BY <1>4 DEF OutOfOrder, WithoutData
<1>5. CASE Misshapen(m)
  <2>1. Contribution(m) = <<>>
    BY <1>2, <1>5 DEF Misshapen, Contribution
  <2> QED BY <1>1, <1>3, <1>5, <2>1 DEF Misshapen
<1>6. CASE Torn(m) \/ Appended(m)
  <2>1. Contribution(m) = m.recs
    BY <1>6 DEF Torn, Appended, Consumed, Contribution
  <2> QED BY <1>1, <1>6, <2>1 DEF Torn, Appended, Consumed
<1>7. CASE ~AppendBatch(m)
  BY <1>7, OtherMessages
<1> QED BY <1>4, <1>5, <1>6, <1>7 DEF AppendBatch

LEMMA StrayFollows ==
  ASSUME StreamInv, NEW type \in Strays, Deliver([type |-> type])
  PROVE  StreamInv'
<1>1. UNCHANGED <<stream, file>> /\ OnMessage([type |-> type])
  BY DEF Deliver, fileVars
<1>2. [type |-> type].type # "batch"
  BY StreamsAssumption
<1>3. UNCHANGED <<events, nextBatch>>
  BY <1>1, <1>2 DEF OnMessage, writerVars
<1> QED BY <1>1, <1>3 DEF StreamInv, BufferFollowsNumbers, FileInv

LEMMA DeliverFollows ==
  ASSUME StreamInv, NEW n \in DOMAIN stream, Deliver(stream[n])
  PROVE  StreamInv'
<1>1. UNCHANGED <<stream, file>> /\ OnMessage(stream[n])
  BY DEF Deliver, fileVars
<1>2. stream \in Seq(Messages) /\ n \in 1..Len(stream) /\ Len(stream) \in Nat
  BY ContributionTyped DEF StreamInv
<1>3. CASE UNCHANGED <<events, nextBatch>>
  BY <1>1, <1>3 DEF StreamInv, BufferFollowsNumbers, FileInv
<1>4. CASE n = nextBatch /\ nextBatch' = nextBatch + 1
           /\ events' = events \o Contribution(stream[n])
  <2> PICK k \in Nat : k = nextBatch - 1
    BY DEF StreamInv
  <2>1. k + 1 = nextBatch /\ k + 1 \in DOMAIN stream /\ nextBatch' - 1 = k + 1
    BY <1>4 DEF StreamInv
  <2>2. events = FlattenSeq(Contributions(k))
    BY DEF StreamInv, BufferFollowsNumbers, Contributions
  <2>3. FlattenSeq(Contributions(k + 1))
          = FlattenSeq(Contributions(k)) \o Contribution(stream[k + 1])
    BY <2>1, NextContribution, ContributionTyped, FlattenAppends DEF StreamInv
  <2>4. events' = FlattenSeq(Contributions(k + 1))
    BY <1>4, <2>1, <2>2, <2>3
  <2>5. BufferFollowsNumbers'
    BY <1>1, <2>1, <2>4 DEF BufferFollowsNumbers, Contributions
  <2>6. events' \in Seq(AllEvents)
    BY <1>4, ContributionTyped DEF StreamInv
  <2> QED BY <1>1, <1>2, <1>4, <2>5, <2>6 DEF StreamInv, FileInv
<1> QED BY <1>1, <1>3, <1>4, MessageTakesContribution

LEMMA StreamInvariant == Spec => []StreamInv
<1>1. Init => StreamInv
  <2> SUFFICES ASSUME Init PROVE StreamInv
    OBVIOUS
  <2>1. stream \in Streams /\ events = <<>> /\ nextBatch = 1 /\ file = NoFile
    BY DEF Init, WriterInit
  <2>2. Len(stream) \in Nat
    BY <2>1, ContributionTyped
  <2>3. [n \in 1..(1 - 1) |-> Contribution(stream[n])] = <<>>
    OBVIOUS
  <2> QED BY <2>1, <2>2, <2>3, FlattenEmpty DEF StreamInv, BufferFollowsNumbers, FileInv
<1>2. StreamInv /\ [Next]_vars => StreamInv'
  <2> SUFFICES ASSUME StreamInv, [Next]_vars PROVE StreamInv'
    OBVIOUS
  <2>1. CASE UNCHANGED vars
    BY <2>1 DEF vars, writerVars, fileVars, StreamInv, BufferFollowsNumbers, FileInv
  <2>2. ASSUME NEW length, Writes(length) PROVE StreamInv'
    BY <2>2 DEF Writes, writerVars, StreamInv, BufferFollowsNumbers, FileInv
  <2>3. CASE Read
    BY <2>3 DEF Read, writerVars, StreamInv, BufferFollowsNumbers, FileInv
  <2>4. CASE Delivery
    BY <2>4, DeliverFollows, StrayFollows DEF Delivery
  <2> QED BY <2>1, <2>2, <2>3, <2>4 DEF Next, Finish, FinishKilled
<1> QED BY <1>1, <1>2, PTL DEF Spec

(* Whatever is lost, repeated or reordered, the buffer is what the batches *)
(* 1 .. _next_batch - 1 contribute, each once and in the order of their    *)
(* numbers (trace_writer.py, _append_batch).                               *)
THEOREM BufferFollows == Spec => []BufferFollowsNumbers
<1>1. StreamInv => BufferFollowsNumbers
  BY DEF StreamInv
<1> QED BY <1>1, StreamInvariant, PTL

-----------------------------------------------------------------------------
(* Offsets: Ends is what the recursive function of Offset obeys.  They     *)
(* grow, so the whole of a file holds all of its events.                   *)

Ends(es, n, end) ==
  \A k \in 0..n : end[k] = IF k = 0 THEN EventsBegin
                                    ELSE end[k - 1] + EventBytes[es[k].phase]

LEMMA HeaderFacts ==
  /\ EventsBegin \in Nat /\ MetadataEnd \in Nat /\ MetadataEnd <= EventsBegin
  /\ FirstEvent = EventsBegin
<1>1. PICK m \in Nat : m = MetadataBytes
  BY BytesAssumption
<1>2. (8 - (m % 8)) % 8 \in Nat
  OBVIOUS
<1>3. ((64 + m + 7) \div 8) * 8 = 64 + m + ((8 - (m % 8)) % 8)
  OBVIOUS
<1> QED BY <1>1, <1>2, <1>3 DEF EventsBegin, MetadataEnd, FirstEvent, FileHeaderBytes

LEMMA LengthOfEvent ==
  ASSUME NEW es \in Seq(AllEvents), NEW k \in 1..Len(es)
  PROVE  EventBytes[es[k].phase] \in Nat
<1>1. es[k] \in AllEvents
  OBVIOUS
<1>2. es[k].phase \in Phases
  BY <1>1 DEF AllEvents, EventSet
<1> QED BY <1>2, BytesAssumption

LEMMA EndsExist ==
  ASSUME NEW es \in Seq(AllEvents)
  PROVE  \E end \in [0..Len(es) -> Nat] : Ends(es, Len(es), end)
<1> DEFINE Good == {n \in Nat : n <= Len(es) =>
                      \E end \in [0..n -> Nat] : Ends(es, n, end)}
<1>1. 0 \in Good
  <2> DEFINE end == [k \in 0..0 |-> EventsBegin]
  <2>1. end \in [0..0 -> Nat] /\ Ends(es, 0, end)
    BY HeaderFacts DEF Ends
  <2> QED BY <2>1
<1>2. ASSUME NEW n \in Nat, n \in Good PROVE n + 1 \in Good
  <2> SUFFICES ASSUME n + 1 <= Len(es)
               PROVE  \E end \in [0..(n + 1) -> Nat] : Ends(es, n + 1, end)
    OBVIOUS
  <2>1. PICK f \in [0..n -> Nat] : Ends(es, n, f)
    BY <1>2
  <2> DEFINE last == f[n] + EventBytes[es[n + 1].phase]
             g == [k \in 0..(n + 1) |-> IF k = n + 1 THEN last ELSE f[k]]
  <2>2. last \in Nat
    BY <2>1, LengthOfEvent
  <2>3. g \in [0..(n + 1) -> Nat]
    BY <2>1, <2>2
  <2>4. ASSUME NEW k \in 0..(n + 1)
        PROVE  g[k] = IF k = 0 THEN EventsBegin ELSE g[k - 1] + EventBytes[es[k].phase]
    <3>1. CASE k = n + 1
      <4>1. n \in 0..(n + 1) /\ n # n + 1 /\ k - 1 = n /\ k # 0
        BY <3>1
      <4>2. g[n] = f[n]
        BY <4>1
      <4> HIDE DEF g
      <4>3. g[k] = last
        BY <3>1 DEF g
      <4> QED BY <3>1, <4>1, <4>2, <4>3
    <3>2. CASE k \in 0..n
      <4>1. k # n + 1 /\ (k # 0 => k - 1 \in 0..(n + 1) /\ k - 1 # n + 1)
        BY <3>2
      <4>2. g[k] = f[k] /\ (k # 0 => g[k - 1] = f[k - 1])
        BY <4>1
      <4> HIDE DEF g
      <4> QED BY <2>1, <3>2, <4>2 DEF Ends
    <3> QED BY <3>1, <3>2
  <2> HIDE DEF g
  <2> QED BY <2>3, <2>4 DEF Ends
<1> HIDE DEF Good
<1>3. Nat \subseteq Good
  BY <1>1, <1>2, NatInd
<1>4. Len(es) \in Good
  BY <1>3
<1> QED BY <1>4 DEF Good

LEMMA OffsetEnds ==
  ASSUME NEW es \in Seq(AllEvents)
  PROVE  \E end : /\ Ends(es, Len(es), end)
                  /\ \A n \in 1..(Len(es) + 1) : Offset(es, n) = end[n - 1]
<1> DEFINE Def(f) == f = [k \in 0..Len(es) |->
                            IF k = 0 THEN EventsBegin ELSE f[k - 1] + EventBytes[es[k].phase]]
           h == CHOOSE f : Def(f)
<1>1. PICK f \in [0..Len(es) -> Nat] : Ends(es, Len(es), f)
  BY EndsExist
<1>2. Def(f)
  BY <1>1 DEF Ends
<1>3. Def(h)
  BY <1>2
<1>4. \A n \in 1..(Len(es) + 1) : Offset(es, n) = h[n - 1]
  BY DEF Offset
<1>5. Ends(es, Len(es), h)
  <2> HIDE DEF h
  <2> QED BY <1>3 DEF Ends
<1> HIDE DEF h, Def
<1> QED BY <1>4, <1>5

LEMMA OffsetsGrow ==
  ASSUME NEW es \in Seq(AllEvents)
  PROVE  /\ \A n \in 0..Len(es) : Offset(es, n + 1) \in Nat
         /\ \A n \in 0..Len(es) : EventsBegin <= Offset(es, n + 1)
         /\ \A n \in 0..Len(es) : Offset(es, n + 1) <= FileBytes(es)
<1> PICK l \in Nat : l = Len(es)
  OBVIOUS
<1>1. PICK end : /\ Ends(es, l, end)
                 /\ \A n \in 1..(l + 1) : Offset(es, n) = end[n - 1]
  BY OffsetEnds
<1>2. \A n \in 0..l : Offset(es, n + 1) = end[n]
  <2> TAKE n \in 0..l
  <2>1. n + 1 \in 1..(l + 1) /\ (n + 1) - 1 = n
    OBVIOUS
  <2> QED BY <1>1, <2>1
<1> DEFINE Up == {n \in Nat : n <= l => end[n] \in Nat /\ EventsBegin <= end[n]}
           Down == {n \in Nat : n <= l => end[l - n] <= end[l]}
<1>3. ASSUME NEW n \in Nat, n + 1 <= l
      PROVE  /\ end[n + 1] = end[n] + EventBytes[es[n + 1].phase]
             /\ EventBytes[es[n + 1].phase] \in Nat
  <2>1. n + 1 \in 0..l /\ n + 1 # 0 /\ (n + 1) - 1 = n /\ n + 1 \in 1..Len(es)
    BY <1>3
  <2> QED BY <1>1, <2>1, LengthOfEvent DEF Ends
<1>4. end[0] = EventsBegin
  BY <1>1 DEF Ends
<1>5. Nat \subseteq Up
  <2>1. 0 \in Up
    BY <1>4, HeaderFacts
  <2>2. ASSUME NEW n \in Nat, n \in Up PROVE n + 1 \in Up
    <3> SUFFICES ASSUME n + 1 <= l PROVE end[n + 1] \in Nat /\ EventsBegin <= end[n + 1]
      OBVIOUS
    <3>1. n <= l
      OBVIOUS
    <3>2. end[n] \in Nat /\ EventsBegin <= end[n] /\ EventsBegin \in Nat
      BY <2>2, <3>1, HeaderFacts
    <3>3. end[n] + EventBytes[es[n + 1].phase] \in Nat
          /\ end[n] <= end[n] + EventBytes[es[n + 1].phase]
      BY <1>3, <3>2
    <3> QED BY <1>3, <3>2, <3>3
  <2> HIDE DEF Up
  <2> QED BY <2>1, <2>2, NatInd
<1>6. \A n \in 0..l : end[n] \in Nat /\ EventsBegin <= end[n]
  BY <1>5
<1>7. Nat \subseteq Down
  <2>1. 0 \in Down
    <3>1. l - 0 = l /\ end[l] \in Nat
      BY <1>6
    <3> QED BY <3>1
  <2>2. ASSUME NEW n \in Nat, n \in Down PROVE n + 1 \in Down
    <3> SUFFICES ASSUME n + 1 <= l PROVE end[l - (n + 1)] <= end[l]
      OBVIOUS
    <3>1. PICK k \in Nat : k = l - (n + 1)
      OBVIOUS
    <3>2. n <= l /\ l - n = k + 1 /\ k + 1 <= l /\ k \in 0..l /\ l \in 0..l
      BY <3>1
    <3>3. end[k + 1] <= end[l]
      BY <2>2, <3>2
    <3>4. end[k + 1] = end[k] + EventBytes[es[k + 1].phase]
          /\ EventBytes[es[k + 1].phase] \in Nat
      BY <1>3, <3>2
    <3>5. end[k] \in Nat /\ end[l] \in Nat
      BY <1>6, <3>2
    <3>6. end[k] <= end[l]
      BY <3>3, <3>4, <3>5
    <3> QED BY <3>1, <3>6
  <2> HIDE DEF Down
  <2> QED BY <2>1, <2>2, NatInd
<1>8. ASSUME NEW n \in 0..l PROVE end[n] <= end[l]
  <2>1. l - n \in Nat /\ l - n <= l /\ l - (l - n) = n
    OBVIOUS
  <2>2. l - n \in Down
    BY <1>7, <2>1
  <2> QED BY <2>1, <2>2
<1>9. FileBytes(es) = end[l]
  BY <1>2 DEF FileBytes
<1> HIDE DEF Up, Down
<1> QED BY <1>2, <1>6, <1>8, <1>9

LEMMA WholeEventsBounds ==
  ASSUME NEW es \in Seq(AllEvents), NEW b
  PROVE  /\ WholeEvents(es, b) \in 0..Len(es)
         /\ b = FileBytes(es) => WholeEvents(es, b) = Len(es)
<1> DEFINE W == {n \in DOMAIN es : Offset(es, n + 1) <= b}
<1>1. /\ DOMAIN es = 1..Len(es) /\ Len(es) \in Nat
      /\ IsFiniteSet(1..Len(es)) /\ Cardinality(1..Len(es)) = Len(es)
  <2>1. PICK l \in Nat : l = Len(es) /\ DOMAIN es = 1..l
    OBVIOUS
  <2>2. /\ IsFiniteSet(1..l) /\ Cardinality(1..l) = IF 1 > l THEN 0 ELSE l - 1 + 1
    BY FS_Interval
  <2>3. Cardinality(1..l) = l
    BY <2>2
  <2> QED BY <2>1, <2>2, <2>3
<1>2. W \in SUBSET (1..Len(es))
  BY <1>1
<1>3. Cardinality(W) \in Nat /\ Cardinality(W) <= Len(es)
  BY <1>1, <1>2, FS_Subset, FS_CardinalityType
<1>4. ASSUME b = FileBytes(es) PROVE W = 1..Len(es)
  <2>1. \A n \in 1..Len(es) : n \in 0..Len(es)
    BY <1>1
  <2> QED BY <1>1, <1>4, <2>1, OffsetsGrow
<1>5. WholeEvents(es, b) = Cardinality(W)
  BY DEF WholeEvents
<1> HIDE DEF W
<1>6. WholeEvents(es, b) \in 0..Len(es)
  BY <1>1, <1>3, <1>5
<1> QED BY <1>1, <1>4, <1>5, <1>6

-----------------------------------------------------------------------------
(* Reading.                                                                *)

(* The events of a file nest: what AgentProofs shows of the logs of        *)
(* threads without a fault.                                                *)
FileNests == file # NoFile => Nests(file)

ReadInv ==
  /\ file = NoFile => trace = Unread
  /\ trace # Unread => trace = ReadTrace(file, bytes)

LEMMA ReadInvariant == Spec => []ReadInv
<1>1. Init => ReadInv
  BY DEF Init, ReadInv
<1>2. ReadInv /\ [Next]_vars => ReadInv'
  BY DEF ReadInv, Next, vars, fileVars, Finish, FinishKilled, Writes, Read, Deliver, Delivery
<1> QED BY <1>1, <1>2, PTL DEF Spec

LEMMA ReadsOfFiles ==
  ASSUME NEW es \in Seq(AllEvents), NEW b
  PROVE  /\ ~ReadTrace(es, b).refused =>
              /\ IsPrefix(ReadTrace(es, b).events, es)
              /\ Forest(ReadTrace(es, b).events)
         /\ b = FileBytes(es) /\ Nests(es) =>
              ReadTrace(es, b) = IF Complete(es) THEN Trace(es) ELSE Refused
<1> DEFINE n == WholeEvents(es, b)
           d == DecodeTrace(es, b)
           r == ReadTrace(es, b)
<1>1. n \in 0..Len(es) /\ Len(es) \in Nat
  BY WholeEventsBounds
<1>2. d = Refused \/ d = Trace(SubSeq(es, 1, n))
  BY DEF DecodeTrace
<1>3. \A fs : /\ Refused.refused /\ ~Trace(fs).refused /\ Trace(fs).events = fs
  BY DEF Refused, Trace
<1>4. IsPrefix(SubSeq(es, 1, n), es)
  <2> DEFINE p == SubSeq(es, 1, n)
  <2>1. p \in Seq(AllEvents) /\ Len(p) = n /\ \A i \in 1..n : p[i] = es[i]
    BY <1>1
  <2>2. SubSeq(p, 1, n) = p
    BY <2>1
  <2> QED BY <1>1, <2>1, <2>2 DEF IsPrefix
<1>5. r = Refused \/ (r = d /\ ~d.refused /\ Forest(d.events))
  BY DEF ReadTrace
<1> HIDE DEF r, n
<1>6. ~r.refused => IsPrefix(r.events, es) /\ Forest(r.events)
  BY <1>2, <1>3, <1>4, <1>5
<1>7. ASSUME b = FileBytes(es), Nests(es)
      PROVE  r = IF Complete(es) THEN Trace(es) ELSE Refused
  <2>1. n = Len(es) /\ SubSeq(es, 1, Len(es)) = es
    BY <1>7, WholeEventsBounds DEF n
  <2>2. Offset(es, Len(es) + 1) = b /\ EventsBegin <= b /\ b \in Nat
    <3>1. Len(es) \in 0..Len(es)
      BY <1>1
    <3> QED BY <1>7, <3>1, OffsetsGrow DEF FileBytes
  <2>3. ~(MetadataEnd > b) /\ FirstEvent = EventsBegin
    BY <2>2, HeaderFacts
  <2>4. ~(n < Len(es))
    BY <1>1, <2>1
  <2>5. d = Trace(SubSeq(es, 1, n))
    BY <2>3, <2>4 DEF DecodeTrace, n
  <2>6. d = Trace(es)
    BY <2>1, <2>5
  <2> QED BY <1>3, <1>7, <2>6 DEF ReadTrace, Forest, r
<1> QED BY <1>6, <1>7 DEF r

(* Of files that nest, decode_trace and _assemble give back exactly what   *)
(* finish() wrote when the file is whole and its calls have returned, and  *)
(* the first events of it, or a TraceError, when the host died while it    *)
(* wrote it (format.py:114-160).                                           *)
THEOREM ReadsAreFaithful == Spec /\ []FileNests => []ReadIsWritten
<1>1. StreamInv /\ ReadInv /\ FileNests => ReadIsWritten
  <2> SUFFICES ASSUME StreamInv, ReadInv, FileNests, trace # Unread
               PROVE  /\ ~trace.refused => IsPrefix(trace.events, file) /\ Forest(trace.events)
                      /\ bytes = FileBytes(file) =>
                           trace = (IF Complete(file) THEN Trace(file) ELSE Refused)
    BY DEF ReadIsWritten
  <2>1. file \in Seq(AllEvents) /\ Nests(file) /\ trace = ReadTrace(file, bytes)
    BY DEF StreamInv, FileInv, ReadInv, FileNests
  <2> QED BY <2>1, ReadsOfFiles
<1> QED BY <1>1, StreamInvariant, ReadInvariant, PTL
=============================================================================
