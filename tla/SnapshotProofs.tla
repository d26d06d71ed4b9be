---------------------------- MODULE SnapshotProofs ----------------------------
(***************************************************************************)
(* Proofs about snapshots, for any declarations, arguments, pointer        *)
(* sources and room for flags.  SnapInv says that what an event holds is   *)
(* what can still be computed from the declarations and the call; that the *)
(* reader's cursor is then where each captured piece begins, and overruns  *)
(* the event exactly after a register that could not be read, provided the *)
(* recorded registers give the lengths back, is a matter of sequences      *)
(* alone (FlattenSegments).                                                *)
(***************************************************************************)
EXTENDS Snapshots, SequenceLemmas

(* The verdict on what the reader returned.                                *)
Right(phase, result) ==
  \/ result = Returned(Captured(phase))
  \/ /\ result = Rejected
     /\ \/ Len(Selected(phase)) > FlagBits
        \/ Outside(phase) \/ FailedRegister(phase)

(* The recorded registers give every length back.                          *)
Found(phase) == ~LinkMistaken(phase) /\ ~Outside(phase)

Phases == {"enter", "leave", "instruction"}

CallInv ==
  /\ defs \in Declarations /\ args \in Arguments
  /\ moment \in {"before", "entered", "over", "thrown"}
  /\ DOMAIN event \subseteq Phases
  /\ moment = "before" => DOMAIN event = {}
  /\ moment = "entered" => DOMAIN event = {"enter"}
  /\ "leave" \in DOMAIN event => "enter" \in DOMAIN event
  /\ invocation = [s \in DOMAIN invocation |-> <<"enter", s>>]

RecordInv ==
  \A phase \in DOMAIN event : event[phase] = Recorded(phase) /\ ~Throws(phase)

SnapInv == CallInv /\ RecordInv /\ DOMAIN parts \subseteq DOMAIN event

-----------------------------------------------------------------------------
(* Sequences of bytes.                                                     *)

LEMMA BytesAre ==
  ASSUME NEW S, NEW from, NEW size \in Nat, \A n \in Nat : [from |-> from, n |-> n] \in S
  PROVE  Bytes(from, size) \in Seq(S) /\ Len(Bytes(from, size)) = size
<1>1. \A n \in 1..size : [from |-> from, n |-> n] \in S
  OBVIOUS
<1> QED BY <1>1 DEF Bytes

LEMMA ZerosAre ==
  ASSUME NEW S, Zero \in S, NEW size \in Nat
  PROVE  /\ Zeros(size) \in Seq(S) /\ Len(Zeros(size)) = size
         /\ \A n \in 1..size : Zeros(size)[n] = Zero
<1> DEFINE z == Zero
<1> HIDE DEF z
<1>1. [n \in 1..size |-> z] \in Seq(S) /\ Len([n \in 1..size |-> z]) = size
  BY DEF z
<1> QED BY <1>1 DEF Zeros, z

LEMMA PaddedRun ==
  ASSUME NEW S, Zero \in S, NEW raw \in Seq(S)
  PROVE  LET run == Padded(raw)
         IN  /\ run \in Seq(S) /\ Len(run) % 8 = 0
             /\ Len(raw) <= Len(run) /\ Len(run) < Len(raw) + 8
             /\ \A n \in 1..Len(raw) : run[n] = raw[n]
             /\ \A n \in (Len(raw) + 1)..Len(run) : run[n] = Zero
<1>1. PICK l \in Nat : l = Len(raw)
  OBVIOUS
<1>2. PICK p \in Nat : p = (8 - (l % 8)) % 8 /\ p < 8 /\ (l + p) % 8 = 0
  OBVIOUS
<1>3. PICK pad \in Seq(S) : /\ pad = Zeros(p) /\ Len(pad) = p
                            /\ \A n \in 1..p : pad[n] = Zero
  BY ZerosAre
<1>4. Padded(raw) = raw \o pad
  BY <1>1, <1>2, <1>3 DEF Padded
<1>5. /\ raw \o pad \in Seq(S) /\ Len(raw \o pad) = Len(raw) + Len(pad)
      /\ \A n \in 1..(Len(raw) + Len(pad)) :
           (raw \o pad)[n] = IF n <= Len(raw) THEN raw[n] ELSE pad[n - Len(raw)]
  BY ConcatProperties
<1>6. /\ Len(raw \o pad) = l + p
      /\ \A n \in 1..(l + p) : (raw \o pad)[n] = IF n <= l THEN raw[n] ELSE pad[n - l]
  BY <1>1, <1>3, <1>5
<1>7. \A n \in (l + 1)..(l + p) : (raw \o pad)[n] = Zero
  <2> SUFFICES ASSUME NEW n \in (l + 1)..(l + p) PROVE (raw \o pad)[n] = Zero
    OBVIOUS
  <2>1. n \in 1..(l + p) /\ ~(n <= l) /\ n - l \in 1..p
    OBVIOUS
  <2> QED BY <1>3, <1>6, <2>1
<1>8. \A n \in 1..l : (raw \o pad)[n] = raw[n]
  BY <1>6
<1>9. PICK run : run = raw \o pad
  OBVIOUS
<1>10. /\ run \in Seq(S) /\ Len(run) = l + p
       /\ \A n \in (l + 1)..(l + p) : run[n] = Zero
       /\ \A n \in 1..l : run[n] = raw[n]
  BY <1>5, <1>6, <1>7, <1>8, <1>9
<1>11. Len(run) % 8 = 0 /\ l <= Len(run) /\ Len(run) < l + 8
  BY <1>2, <1>10
<1>12. \A n \in (l + 1)..Len(run) : run[n] = Zero
  BY <1>10
<1> QED BY <1>1, <1>4, <1>9, <1>10, <1>11, <1>12

(* A piece cut out where it was put in.                                    *)
LEMMA CutOut ==
  ASSUME NEW S, NEW run \in Seq(S), NEW piece \in Seq(S), NEW a \in Nat,
         a + Len(piece) <= Len(run), \A i \in 1..Len(piece) : run[a + i] = piece[i]
  PROVE  SubSeq(run, a + 1, a + Len(piece)) = piece
<1>1. PICK l \in Nat : l = Len(piece)
  OBVIOUS
<1>2. PICK cut : cut = SubSeq(run, a + 1, a + l)
  OBVIOUS
<1>3. \A i \in (a + 1)..(a + l) : run[i] \in S
  BY <1>1, ElementOfSeq
<1>4. /\ cut \in Seq(S) /\ Len(cut) = IF a + 1 <= a + l THEN (a + l) - (a + 1) + 1 ELSE 0
      /\ \A i \in 1..((a + l) - (a + 1) + 1) : cut[i] = run[(a + 1) + i - 1]
  BY <1>2, <1>3, SubSeqProperties
<1>5. Len(cut) = l /\ \A i \in 1..l : cut[i] = run[a + i]
  BY <1>4
<1>6. \A i \in 1..l : cut[i] = piece[i]
  BY <1>1, <1>5
<1> QED BY <1>1, <1>2, <1>4, <1>5, <1>6, SeqEqual

-----------------------------------------------------------------------------
(* The selected snapshots, the pieces captured for them and the cursor.    *)

LEMMA SelectedAre ==
  ASSUME CallInv, NEW phase
  PROVE  /\ Selected(phase) \in Seq(DOMAIN defs)
         /\ \A n \in DOMAIN Selected(phase) :
              /\ Selected(phase)[n] \in DOMAIN defs
              /\ defs[Selected(phase)[n]].phase = phase
              /\ ValidSnapshot(defs[Selected(phase)[n]])
<1> DEFINE list == [i \in 1..Len(defs) |-> i]
           wanted == {i \in DOMAIN defs : defs[i].phase = phase}
<1>1. /\ defs \in Seq(Range(defs)) /\ DOMAIN defs = 1..Len(defs) /\ Len(defs) \in Nat
      /\ \A i \in DOMAIN defs : ValidSnapshot(defs[i])
  BY DeclarationsAssumption DEF CallInv
<1>2. /\ list \in Seq(DOMAIN defs) /\ DOMAIN list = DOMAIN defs
      /\ \A i \in DOMAIN list : list[i] = i
  BY <1>1
<1>3. wanted \in SUBSET (DOMAIN list)
  BY <1>2
<1>4. Selected(phase) = Picked(list, wanted)
  BY DEF Selected
<1> HIDE DEF list
<1>5. Selected(phase) \in Seq(DOMAIN defs) /\ SelectedFrom(list, wanted, Selected(phase))
  BY <1>2, <1>3, <1>4, PickedIs
<1>6. \A n \in DOMAIN Selected(phase) : Selected(phase)[n] \in wanted
  BY <1>2, <1>5 DEF SelectedFrom
<1> QED BY <1>1, <1>5, <1>6

(* Every byte captured for a phase is a zero or one read through a pointer *)
(* of it.                                                                  *)
BytesOf(phase) ==
  {Zero} \cup {[from |-> Pointer(phase, defs[i].source), n |-> n] :
                i \in {j \in DOMAIN defs : defs[j].phase = phase /\ Reads(phase, j)}, n \in Nat}

LEMMA Products == \A a, b \in Nat : a * b \in Nat
OBVIOUS

LEMMA LengthIs ==
  ASSUME NEW d, d.max \in Nat, d.multiplier \in Nat, NEW value \in Nat
  PROVE  Length(d, value) \in Nat
<1>1. value % Word \in Nat
  BY ArgumentsAssumption
<1>2. (value % Word) * d.multiplier \in Nat
  BY <1>1, Products
<1> QED BY <1>2 DEF Length, Smaller

(* What the agent captures has a size, and as many bytes unless it is a    *)
(* register that could not be read.                                        *)
LEMMA ChunksAre ==
  ASSUME CallInv, NEW phase, NEW i \in DOMAIN defs, defs[i].phase = phase
  PROVE  /\ CapturedSize(i) \in Nat /\ Chunk(phase, i) \in Seq(BytesOf(phase))
         /\ defs[i].shape # "register" \/ Reads(phase, i) =>
              Len(Chunk(phase, i)) = CapturedSize(i)
         /\ defs[i].shape = "register" /\ ~Reads(phase, i) =>
              Len(Chunk(phase, i)) = 0 /\ CapturedSize(i) = 8
<1>1. ValidSnapshot(defs[i])
  BY DeclarationsAssumption DEF CallInv
<1>2. CapturedSize(i) \in Nat
  <2>1. CASE defs[i].shape = "register"
    BY <2>1 DEF CapturedSize, RegisterBytes
  <2>2. CASE defs[i].shape = "memory"
    BY <1>1, <2>2 DEF CapturedSize, ValidSnapshot
  <2>3. CASE defs[i].shape = "dynamic"
    <3>1. /\ defs[i].sizeArg \in 0..LastArg
          /\ defs[i].max \in Nat /\ defs[i].multiplier \in Nat
      BY <1>1, <2>3, DeclarationsAssumption, ArgumentsAssumption DEF CallInv, ValidSnapshot
    <3>2. args[defs[i].sizeArg] \in Nat
      BY <3>1, ArgumentsAssumption DEF CallInv
    <3>3. Length(defs[i], args[defs[i].sizeArg]) \in Nat
      BY <3>1, <3>2, LengthIs
    <3> QED BY <2>3, <3>3 DEF CapturedSize
  <2> QED BY <1>1, <2>1, <2>2, <2>3 DEF ValidSnapshot
<1>3. Zero \in BytesOf(phase)
  BY DEF BytesOf
<1>4. CASE Reads(phase, i)
  <2>1. \A n \in Nat : [from |-> Pointer(phase, defs[i].source), n |-> n] \in BytesOf(phase)
    BY <1>4 DEF BytesOf
  <2>2. Chunk(phase, i) = Bytes(Pointer(phase, defs[i].source), CapturedSize(i))
    BY <1>4 DEF Chunk
  <2>3. /\ Bytes(Pointer(phase, defs[i].source), CapturedSize(i)) \in Seq(BytesOf(phase))
        /\ Len(Bytes(Pointer(phase, defs[i].source), CapturedSize(i))) = CapturedSize(i)
    BY <1>2, <2>1, BytesAre
  <2> QED BY <1>2, <1>4, <2>2, <2>3
<1>5. CASE ~Reads(phase, i)
  <2>1. FilledSize(i) \in Nat
    BY <1>2 DEF FilledSize
  <2>2. Chunk(phase, i) = Zeros(FilledSize(i))
    BY <1>5 DEF Chunk
  <2>3. Zeros(FilledSize(i)) \in Seq(BytesOf(phase)) /\ Len(Zeros(FilledSize(i))) = FilledSize(i)
    BY <1>3, <2>1, ZerosAre
  <2>4. defs[i].shape = "register" => CapturedSize(i) = 8 /\ FilledSize(i) = 0
    BY DEF CapturedSize, FilledSize, RegisterBytes
  <2>5. defs[i].shape # "register" => FilledSize(i) = CapturedSize(i)
    BY DEF FilledSize
  <2> QED BY <1>2, <1>5, <2>2, <2>3, <2>4, <2>5
<1> QED BY <1>4, <1>5

(* The reader finds the size again.                                        *)
LEMMA SizesFound ==
  ASSUME SnapInv, NEW phase \in DOMAIN event, Found(phase),
         NEW i \in Range(Selected(phase))
  PROVE  PartSize(i) = CapturedSize(i)
<1>1. CASE defs[i].shape = "dynamic"
  <2>1. defs[i].phase = phase /\ ValidSnapshot(defs[i])
    BY SelectedAre DEF SnapInv, Range
  <2>2. phase = "enter"
    BY <1>1, <2>1 DEF ValidSnapshot
  <2>3. event["enter"] = Recorded("enter")
    BY <2>2 DEF SnapInv, RecordInv
  <2>4. Recorded("enter").registers =
          [r \in RecordedRegisters |-> IF r = 4 THEN LinkRegister ELSE args[r]]
    BY DEF Recorded
  <2>5. defs[i].sizeArg \in RecordedRegisters
    BY <1>1 DEF Found, Outside
  <2>6. PartSize(i) = Length(defs[i], IF defs[i].sizeArg = 4 THEN LinkRegister
                                                            ELSE args[defs[i].sizeArg])
    BY <1>1, <2>3, <2>4, <2>5 DEF PartSize
  <2>7. CapturedSize(i) = Length(defs[i], args[defs[i].sizeArg])
    BY <1>1 DEF CapturedSize
  <2>8. defs[i].sizeArg = 4 =>
          Length(defs[i], LinkRegister) = Length(defs[i], args[defs[i].sizeArg])
    BY <1>1 DEF Found, LinkMistaken
  <2> QED BY <2>6, <2>7, <2>8
<1>2. CASE defs[i].shape # "dynamic"
  BY <1>2 DEF PartSize
<1> QED BY <1>1, <1>2

(* The cursor adds up the sizes.                                           *)
SizesOf(sel, N, z) ==
  Len(sel) = N /\ \A n \in 1..N : z[n] = PartSize(sel[n]) /\ z[n] \in Nat

LEMMA CursorIs ==
  ASSUME NEW sel, NEW N \in Nat, NEW z, SizesOf(sel, N, z)
  PROVE  \E c : Begins(z, N, c) /\ \A n \in 1..(N + 1) : Cursor(sel, n) = c[n]
<1> DEFINE Step(c, m) == IF m = 1 THEN 0 ELSE c[m - 1] + PartSize(sel[m - 1])
           Def(c) == c = [m \in 1..(Len(sel) + 1) |-> Step(c, m)]
           h == CHOOSE c : Def(c)
<1>1. Len(sel) = N /\ \A n \in 1..N : z[n] = PartSize(sel[n]) /\ z[n] \in Nat
  BY DEF SizesOf
<1>2. PICK c \in [1..(N + 1) -> Nat] : Begins(z, N, c)
  BY <1>1, BeginsExist
<1>3. ASSUME NEW m \in 1..(N + 1) PROVE c[m] = Step(c, m)
  <2>1. CASE m = 1
    BY <1>2, <2>1 DEF Begins
  <2>2. CASE m # 1
    <3>1. m - 1 \in 1..N /\ (m - 1) + 1 = m
      BY <2>2
    <3>2. c[m] = c[m - 1] + z[m - 1] /\ z[m - 1] = PartSize(sel[m - 1])
      BY <1>1, <1>2, <3>1 DEF Begins
    <3> QED BY <2>2, <3>2
  <2> QED BY <2>1, <2>2
<1>4. Def(c)
  <2> HIDE DEF Step
  <2> QED BY <1>1, <1>2, <1>3
<1>5. Def(h)
  <2> HIDE DEF Def
  <2> QED BY <1>4
<1>6. \A n : Cursor(sel, n) = h[n]
  BY DEF Cursor
<1> HIDE DEF h
<1>7. \A m \in 1..(N + 1) : h[m] = Step(h, m)
  <2> HIDE DEF Step
  <2> QED BY <1>1, <1>5
<1>8. Begins(z, N, h)
  <2>1. h[1] = 0
    BY <1>7
  <2>2. ASSUME NEW m \in 1..N PROVE h[m + 1] = h[m] + z[m]
    <3>1. m + 1 \in 1..(N + 1) /\ m + 1 # 1 /\ (m + 1) - 1 = m
      OBVIOUS
    <3>2. h[m + 1] = h[m] + PartSize(sel[m])
      BY <1>7, <3>1
    <3> QED BY <1>1, <3>2
  <2> QED BY <2>1, <2>2 DEF Begins
<1> QED BY <1>6, <1>8

-----------------------------------------------------------------------------
(* The event and the reader's cursor.                                      *)

Pieces(phase) == [n \in DOMAIN Selected(phase) |-> Chunk(phase, Selected(phase)[n])]
FailedAt(phase, n) ==
  /\ defs[Selected(phase)[n]].shape = "register"
  /\ ~Reads(phase, Selected(phase)[n])

LEMMA PiecesAre ==
  ASSUME SnapInv, NEW phase \in DOMAIN event
  PROVE  /\ Pieces(phase) \in Seq(Seq(BytesOf(phase)))
         /\ Len(Pieces(phase)) = Len(Selected(phase))
         /\ event[phase].snapshot = Padded(FlattenSeq(Pieces(phase)))
         /\ Found(phase) => \A n \in 1..Len(Selected(phase)) :
              LET size == PartSize(Selected(phase)[n])
                  len == Len(Pieces(phase)[n])
              IN  /\ size \in Nat /\ len \in Nat
                  /\ ~FailedAt(phase, n) => size = len
                  /\ FailedAt(phase, n) => size = 8 /\ len = 0
<1> DEFINE sel == Selected(phase)
<1>1. /\ sel \in Seq(DOMAIN defs) /\ DOMAIN sel = 1..Len(sel) /\ Len(sel) \in Nat
      /\ \A n \in DOMAIN sel : sel[n] \in DOMAIN defs /\ defs[sel[n]].phase = phase
  BY SelectedAre DEF SnapInv
<1>2. \A n \in DOMAIN sel :
        /\ CapturedSize(sel[n]) \in Nat /\ Chunk(phase, sel[n]) \in Seq(BytesOf(phase))
        /\ ~FailedAt(phase, n) => Len(Chunk(phase, sel[n])) = CapturedSize(sel[n])
        /\ FailedAt(phase, n) => Len(Chunk(phase, sel[n])) = 0 /\ CapturedSize(sel[n]) = 8
  BY <1>1, ChunksAre DEF SnapInv, FailedAt
<1>3. Found(phase) => \A n \in DOMAIN sel : PartSize(sel[n]) = CapturedSize(sel[n])
  BY SizesFound DEF Range
<1>4. \A n \in DOMAIN sel : Pieces(phase)[n] = Chunk(phase, sel[n])
  BY DEF Pieces
<1>5. event[phase].snapshot = Padded(FlattenSeq(Pieces(phase)))
  <2>1. event[phase] = Recorded(phase)
    BY DEF SnapInv, RecordInv
  <2> QED BY <2>1 DEF Recorded, Pieces
<1>6. Pieces(phase) \in Seq(Seq(BytesOf(phase))) /\ Len(Pieces(phase)) = Len(sel)
  <2>1. DOMAIN Pieces(phase) = 1..Len(sel)
    BY <1>1 DEF Pieces
  <2>2. \A n \in 1..Len(sel) : Pieces(phase)[n] \in Seq(BytesOf(phase))
    BY <1>1, <1>2, <1>4
  <2>3. Pieces(phase) = [n \in 1..Len(sel) |-> Pieces(phase)[n]]
    BY <1>1 DEF Pieces
  <2> QED BY <1>1, <2>1, <2>2, <2>3
<1>7. ASSUME Found(phase), NEW n \in 1..Len(sel)
      PROVE  LET size == PartSize(sel[n])
                 len == Len(Pieces(phase)[n])
             IN  /\ size \in Nat /\ len \in Nat
                 /\ ~FailedAt(phase, n) => size = len
                 /\ FailedAt(phase, n) => size = 8 /\ len = 0
  BY <1>1, <1>2, <1>3, <1>4, <1>7
<1> QED BY <1>5, <1>6, <1>7

LEMMA SnapshotIs ==
  ASSUME SnapInv, NEW phase \in DOMAIN event
  PROVE  event[phase].snapshot \in Seq(BytesOf(phase))
<1>1. PICK raw \in Seq(BytesOf(phase)) :
        raw = FlattenSeq(Pieces(phase)) /\ event[phase].snapshot = Padded(raw)
  BY PiecesAre, FlattenTyped
<1>2. Zero \in BytesOf(phase)
  BY DEF BytesOf
<1> QED BY <1>1, <1>2, PaddedRun

LEMMA FailedRegisterIs ==
  ASSUME SnapInv, NEW phase
  PROVE  FailedRegister(phase) <=> \E n \in 1..Len(Selected(phase)) : FailedAt(phase, n)
<1>1. DOMAIN Selected(phase) = 1..Len(Selected(phase))
  BY SelectedAre DEF SnapInv
<1> QED BY <1>1 DEF FailedRegister, FailedAt, Range

(* The reader skips eight bytes for a register that left none, so it runs  *)
(* over the end of the event, whose padding is shorter.                    *)
LEMMA CursorOverruns ==
  ASSUME SnapInv, NEW phase \in DOMAIN event, Found(phase), FailedRegister(phase)
  PROVE  Cursor(Selected(phase), Len(Selected(phase)) + 1) > Len(event[phase].snapshot)
<1> DEFINE size(n) == PartSize(Selected(phase)[n])
           len(n) == Len(Pieces(phase)[n])
<1>1. PICK sel \in Seq(DOMAIN defs) : sel = Selected(phase)
  BY SelectedAre DEF SnapInv
<1>2. PICK N \in Nat : N = Len(sel)
  OBVIOUS
<1>3. PICK k \in 1..N : FailedAt(phase, k)
  BY <1>1, <1>2, FailedRegisterIs
<1>4. PICK pieces \in Seq(Seq(BytesOf(phase))) :
        /\ pieces = Pieces(phase) /\ Len(pieces) = N
        /\ event[phase].snapshot = Padded(FlattenSeq(pieces))
  BY <1>1, <1>2, PiecesAre
<1>5. PICK z, y : /\ z = [n \in 1..N |-> size(n)]
                  /\ y = [n \in 1..N |-> len(n)]
  OBVIOUS
<1>6. \A n \in 1..N : /\ size(n) \in Nat /\ len(n) \in Nat
                      /\ ~FailedAt(phase, n) => size(n) = len(n)
                      /\ FailedAt(phase, n) => size(n) = 8 /\ len(n) = 0
  BY <1>1, <1>2, PiecesAre
<1>7. /\ \A n \in 1..N : z[n] = PartSize(sel[n]) /\ y[n] = Len(pieces[n])
      /\ \A n \in 1..N : z[n] \in Nat /\ y[n] \in Nat /\ z[n] >= y[n]
      /\ z[k] = y[k] + 8
  <2>1. \A n \in 1..N : z[n] = size(n) /\ y[n] = len(n)
    BY <1>5
  <2>2. \A n \in 1..N : z[n] = PartSize(sel[n]) /\ y[n] = Len(pieces[n])
    BY <1>1, <1>4, <2>1
  <2> HIDE DEF size, len
  <2>3. \A n \in 1..N : size(n) \in Nat /\ len(n) \in Nat /\ size(n) >= len(n)
    BY <1>6
  <2>4. size(k) = 8 /\ len(k) = 0
    BY <1>3, <1>6
  <2> QED BY <2>1, <2>2, <2>3, <2>4
<1>8. PICK c : Begins(z, N, c) /\ \A n \in 1..(N + 1) : Cursor(sel, n) = c[n]
  <2>1. SizesOf(sel, N, z)
    BY <1>2, <1>7 DEF SizesOf
  <2> QED BY <2>1, CursorIs
<1>9. PICK d \in [1..(N + 1) -> Nat] : Begins(y, N, d)
  BY <1>7, BeginsExist
<1>10. \A m \in 1..(N + 1) : c[m] \in Nat
  BY <1>7, <1>8, BeginsGrow
<1>11. Len(FlattenSeq(pieces)) = d[N + 1]
  BY <1>4, <1>7, <1>9, FlattenSegments
<1> DEFINE Good == {n \in Nat : n <= N => c[n + 1] >= d[n + 1] + (IF n >= k THEN 8 ELSE 0)}
<1>12. 0 \in Good
  <2>1. c[0 + 1] = 0 /\ d[0 + 1] = 0
    BY <1>8, <1>9 DEF Begins
  <2>2. k \in Nat /\ k >= 1
    BY <1>2
  <2>3. c[0 + 1] >= d[0 + 1] + (IF 0 >= k THEN 8 ELSE 0)
    BY <2>1, <2>2
  <2> QED BY <2>3
<1>13. ASSUME NEW n \in Nat, n \in Good PROVE n + 1 \in Good
  <2> SUFFICES ASSUME n + 1 <= N
               PROVE  c[(n + 1) + 1] >= d[(n + 1) + 1] + (IF n + 1 >= k THEN 8 ELSE 0)
    OBVIOUS
  <2>1. PICK m \in 1..N : m = n + 1
    OBVIOUS
  <2>2. c[m + 1] = c[m] + z[m] /\ d[m + 1] = d[m] + y[m]
    BY <1>8, <1>9 DEF Begins
  <2>3. c[m] >= d[m] + (IF n >= k THEN 8 ELSE 0)
    BY <1>13, <2>1
  <2>4. /\ c[m] \in Nat /\ d[m] \in Nat /\ z[m] \in Nat /\ y[m] \in Nat /\ z[m] >= y[m]
        /\ m = k => z[m] = y[m] + 8
    BY <1>7, <1>9, <1>10
  <2>5. PICK a \in Nat, b \in Nat, e \in Nat, g \in Nat :
          a = c[m] /\ b = d[m] /\ e = z[m] /\ g = y[m]
    BY <2>4
  <2>6. a + e >= b + g + (IF m >= k THEN 8 ELSE 0)
    <3>1. /\ a >= b + (IF n >= k THEN 8 ELSE 0) /\ e >= g
          /\ m = k => e = g + 8
      BY <2>3, <2>4, <2>5
    <3>2. k \in Nat /\ m \in Nat
      BY <1>2
    <3>3. CASE n >= k
      <4>1. a >= b + 8 /\ m >= k
        BY <2>1, <3>1, <3>2, <3>3
      <4> QED BY <3>1, <4>1
    <3>4. CASE m = k
      <4>1. a >= b /\ e = g + 8 /\ m >= k
        BY <2>1, <3>1, <3>2, <3>4
      <4> QED BY <4>1
    <3>5. CASE ~(n >= k) /\ m # k
      <4>1. a >= b /\ ~(m >= k)
        BY <2>1, <3>1, <3>2, <3>5
      <4> QED BY <3>1, <4>1
    <3> QED BY <3>3, <3>4, <3>5
  <2> QED BY <2>1, <2>2, <2>5, <2>6
<1> HIDE DEF Good
<1>14. N \in Good
  BY <1>12, <1>13, NatInd
<1>15. c[N + 1] >= d[N + 1] + 8
  BY <1>3, <1>14 DEF Good
<1>16. /\ Len(event[phase].snapshot) < Len(FlattenSeq(pieces)) + 8
       /\ Len(event[phase].snapshot) \in Nat
  <2>1. FlattenSeq(pieces) \in Seq(BytesOf(phase)) /\ Zero \in BytesOf(phase)
    BY FlattenTyped DEF BytesOf
  <2>2. /\ Len(Padded(FlattenSeq(pieces))) < Len(FlattenSeq(pieces)) + 8
        /\ Padded(FlattenSeq(pieces)) \in Seq(BytesOf(phase))
    BY <2>1, PaddedRun
  <2> QED BY <1>4, <2>2
<1>17. Cursor(sel, N + 1) = c[N + 1] /\ c[N + 1] \in Nat /\ d[N + 1] \in Nat
  BY <1>8, <1>9, <1>10
<1> QED BY <1>1, <1>2, <1>11, <1>15, <1>16, <1>17

(* Otherwise the cursor is where the pieces begin and end.                 *)
LEMMA CursorExact ==
  ASSUME SnapInv, NEW phase \in DOMAIN event, Found(phase), ~FailedRegister(phase)
  PROVE  LET sel == Selected(phase)
             run == event[phase].snapshot
             end == Cursor(sel, Len(sel) + 1)
         IN  /\ end \in Nat /\ end <= Len(run)
             /\ \A n \in DOMAIN sel :
                  SubSeq(run, Cursor(sel, n) + 1, Cursor(sel, n) + PartSize(sel[n]))
                    = Chunk(phase, sel[n])
<1>1. PICK sel \in Seq(DOMAIN defs) : sel = Selected(phase)
  BY SelectedAre DEF SnapInv
<1>2. PICK N \in Nat : N = Len(sel) /\ DOMAIN sel = 1..N
  OBVIOUS
<1>3. PICK pieces \in Seq(Seq(BytesOf(phase))) :
        /\ pieces = Pieces(phase) /\ Len(pieces) = N
        /\ event[phase].snapshot = Padded(FlattenSeq(pieces))
  BY <1>1, <1>2, PiecesAre
<1>4. \A n \in 1..N : Len(pieces[n]) = PartSize(sel[n]) /\ PartSize(sel[n]) \in Nat
  <2>1. \A n \in 1..N : ~FailedAt(phase, n)
    BY <1>1, <1>2, FailedRegisterIs
  <2> QED BY <1>1, <1>2, <1>3, <2>1, PiecesAre
<1>5. PICK z : z = [n \in 1..N |-> PartSize(sel[n])]
  OBVIOUS
<1>6. \A n \in 1..N : z[n] = PartSize(sel[n]) /\ z[n] = Len(pieces[n]) /\ z[n] \in Nat
  BY <1>4, <1>5
<1>7. PICK c : Begins(z, N, c) /\ \A n \in 1..(N + 1) : Cursor(sel, n) = c[n]
  <2>1. SizesOf(sel, N, z)
    BY <1>2, <1>6 DEF SizesOf
  <2> QED BY <2>1, CursorIs
<1>8. PICK raw \in Seq(BytesOf(phase)) : raw = FlattenSeq(pieces)
  BY FlattenTyped
<1>9. /\ Len(raw) = c[N + 1]
      /\ \A m \in 1..N : \A i \in 1..Len(pieces[m]) : raw[c[m] + i] = pieces[m][i]
  <2>1. Begins(z, Len(pieces), c) /\ \A m \in 1..Len(pieces) : z[m] = Len(pieces[m])
    BY <1>3, <1>6, <1>7
  <2>2. Len(FlattenSeq(pieces)) = c[Len(pieces) + 1] /\ Segments(pieces, c)
    BY <2>1, FlattenSegments
  <2> QED BY <1>3, <1>8, <2>2 DEF Segments
<1>10. /\ \A m \in 1..(N + 1) : c[m] \in Nat
       /\ \A m \in 1..N : c[m] + z[m] <= c[N + 1]
  BY <1>6, <1>7, BeginsGrow
<1>11. PICK run \in Seq(BytesOf(phase)) : run = event[phase].snapshot
  <2>1. Zero \in BytesOf(phase)
    BY DEF BytesOf
  <2> QED BY <1>3, <1>8, <2>1, PaddedRun
<1>12. /\ Len(run) % 8 = 0 /\ Len(raw) <= Len(run) /\ Len(run) < Len(raw) + 8
       /\ \A n \in 1..Len(raw) : run[n] = raw[n]
       /\ \A n \in (Len(raw) + 1)..Len(run) : run[n] = Zero
  <2>1. Zero \in BytesOf(phase) /\ run = Padded(raw)
    BY <1>3, <1>8, <1>11 DEF BytesOf
  <2> QED BY <2>1, PaddedRun
<1>13. ASSUME NEW n \in 1..N
       PROVE  SubSeq(run, Cursor(sel, n) + 1, Cursor(sel, n) + PartSize(sel[n]))
                = Chunk(phase, sel[n])
  <2>1. PICK piece \in Seq(BytesOf(phase)) : piece = pieces[n]
    BY <1>3, ElementOfSeq
  <2>2. PICK a \in Nat, l \in Nat : a = c[n] /\ l = z[n] /\ l = Len(piece) /\ a + l <= Len(raw)
    <3>1. z[n] \in Nat /\ z[n] = Len(piece)
      BY <1>6, <2>1
    <3>2. c[n] \in Nat /\ c[n] + z[n] <= Len(raw)
      BY <1>9, <1>10
    <3> QED BY <3>1, <3>2
  <2>3. \A i \in 1..l : raw[a + i] = piece[i]
    BY <1>9, <2>1, <2>2
  <2>4. ASSUME NEW i \in 1..Len(piece) PROVE run[a + i] = piece[i]
    <3>1. a + i \in 1..Len(raw)
      BY <2>2
    <3> QED BY <1>12, <2>2, <2>3, <3>1
  <2>5. a + Len(piece) <= Len(run)
    <3>1. Len(run) \in Nat /\ Len(raw) \in Nat
      OBVIOUS
    <3>2. a + Len(piece) <= Len(raw) /\ Len(piece) \in Nat
      BY <2>2
    <3>3. Len(raw) <= Len(run)
      BY <1>12
    <3> QED BY <3>1, <3>2, <3>3
  <2>6. SubSeq(run, a + 1, a + Len(piece)) = piece
    BY <2>4, <2>5, CutOut
  <2>7. piece = Chunk(phase, sel[n])
    BY <1>1, <1>2, <1>3, <2>1 DEF Pieces
  <2>8. Cursor(sel, n) = a /\ PartSize(sel[n]) = Len(piece)
    BY <1>6, <1>7, <2>1, <2>2
  <2> QED BY <2>6, <2>7, <2>8
<1>14. Cursor(sel, N + 1) = Len(raw) /\ Len(raw) \in Nat
  BY <1>7, <1>9
<1> QED BY <1>1, <1>2, <1>11, <1>12, <1>13, <1>14

(* What the reader returns is what the agent read.                         *)
LEMMA DecodedIs ==
  ASSUME SnapInv, NEW phase \in DOMAIN event, ~LinkMistaken(phase)
  PROVE  Right(phase, IF Refused(phase) THEN Rejected ELSE Returned(Parts(phase)))
<1> DEFINE sel == Selected(phase)
           flags == event[phase].flags
<1>1. DOMAIN sel = 1..Len(sel) /\ Len(sel) \in Nat /\ FlagBits \in Nat
  BY SelectedAre, ArgumentsAssumption DEF SnapInv
<1>2. flags = {n \in DOMAIN sel : n <= FlagBits /\ Reads(phase, sel[n])}
  <2>1. event[phase] = Recorded(phase)
    BY DEF SnapInv, RecordInv
  <2> QED BY <2>1 DEF Recorded
<1>3. \A n \in DOMAIN sel : Reads(phase, sel[n]) \/ defs[sel[n]].optional
  BY DEF SnapInv, RecordInv, Throws, Range
<1>4. CASE Len(sel) > FlagBits \/ Outside(phase)
  BY <1>4 DEF Refused, Right
<1>5. CASE FailedRegister(phase) /\ ~Outside(phase)
  BY <1>5, CursorOverruns DEF Refused, Right, Found
<1>6. CASE ~(Len(sel) > FlagBits) /\ ~FailedRegister(phase) /\ ~Outside(phase)
  <2>1. \A n \in DOMAIN sel : n <= FlagBits
    BY <1>1, <1>6
  <2>2. \A n \in DOMAIN sel : n \in flags <=> Reads(phase, sel[n])
    BY <1>2, <2>1
  <2>3. /\ ~(Cursor(sel, Len(sel) + 1) > Len(event[phase].snapshot))
        /\ \A n \in DOMAIN sel :
             SubSeq(event[phase].snapshot, Cursor(sel, n) + 1, Cursor(sel, n) + PartSize(sel[n]))
               = Chunk(phase, sel[n])
    <3>1. PICK run \in Seq(BytesOf(phase)) : run = event[phase].snapshot
      BY SnapshotIs
    <3>2. PICK end \in Nat : end = Cursor(sel, Len(sel) + 1) /\ end <= Len(run)
      BY <1>6, <3>1, CursorExact DEF Found
    <3>3. ~(end > Len(run))
      <4>1. Len(run) \in Nat
        OBVIOUS
      <4> QED BY <3>2, <4>1
    <3> QED BY <1>6, <3>1, <3>2, <3>3, CursorExact DEF Found
  <2>4. ~Refused(phase)
    BY <1>3, <1>6, <2>2, <2>3 DEF Refused
  <2>5. \A n \in DOMAIN sel : Reads(phase, sel[n]) =>
          Chunk(phase, sel[n]) = Bytes(Pointer(phase, defs[sel[n]].source), CapturedSize(sel[n]))
    BY DEF Chunk
  <2>6. Parts(phase) = Captured(phase)
    BY <2>2, <2>3, <2>5 DEF Parts, Captured
  <2> QED BY <2>4, <2>6 DEF Right
<1> QED BY <1>4, <1>5, <1>6

-----------------------------------------------------------------------------
(* The invariant is inductive.                                             *)

LEMMA InitSnapInv == Init => SnapInv
<1> SUFFICES ASSUME Init PROVE SnapInv
  OBVIOUS
<1>1. /\ DOMAIN event = {} /\ DOMAIN parts = {} /\ moment = "before"
      /\ invocation = [s \in DOMAIN invocation |-> <<"enter", s>>]
  BY DEF Init
<1> QED BY <1>1 DEF Init, SnapInv, CallInv, RecordInv

(* What a phase records does not change once its pointers do not.          *)
LEMMA SameRecord ==
  ASSUME UNCHANGED <<defs, readable, args>>, NEW phase,
         phase = "enter" \/ UNCHANGED invocation
  PROVE  /\ Recorded(phase)' = Recorded(phase) /\ Throws(phase)' = Throws(phase)
         /\ \A result : (Right(phase, result))' = Right(phase, result)
         /\ LinkMistaken(phase)' = LinkMistaken(phase)
<1>1. Selected(phase)' = Selected(phase)
  BY DEF Selected
<1>2. \A s : Pointer(phase, s)' = Pointer(phase, s)
  BY DEF Pointer
<1>3. \A i : Reads(phase, i)' = Reads(phase, i)
  BY <1>2 DEF Reads
<1>4. \A i : CapturedSize(i)' = CapturedSize(i) /\ FilledSize(i)' = FilledSize(i)
  BY DEF CapturedSize, FilledSize
<1>5. \A i : Chunk(phase, i)' = Chunk(phase, i)
  BY <1>2, <1>3, <1>4 DEF Chunk
<1>6. Throws(phase)' = Throws(phase)
  BY <1>1, <1>3 DEF Throws
<1>7. Recorded(phase)' = Recorded(phase)
  BY <1>1, <1>3, <1>5 DEF Recorded
<1>8. FailedRegister(phase)' = FailedRegister(phase)
  BY <1>1, <1>3 DEF FailedRegister
<1>9. /\ Captured(phase)' = Captured(phase) /\ Outside(phase)' = Outside(phase)
      /\ LinkMistaken(phase)' = LinkMistaken(phase)
  BY <1>1, <1>2, <1>3, <1>4 DEF Captured, Outside, LinkMistaken
<1>10. \A result : (Right(phase, result))' = Right(phase, result)
  BY <1>1, <1>8, <1>9 DEF Right
<1> QED BY <1>6, <1>7, <1>9, <1>10

LEMMA CaptureSnapInv ==
  ASSUME SnapInv, NEW phase \in Phases, NEW from, NEW to, Capture(phase, from, to),
         \/ phase = "enter" /\ from = "before" /\ to = "entered"
         \/ phase = "leave" /\ from = "entered" /\ to = "over"
         \/ phase = "instruction" /\ from = "before" /\ to = "over"
  PROVE  SnapInv' /\ \A p \in DOMAIN event : UNCHANGED invocation
<1> USE DEF SnapInv, CallInv
<1>1. /\ moment = from /\ UNCHANGED <<defs, readable, args, parts>>
      /\ invocation' = [s \in DOMAIN invocation \cup Keeps(phase) |->
                        IF s \in Keeps(phase) THEN Pointer(phase, s) ELSE invocation[s]]
  BY DEF Capture
<1>2. \/ ~Throws(phase) /\ moment' = to /\ event' = With(event, phase, Recorded(phase))
      \/ moment' = "thrown" /\ event' = event
  BY DEF Capture
<1>3. phase # "enter" => invocation' = invocation
  <2> SUFFICES ASSUME phase # "enter" PROVE invocation' = invocation
    OBVIOUS
  <2>1. Keeps(phase) = {}
    BY DEF Keeps
  <2>2. DOMAIN invocation' = DOMAIN invocation
    BY <1>1, <2>1
  <2>3. \A s \in DOMAIN invocation : invocation'[s] = invocation[s]
    BY <1>1, <2>1
  <2> QED BY <1>1, <2>1, <2>2, <2>3
<1>4. invocation' = [s \in DOMAIN invocation' |-> <<"enter", s>>]
  <2>1. CASE phase = "enter"
    <3>1. \A s : Pointer("enter", s) = <<"enter", s>>
      BY DEF Pointer
    <3> QED BY <1>1, <2>1, <3>1
  <2>2. CASE phase # "enter"
    BY <1>3, <2>2
  <2> QED BY <2>1, <2>2
<1>5. phase = "enter" => DOMAIN event = {}
  BY <1>1
<1>6. \A p \in DOMAIN event : UNCHANGED invocation
  BY <1>3, <1>5
<1>7. \A p \in DOMAIN event' :
        \/ p \in DOMAIN event /\ event'[p] = event[p]
        \/ p = phase /\ event'[p] = Recorded(p) /\ ~Throws(p)
  BY <1>2 DEF With
<1>8. RecordInv'
  <2> SUFFICES ASSUME NEW p \in DOMAIN event'
               PROVE  event'[p] = Recorded(p)' /\ ~Throws(p)'
    BY DEF RecordInv
  <2>1. event'[p] = Recorded(p) /\ ~Throws(p)
    BY <1>7 DEF RecordInv
  <2>2. p = "enter" \/ UNCHANGED invocation
    BY <1>3, <1>6, <1>7
  <2>3. Recorded(p)' = Recorded(p) /\ Throws(p)' = Throws(p)
    <3>1. UNCHANGED <<defs, readable, args>>
      BY <1>1
    <3> QED BY <2>2, <3>1, SameRecord
  <2> QED BY <2>1, <2>3, Zenon
<1>9. \/ DOMAIN event' = DOMAIN event \cup {phase} /\ moment' = to
      \/ DOMAIN event' = DOMAIN event /\ moment' = "thrown"
  BY <1>2 DEF With
<1>10. CallInv'
  BY <1>1, <1>4, <1>9 DEF Phases
<1>11. (DOMAIN parts \subseteq DOMAIN event)'
  BY <1>1, <1>9
<1> QED BY <1>6, <1>8, <1>10, <1>11

LEMMA DecodeSnapInv ==
  ASSUME SnapInv, NEW phase, Decode(phase)
  PROVE  SnapInv'
<1>1. /\ UNCHANGED <<defs, readable, args, moment, invocation, event>> /\ phase \in DOMAIN event
      /\ DOMAIN parts' \subseteq DOMAIN parts \cup {phase}
  BY DEF Decode, With
<1>2. CallInv' /\ (DOMAIN parts \subseteq DOMAIN event)'
  BY <1>1 DEF SnapInv, CallInv
<1>3. RecordInv'
  <2> SUFFICES ASSUME NEW p \in DOMAIN event PROVE event[p] = Recorded(p)' /\ ~Throws(p)'
    BY <1>1 DEF RecordInv
  <2>1. Recorded(p)' = Recorded(p) /\ Throws(p)' = Throws(p)
    BY <1>1, SameRecord
  <2>2. event[p] = Recorded(p) /\ ~Throws(p)
    BY DEF SnapInv, RecordInv
  <2> QED BY <2>1, <2>2, Zenon
<1> QED BY <1>2, <1>3 DEF SnapInv

THEOREM SnapshotInvariant == Spec => []SnapInv
<1>1. Init => SnapInv
  BY InitSnapInv
<1>2. SnapInv /\ [Next]_vars => SnapInv'
  <2> SUFFICES ASSUME SnapInv, [Next]_vars PROVE SnapInv'
    OBVIOUS
  <2> USE DEF Phases
  <2>1. CASE Capture("enter", "before", "entered")
    BY <2>1, CaptureSnapInv
  <2>2. CASE Capture("leave", "entered", "over")
    BY <2>2, CaptureSnapInv
  <2>3. CASE Capture("instruction", "before", "over")
    BY <2>3, CaptureSnapInv
  <2>4. CASE \E phase \in {"enter", "leave", "instruction"} : Decode(phase)
    BY <2>4, DecodeSnapInv
  <2>5. CASE UNCHANGED vars
    <3>1. UNCHANGED <<defs, readable, args, invocation>> /\ UNCHANGED <<event, parts, moment>>
      BY <2>5 DEF vars
    <3>2. CallInv' /\ (DOMAIN parts \subseteq DOMAIN event)'
      BY <3>1 DEF SnapInv, CallInv
    <3>3. \A p : Recorded(p)' = Recorded(p) /\ Throws(p)' = Throws(p)
      BY <3>1, SameRecord
    <3>4. RecordInv'
      <4> SUFFICES ASSUME NEW p \in DOMAIN event PROVE event[p] = Recorded(p)' /\ ~Throws(p)'
        BY <3>1 DEF RecordInv
      <4>1. event[p] = Recorded(p) /\ ~Throws(p)
        BY DEF SnapInv, RecordInv
      <4> QED BY <3>3, <4>1, Zenon
    <3> QED BY <3>2, <3>4 DEF SnapInv
  <2> QED BY <2>1, <2>2, <2>3, <2>4, <2>5 DEF Next
<1> QED BY <1>1, <1>2, PTL DEF Spec

-----------------------------------------------------------------------------
(* The properties of the run.                                              *)

(* snapshot_parts returns exactly what captureSnapshots read, None where   *)
(* an optional capture failed, for every list of declarations and all      *)
(* arguments, except where lr stands for a length; it refuses an event     *)
(* only for its flags, for a length it does not record or for a register.  *)
THEOREM CapturedIsDecoded == Spec => []PartsAreCaptured
<1> DEFINE Decoded ==
      \A phase \in DOMAIN parts : ~LinkMistaken(phase) => Right(phase, parts[phase])
<1>1. Decoded <=> PartsAreCaptured
  BY DEF PartsAreCaptured, Right
<1>2. Init => Decoded
  BY DEF Init
<1>3. SnapInv /\ Decoded /\ [Next]_vars => Decoded'
  <2> SUFFICES ASSUME SnapInv, Decoded, [Next]_vars, NEW phase \in DOMAIN parts'
               PROVE  (~LinkMistaken(phase) => Right(phase, parts[phase]))'
    OBVIOUS
  <2> USE DEF Phases
  <2> HIDE DEF Decoded
  <2>1. ASSUME NEW p, NEW from, NEW to, Capture(p, from, to), p \in Phases,
               \/ p = "enter" /\ from = "before" /\ to = "entered"
               \/ p = "leave" /\ from = "entered" /\ to = "over"
               \/ p = "instruction" /\ from = "before" /\ to = "over"
        PROVE  (~LinkMistaken(phase) => Right(phase, parts[phase]))'
    <3>1. UNCHANGED <<defs, readable, args, parts>>
      BY <2>1 DEF Capture
    <3>2. phase \in DOMAIN event
      BY <3>1 DEF SnapInv
    <3>3. UNCHANGED invocation
      BY <2>1, <3>2, CaptureSnapInv
    <3>4. /\ \A result : (Right(phase, result))' = Right(phase, result)
          /\ LinkMistaken(phase)' = LinkMistaken(phase)
      BY <3>1, <3>3, SameRecord
    <3> QED BY <3>1, <3>4 DEF Decoded
  <2>2. ASSUME NEW p, Decode(p)
        PROVE  (~LinkMistaken(phase) => Right(phase, parts[phase]))'
    <3>1. /\ UNCHANGED <<defs, readable, args, invocation>> /\ p \in DOMAIN event
          /\ parts' = With(parts, p, IF Refused(p) THEN Rejected ELSE Returned(Parts(p)))
      BY <2>2 DEF Decode
    <3>2. /\ \A result : (Right(phase, result))' = Right(phase, result)
          /\ LinkMistaken(phase)' = LinkMistaken(phase)
      BY <3>1, SameRecord
    <3>3. CASE phase = p
      BY <3>1, <3>2, <3>3, DecodedIs DEF With
    <3>4. CASE phase # p
      BY <3>1, <3>2, <3>4 DEF With, Decoded
    <3> QED BY <3>3, <3>4
  <2>3. CASE UNCHANGED vars
    <3>1. UNCHANGED <<defs, readable, args, invocation>> /\ UNCHANGED parts
      BY <2>3 DEF vars
    <3>2. /\ \A result : (Right(phase, result))' = Right(phase, result)
          /\ LinkMistaken(phase)' = LinkMistaken(phase)
      BY <3>1, SameRecord
    <3> QED BY <3>1, <3>2 DEF Decoded
  <2> QED BY <2>1, <2>2, <2>3 DEF Next
<1> QED BY <1>1, <1>2, <1>3, SnapshotInvariant, PTL DEF Spec

(* A buffer named by an argument and captured on return is read through    *)
(* the pointer the call was entered with.                                  *)
THEOREM LeaveKeepsEntryPointers == Spec => []LeaveReadsEntryBuffers
<1>1. SnapInv => LeaveReadsEntryBuffers
  <2> SUFFICES ASSUME SnapInv, "leave" \in DOMAIN event,
                      NEW n \in DOMAIN event["leave"].snapshot,
                      event["leave"].snapshot[n] # Zero,
                      event["leave"].snapshot[n].from[2] \in ArgSources
               PROVE  event["leave"].snapshot[n].from[1] = "enter"
    BY DEF LeaveReadsEntryBuffers
  <2>1. event["leave"].snapshot[n] \in BytesOf("leave")
    <3>1. PICK run \in Seq(BytesOf("leave")) : run = event["leave"].snapshot
      BY SnapshotIs
    <3> QED BY <3>1, ElementOfSeq
  <2>2. PICK i \in DOMAIN defs :
          /\ defs[i].phase = "leave" /\ Reads("leave", i)
          /\ event["leave"].snapshot[n].from = Pointer("leave", defs[i].source)
    BY <2>1 DEF BytesOf
  <2>3. CASE defs[i].source \notin ArgSources
    <3>1. Pointer("leave", defs[i].source) = <<"leave", defs[i].source>>
      BY <2>3 DEF Pointer
    <3> QED BY <2>2, <2>3, <3>1
  <2>4. CASE defs[i].source \in ArgSources
    <3>1. ValidSnapshot(defs[i])
      BY DeclarationsAssumption DEF SnapInv, CallInv
    <3>2. Pointer("leave", defs[i].source) # Nowhere
      BY <2>2, <2>4, <3>1 DEF ValidSnapshot, Reads
    <3>3. Pointer("leave", defs[i].source) = <<"enter", defs[i].source>>
      BY <2>4, <3>2 DEF Pointer, SnapInv, CallInv
    <3> QED BY <2>2, <3>3
  <2> QED BY <2>3, <2>4
<1> QED BY <1>1, SnapshotInvariant, PTL
=============================================================================
