-------------------------- MODULE CallForestProofs --------------------------
(***************************************************************************)
(* The reader's stacks compute the interval forest of TraceEvents, for any *)
(* threads, ids, kinds and length of the file.  The inductive invariant    *)
(* IInv says, of the events read so far and as long as none was refused,   *)
(* which calls each list of _assemble holds and in which order: a stack    *)
(* the open calls of its thread, roots and children the calls with that    *)
(* parent, instructions the events whose innermost call it is.  Each part  *)
(* is an equivalence, so that the theorems read it in both directions.     *)
(*                                                                         *)
(* Cardinalities and CHOOSE are kept out of it: Lists and Nested restate   *)
(* Nests by the ids of leaves, and Around restates Encloses without End.   *)
(***************************************************************************)
EXTENDS CallForest, FiniteSetTheorems, SequenceTheorems, TLAPS

-----------------------------------------------------------------------------
(* What a file that nests so far looks like.  Lists: ids pair one enter    *)
(* with at most one leave; OpenAt: the call entered at i has not left;     *)
(* Around: the call entered at i was open when event k happened.           *)
FileEvents == EventSet(Kinds, Tids)

Lists(R) ==
  /\ R \in Seq(FileEvents)
  /\ \A i, k \in Enters(R) : R[i].id = R[k].id => i = k
  /\ \A j, l \in Leaves(R) : R[j].id = R[l].id => j = l
  /\ \A j \in Leaves(R) : \E i \in Enters(R) :
       i < j /\ R[i].id = R[j].id /\ R[i].tid = R[j].tid
OpenAt(R, i) == i \in Enters(R) /\ \A j \in Leaves(R) : R[j].id # R[i].id
Around(R, i, k) ==
  /\ i \in Enters(R) /\ i < k /\ R[i].tid = R[k].tid
  /\ \A j \in Leaves(R) : R[j].id = R[i].id => k < j
Nested(R) ==
  \A i, k \in Enters(R) : \A l \in Leaves(R) :
    Around(R, i, k) /\ R[l].id = R[i].id =>
      \E j \in Leaves(R) : j < l /\ R[j].id = R[k].id

(* A leave belongs to exactly one enter and comes after it.                *)
LEMMA ListFacts ==
  ASSUME NEW R, Lists(R)
  PROVE  /\ R \in Seq(FileEvents) /\ DOMAIN R = 1..Len(R) /\ Len(R) \in Nat
         /\ Enters(R) \in SUBSET (1..Len(R)) /\ Leaves(R) \in SUBSET (1..Len(R))
         /\ \A i \in Enters(R) : \A j : j \in LeavesOf(R, i) <=>
              j \in Leaves(R) /\ R[j].id = R[i].id
         /\ \A i \in Enters(R) : \A j \in Leaves(R) : R[j].id = R[i].id => i < j
<1>1. R \in Seq(FileEvents) /\ DOMAIN R = 1..Len(R) /\ Len(R) \in Nat
  BY DEF Lists
<1>2. Enters(R) \in SUBSET (1..Len(R)) /\ Leaves(R) \in SUBSET (1..Len(R))
  BY <1>1 DEF Enters, Leaves, At
<1>3. ASSUME NEW i \in Enters(R), NEW j \in Leaves(R), R[j].id = R[i].id
      PROVE  i < j /\ R[j].tid = R[i].tid
  <2>1. PICK h \in Enters(R) : h < j /\ R[h].id = R[j].id /\ R[h].tid = R[j].tid
    BY DEF Lists
  <2>2. h = i
    BY <1>3, <2>1 DEF Lists
  <2> QED BY <2>1, <2>2
<1>4. \A i \in Enters(R) : \A j : j \in LeavesOf(R, i) <=>
        j \in Leaves(R) /\ R[j].id = R[i].id
  BY <1>3 DEF LeavesOf
<1> QED BY <1>1, <1>2, <1>3, <1>4

(* LeavesOf has at most one member, and End is that one.                   *)
LEMMA EndFacts ==
  ASSUME NEW R, Lists(R), NEW i \in Enters(R)
  PROVE  /\ Cardinality(LeavesOf(R, i)) <= 1
         /\ OpenAt(R, i) <=> LeavesOf(R, i) = {}
         /\ OpenAt(R, i) => End(R, i) = Len(R) + 1
         /\ \A j \in Leaves(R) : R[j].id = R[i].id => End(R, i) = j
<1>1. OpenAt(R, i) <=> LeavesOf(R, i) = {}
  BY ListFacts DEF OpenAt
<1>2. CASE LeavesOf(R, i) = {}
  BY <1>1, <1>2, FS_EmptySet, ListFacts DEF End
<1>3. CASE LeavesOf(R, i) # {}
  <2>1. PICK j : j \in LeavesOf(R, i)
    BY <1>3
  <2>2. \A l \in LeavesOf(R, i) : l = j
    BY <2>1, ListFacts DEF Lists
  <2>3. LeavesOf(R, i) = {j}
    BY <2>1, <2>2
  <2>4. Cardinality(LeavesOf(R, i)) = 1
    BY <2>3, FS_Singleton
  <2>5. End(R, i) \in LeavesOf(R, i)
    BY <2>1 DEF End
  <2>6. End(R, i) = j
    BY <2>2, <2>5
  <2>7. \A l \in Leaves(R) : R[l].id = R[i].id => l = j
    BY <2>2, ListFacts
  <2> QED BY <1>1, <1>3, <2>4, <2>6, <2>7
<1> QED BY <1>2, <1>3

(* Around is the enclosing interval of the reference definition.           *)
LEMMA AroundEncloses ==
  ASSUME NEW R, Lists(R), NEW i, NEW k \in 1..Len(R)
  PROVE  Around(R, i, k) <=> i \in Enters(R) /\ Encloses(R, i, k)
<1> SUFFICES ASSUME i \in Enters(R)
             PROVE  Around(R, i, k) <=> Encloses(R, i, k)
  BY DEF Around
<1>1. CASE OpenAt(R, i)
  <2>1. End(R, i) = Len(R) + 1 /\ k < Len(R) + 1
    BY <1>1, EndFacts, ListFacts
  <2> QED BY <1>1, <2>1 DEF Around, Encloses, OpenAt
<1>2. CASE ~OpenAt(R, i)
  <2>1. PICK j \in Leaves(R) : R[j].id = R[i].id
    BY <1>2 DEF OpenAt
  <2>2. End(R, i) = j /\ \A l \in Leaves(R) : R[l].id = R[i].id => l = j
    BY <2>1, EndFacts DEF Lists
  <2> QED BY <2>1, <2>2 DEF Around, Encloses
<1> QED BY <1>1, <1>2

(* The two conditions the reader keeps amount to Nests.                    *)
LEMMA ListsNest ==
  ASSUME NEW R, Lists(R), Nested(R)
  PROVE  Nests(R)
<1>1. \A i, k \in Enters(R) : i # k => R[i].id # R[k].id
  BY DEF Lists
<1>2. \A i \in Enters(R) : Cardinality(LeavesOf(R, i)) <= 1
  BY EndFacts
<1>3. \A j \in Leaves(R) : \E i \in Enters(R) : j \in LeavesOf(R, i)
  BY ListFacts DEF Lists
<1>4. ASSUME NEW i \in Enters(R), NEW k \in Enters(R), Encloses(R, i, k),
             LeavesOf(R, i) # {}
      PROVE  End(R, k) < End(R, i)
  <2>1. Around(R, i, k)
    BY <1>4, AroundEncloses, ListFacts
  <2>2. PICK l \in Leaves(R) : R[l].id = R[i].id
    BY <1>4, EndFacts DEF OpenAt
  <2>3. PICK j \in Leaves(R) : j < l /\ R[j].id = R[k].id
    BY <2>1, <2>2 DEF Nested
  <2> QED BY <2>2, <2>3, EndFacts
<1> QED BY <1>1, <1>2, <1>3, <1>4 DEF Nests

(* One event more, as seen by At, Enters and Leaves.                       *)
LEMMA AppendedEvent ==
  ASSUME NEW R, Lists(R), NEW e \in FileEvents
  PROVE  /\ Append(R, e) \in Seq(FileEvents)
         /\ Len(Append(R, e)) = Len(R) + 1
         /\ DOMAIN Append(R, e) = 1..(Len(R) + 1) /\ Len(R) \in Nat
         /\ Append(R, e)[Len(R) + 1] = e
         /\ \A n \in 1..Len(R) : Append(R, e)[n] = R[n]
         /\ Enters(R) \in SUBSET (1..Len(R)) /\ Leaves(R) \in SUBSET (1..Len(R))
         /\ \A ph : At(Append(R, e), ph) =
              IF e.phase = ph THEN At(R, ph) \cup {Len(R) + 1} ELSE At(R, ph)
<1> DEFINE K == Append(R, e)
<1>1. /\ K \in Seq(FileEvents) /\ DOMAIN K = 1..(Len(R) + 1) /\ Len(R) \in Nat
      /\ Len(K) = Len(R) + 1
      /\ K[Len(R) + 1] = e /\ \A n \in 1..Len(R) : K[n] = R[n]
      /\ DOMAIN R = 1..Len(R)
  BY DEF Lists
<1> HIDE DEF K
<1>2. Enters(R) \in SUBSET (1..Len(R)) /\ Leaves(R) \in SUBSET (1..Len(R))
  BY <1>1 DEF Enters, Leaves, At
<1>3. ASSUME NEW ph
      PROVE  At(K, ph) = IF e.phase = ph THEN At(R, ph) \cup {Len(R) + 1} ELSE At(R, ph)
  <2>1. \A i : i \in 1..(Len(R) + 1) <=> i \in 1..Len(R) \/ i = Len(R) + 1
    BY <1>1
  <2> QED BY <1>1, <2>1 DEF At
<1> QED BY <1>1, <1>2, <1>3 DEF K

(* What surrounds an event is decided when it happens.                     *)
LEMMA AroundStays ==
  ASSUME NEW R, Lists(R), NEW e \in FileEvents,
         NEW i, NEW k \in 1..Len(R)
  PROVE  Around(Append(R, e), i, k) <=> Around(R, i, k)
<1> DEFINE K == Append(R, e)
           n == Len(R) + 1
<1>1. /\ Len(R) \in Nat /\ K[n] = e /\ \A m \in 1..Len(R) : K[m] = R[m]
      /\ Enters(R) \in SUBSET (1..Len(R)) /\ Leaves(R) \in SUBSET (1..Len(R))
      /\ Enters(K) \in {Enters(R), Enters(R) \cup {n}}
      /\ Leaves(K) \in {Leaves(R), Leaves(R) \cup {n}}
  BY AppendedEvent DEF Enters, Leaves
<1> HIDE DEF K
<1>2. k < n /\ K[k] = R[k] /\ k \in Nat /\ ~(n < k)
  BY <1>1
<1>3. CASE i \in Enters(R)
  <2>1. i \in Enters(K) /\ K[i] = R[i]
    BY <1>1, <1>3
  <2>2. (\A j \in Leaves(K) : K[j].id = K[i].id => k < j)
        <=> (\A j \in Leaves(R) : R[j].id = R[i].id => k < j)
    BY <1>1, <1>2, <2>1
  <2> QED BY <1>2, <1>3, <2>1, <2>2 DEF Around, K
<1>4. CASE i \notin Enters(R)
  <2>1. i \in Enters(K) => ~(i < k)
    BY <1>1, <1>2, <1>4
  <2> QED BY <1>4, <2>1 DEF Around, K
<1> QED BY <1>3, <1>4 DEF K

(* What surrounds a new event are the open calls of its thread.            *)
LEMMA AroundNew ==
  ASSUME NEW R, Lists(R), NEW e \in FileEvents, e.phase # "leave", NEW i
  PROVE  Around(Append(R, e), i, Len(R) + 1) <=> OpenAt(R, i) /\ R[i].tid = e.tid
<1> DEFINE K == Append(R, e)
<1> PICK n \in Nat : n = Len(R) + 1 /\ Len(R) \in Nat
  BY ListFacts
<1>1. /\ K[n] = e /\ \A m \in 1..Len(R) : K[m] = R[m]
      /\ Enters(R) \in SUBSET (1..Len(R)) /\ Leaves(R) \in SUBSET (1..Len(R))
      /\ Enters(K) \in {Enters(R), Enters(R) \cup {n}}
      /\ Leaves(K) = Leaves(R)
  BY AppendedEvent DEF Enters, Leaves
<1> HIDE DEF K
<1>2. \A m \in 1..Len(R) : m < n /\ ~(n < m)
  OBVIOUS
<1>3. CASE i \in Enters(R)
  <2>1. i \in Enters(K) /\ K[i] = R[i] /\ i < n
    BY <1>1, <1>2, <1>3
  <2>2. (\A j \in Leaves(K) : K[j].id = K[i].id => n < j)
        <=> (\A j \in Leaves(R) : R[j].id # R[i].id)
    BY <1>1, <1>2, <2>1
  <2> QED BY <1>1, <1>3, <2>1, <2>2 DEF Around, OpenAt, K
<1>4. CASE i \notin Enters(R)
  <2>1. i \in Enters(K) => ~(i < n)
    BY <1>1, <1>4
  <2> QED BY <1>4, <2>1 DEF Around, OpenAt, K
<1> QED BY <1>3, <1>4

(* An instruction event opens and closes nothing.                          *)
LEMMA MoreInstruction ==
  ASSUME NEW R, Lists(R), Nested(R), NEW e \in FileEvents, e.phase = "instruction"
  PROVE  /\ Lists(Append(R, e)) /\ Nested(Append(R, e))
         /\ \A i : OpenAt(Append(R, e), i) <=> OpenAt(R, i)
<1> DEFINE K == Append(R, e)
<1>1. /\ K \in Seq(FileEvents) /\ \A m \in 1..Len(R) : K[m] = R[m]
      /\ Enters(R) \in SUBSET (1..Len(R)) /\ Leaves(R) \in SUBSET (1..Len(R))
      /\ Enters(K) = Enters(R) /\ Leaves(K) = Leaves(R)
  BY AppendedEvent DEF Enters, Leaves
<1>2. \A i, k \in Enters(R) : Around(K, i, k) <=> Around(R, i, k)
  BY <1>1, AroundStays
<1> HIDE DEF K
<1>3. \A m \in Enters(R) \cup Leaves(R) : K[m] = R[m]
  BY <1>1
<1>4. Lists(K)
  <2>1. \A i, k \in Enters(K) : K[i].id = K[k].id => i = k
    BY <1>1, <1>3 DEF Lists
  <2>2. \A j, l \in Leaves(K) : K[j].id = K[l].id => j = l
    BY <1>1, <1>3 DEF Lists
  <2>3. ASSUME NEW j \in Leaves(R)
        PROVE  \E i \in Enters(R) : i < j /\ K[i].id = K[j].id /\ K[i].tid = K[j].tid
    <3>1. PICK i \in Enters(R) : i < j /\ R[i].id = R[j].id /\ R[i].tid = R[j].tid
      BY DEF Lists
    <3> QED BY <1>3, <3>1
  <2> QED BY <1>1, <2>1, <2>2, <2>3 DEF Lists
<1>5. Nested(K)
  <2> SUFFICES ASSUME NEW i \in Enters(R), NEW k \in Enters(R), NEW l \in Leaves(R),
                      Around(R, i, k), R[l].id = R[i].id
               PROVE  \E j \in Leaves(R) : j < l /\ K[j].id = K[k].id
    BY <1>1, <1>2, <1>3 DEF Nested
  <2> QED BY <1>3 DEF Nested
<1>6. \A i : OpenAt(K, i) <=> OpenAt(R, i)
  BY <1>1, <1>3 DEF OpenAt
<1> QED BY <1>4, <1>5, <1>6 DEF K

(* An enter with an id that is not taken opens one call more.              *)
LEMMA MoreEnter ==
  ASSUME NEW R, Lists(R), Nested(R), NEW e \in FileEvents, e.phase = "enter",
         \A i \in Enters(R) : R[i].id # e.id
  PROVE  /\ Lists(Append(R, e)) /\ Nested(Append(R, e))
         /\ \A i : OpenAt(Append(R, e), i) <=> OpenAt(R, i) \/ i = Len(R) + 1
<1> DEFINE K == Append(R, e)
<1> PICK n \in Nat : n = Len(R) + 1 /\ Len(R) \in Nat
  BY ListFacts
<1>1. /\ K \in Seq(FileEvents) /\ \A m \in 1..Len(R) : K[m] = R[m]
      /\ K[n] = e
      /\ Enters(R) \in SUBSET (1..Len(R)) /\ Leaves(R) \in SUBSET (1..Len(R))
      /\ Enters(K) = Enters(R) \cup {n} /\ Leaves(K) = Leaves(R)
  BY AppendedEvent DEF Enters, Leaves
<1>2. \A i : \A k \in Enters(R) : Around(K, i, k) <=> Around(R, i, k)
  BY <1>1, AroundStays
<1>3. \A i : Around(K, i, n) <=> OpenAt(R, i) /\ R[i].tid = e.tid
  BY AroundNew
<1> HIDE DEF K
<1>4. \A m \in Enters(R) \cup Leaves(R) : K[m] = R[m] /\ m # n
  BY <1>1
<1>5. \A j \in Leaves(R) : R[j].id # e.id
  BY DEF Lists
<1>6. Lists(K)
  <2>1. \A i, k \in Enters(K) : K[i].id = K[k].id => i = k
    BY <1>1, <1>4 DEF Lists
  <2>2. \A j, l \in Leaves(K) : K[j].id = K[l].id => j = l
    <3>1. \A j \in Leaves(K) : j \in Leaves(R) /\ K[j] = R[j]
      BY <1>1, <1>4
    <3> QED BY <3>1 DEF Lists
  <2>3. \A j \in Leaves(K) : \E i \in Enters(K) :
          i < j /\ K[i].id = K[j].id /\ K[i].tid = K[j].tid
    BY <1>1, <1>4 DEF Lists
  <2> QED BY <1>1, <2>1, <2>2, <2>3 DEF Lists
<1>7. Nested(K)
  <2> SUFFICES ASSUME NEW i \in Enters(K), NEW k \in Enters(K), NEW l \in Leaves(K),
                      Around(K, i, k), K[l].id = K[i].id
               PROVE  \E j \in Leaves(K) : j < l /\ K[j].id = K[k].id
    BY DEF Nested
  <2>1. i # n
    BY <1>1, <1>4, <1>5
  <2>2. k # n
    BY <1>1, <1>3, <1>4, <2>1 DEF OpenAt
  <2>3. i \in Enters(R) /\ k \in Enters(R) /\ Around(R, i, k) /\ R[l].id = R[i].id
    BY <1>1, <1>2, <1>4, <2>1, <2>2
  <2> QED BY <1>1, <1>4, <2>3 DEF Nested
<1>8. \A i : OpenAt(K, i) <=> OpenAt(R, i) \/ i = n
  BY <1>1, <1>4, <1>5 DEF OpenAt
<1> QED BY <1>6, <1>7, <1>8 DEF K

(* The leave of the last entered open call of a thread closes that call.   *)
LEMMA MoreLeave ==
  ASSUME NEW R, Lists(R), Nested(R), NEW e \in FileEvents, e.phase = "leave",
         NEW o, OpenAt(R, o), R[o].id = e.id, R[o].tid = e.tid,
         \A i : OpenAt(R, i) /\ R[i].tid = e.tid => i <= o
  PROVE  /\ Lists(Append(R, e)) /\ Nested(Append(R, e))
         /\ \A i : OpenAt(Append(R, e), i) <=> OpenAt(R, i) /\ i # o
<1> DEFINE K == Append(R, e)
<1> PICK n \in Nat : n = Len(R) + 1 /\ Len(R) \in Nat
  BY ListFacts
<1>1. /\ K \in Seq(FileEvents) /\ \A m \in 1..Len(R) : K[m] = R[m]
      /\ K[n] = e
      /\ Enters(R) \in SUBSET (1..Len(R)) /\ Leaves(R) \in SUBSET (1..Len(R))
      /\ Enters(K) = Enters(R) /\ Leaves(K) = Leaves(R) \cup {n}
  BY AppendedEvent DEF Enters, Leaves
<1>2. \A i : \A k \in Enters(R) : Around(K, i, k) <=> Around(R, i, k)
  BY <1>1, AroundStays
<1> HIDE DEF K
<1>4. \A m \in Enters(R) \cup Leaves(R) : K[m] = R[m] /\ m # n /\ m < n
  BY <1>1
<1>5. \A j \in Leaves(R) : R[j].id # e.id
  BY DEF OpenAt
<1>6. o \in Enters(R)
  BY DEF OpenAt
<1>7. Lists(K)
  <2>1. \A i, k \in Enters(K) : K[i].id = K[k].id => i = k
    BY <1>1, <1>4 DEF Lists
  <2>2. \A j, l \in Leaves(K) : K[j].id = K[l].id => j = l
    BY <1>1, <1>4, <1>5 DEF Lists
  <2>3. \A j \in Leaves(K) : \E i \in Enters(K) :
          i < j /\ K[i].id = K[j].id /\ K[i].tid = K[j].tid
    <3>1. ASSUME NEW j \in Leaves(R)
          PROVE  \E i \in Enters(K) : i < j /\ K[i].id = K[j].id /\ K[i].tid = K[j].tid
      BY <1>1, <1>4 DEF Lists
    <3>2. o < n /\ K[o].id = K[n].id /\ K[o].tid = K[n].tid
      BY <1>1, <1>4, <1>6
    <3> QED BY <1>1, <1>6, <3>1, <3>2
  <2> QED BY <1>1, <2>1, <2>2, <2>3 DEF Lists
<1>8. Nested(K)
  <2> SUFFICES ASSUME NEW i \in Enters(R), NEW k \in Enters(R), NEW l \in Leaves(K),
                      Around(R, i, k), K[l].id = K[i].id
               PROVE  \E j \in Leaves(K) : j < l /\ K[j].id = K[k].id
    BY <1>1, <1>2 DEF Nested
  <2>1. CASE l \in Leaves(R)
    <3>1. R[l].id = R[i].id
      BY <1>4, <2>1
    <3>2. PICK j \in Leaves(R) : j < l /\ R[j].id = R[k].id
      BY <2>1, <3>1 DEF Nested
    <3> QED BY <1>1, <1>4, <3>2
  <2>2. CASE l = n
    <3>1. i = o
      BY <1>1, <1>4, <1>6, <2>2 DEF Lists
    <3>2. o < k /\ R[k].tid = e.tid /\ ~(k <= o)
      <4>1. o \in Nat /\ k \in Nat
        BY <1>1, <1>6
      <4>2. o < k /\ R[k].tid = e.tid
        BY <3>1 DEF Around
      <4> QED BY <4>1, <4>2
    <3>3. ~OpenAt(R, k)
      BY <3>2
    <3>4. PICK j \in Leaves(R) : R[j].id = R[k].id
      BY <3>3 DEF OpenAt
    <3> QED BY <1>1, <1>4, <2>2, <3>4
  <2> QED BY <1>1, <2>1, <2>2
<1>9. \A i : OpenAt(K, i) <=> OpenAt(R, i) /\ i # o
  <2> SUFFICES ASSUME NEW i \in Enters(R) PROVE OpenAt(K, i) <=> OpenAt(R, i) /\ i # o
    BY <1>1 DEF OpenAt
  <2>1. (\A j \in Leaves(K) : K[j].id # K[i].id)
          <=> (\A j \in Leaves(R) : R[j].id # R[i].id) /\ e.id # R[i].id
    BY <1>1, <1>4
  <2>2. e.id = R[i].id <=> i = o
    BY <1>6 DEF Lists
  <2> QED BY <1>1, <2>1, <2>2 DEF OpenAt
<1> QED BY <1>7, <1>8, <1>9 DEF K

-----------------------------------------------------------------------------
(* Where a call was entered.                                               *)

Pos(R, c) == CHOOSE i \in Enters(R) : R[i].id = c
CallIds(R) == {R[i].id : i \in Enters(R)}

(* Ids and the positions of enters determine each other.                   *)
LEMMA PosFacts ==
  ASSUME NEW R, Lists(R)
  PROVE  /\ \A c \in CallIds(R) : Pos(R, c) \in Enters(R) /\ R[Pos(R, c)].id = c
         /\ \A i \in Enters(R) : Pos(R, R[i].id) = i /\ R[i].id \in CallIds(R)
<1>1. \A c \in CallIds(R) : Pos(R, c) \in Enters(R) /\ R[Pos(R, c)].id = c
  BY DEF Pos, CallIds
<1>2. \A i \in Enters(R) : R[i].id \in CallIds(R)
  BY DEF CallIds
<1> QED BY <1>1, <1>2 DEF Lists

(* Events that follow do not move an enter.                                *)
LEMMA PosStays ==
  ASSUME NEW R, Lists(R), NEW e \in FileEvents, Lists(Append(R, e))
  PROVE  /\ \A c \in CallIds(R) : Pos(Append(R, e), c) = Pos(R, c)
         /\ CallIds(Append(R, e)) = IF e.phase = "enter" THEN CallIds(R) \cup {e.id}
                                                         ELSE CallIds(R)
         /\ e.phase = "enter" => Pos(Append(R, e), e.id) = Len(R) + 1
<1> DEFINE K == Append(R, e)
<1> PICK n \in Nat : n = Len(R) + 1 /\ Len(R) \in Nat
  BY ListFacts
<1>1. /\ \A m \in 1..Len(R) : K[m] = R[m]
      /\ K[n] = e /\ Enters(R) \in SUBSET (1..Len(R))
      /\ Enters(K) = IF e.phase = "enter" THEN Enters(R) \cup {n} ELSE Enters(R)
  BY AppendedEvent DEF Enters
<1>2. Lists(K)
  OBVIOUS
<1> HIDE DEF K
<1>3. \A i \in Enters(R) : i \in Enters(K) /\ K[i] = R[i]
  BY <1>1
<1>4. \A c \in CallIds(R) : Pos(K, c) = Pos(R, c)
  <2> TAKE c \in CallIds(R)
  <2>1. Pos(R, c) \in Enters(R) /\ R[Pos(R, c)].id = c
    BY PosFacts
  <2>2. Pos(R, c) \in Enters(K) /\ K[Pos(R, c)].id = c
    BY <1>3, <2>1
  <2> QED BY <1>2, <2>2, PosFacts
<1>5. e.phase = "enter" => Pos(K, e.id) = n
  BY <1>1, <1>2, PosFacts
<1>6. CallIds(K) = IF e.phase = "enter" THEN CallIds(R) \cup {e.id} ELSE CallIds(R)
  BY <1>1, <1>3 DEF CallIds
<1> QED BY <1>4, <1>5, <1>6 DEF K
-----------------------------------------------------------------------------
(* The lists of the reader: what is on them, in the order of the file.     *)

Has(s, x) == \E i \in DOMAIN s : s[i] = x
Rising(R, s) == \A i, j \in DOMAIN s : i < j => Pos(R, s[i]) < Pos(R, s[j])

(* Appending what was entered last keeps a list in the order of the file.  *)
LEMMA Appended ==
  ASSUME NEW S, NEW s \in Seq(S), NEW v \in S
  PROVE  /\ Append(s, v) \in Seq(S) /\ Append(s, v) # <<>>
         /\ \A x : Has(Append(s, v), x) <=> Has(s, x) \/ x = v
         /\ \A R : Rising(R, s) /\ (\A x : Has(s, x) => Pos(R, x) < Pos(R, v))
                   => Rising(R, Append(s, v))
<1> DEFINE a == Append(s, v)
<1> PICK n \in Nat : n = Len(s)
  OBVIOUS
<1>1. /\ a \in Seq(S) /\ DOMAIN s = 1..n /\ DOMAIN a = 1..(n + 1)
      /\ a[n + 1] = v /\ (\A i \in 1..n : a[i] = s[i]) /\ Len(a) = n + 1
  OBVIOUS
<1>2. Len(<<>>) = 0 /\ n + 1 # 0
  OBVIOUS
<1> HIDE DEF a
<1>3. a # <<>>
  BY <1>1, <1>2
<1>4. \A i : i \in DOMAIN a <=> i \in DOMAIN s \/ i = n + 1
  BY <1>1
<1>5. \A x : Has(a, x) <=> Has(s, x) \/ x = v
  BY <1>1, <1>4 DEF Has
<1>6. ASSUME NEW R, Rising(R, s), \A x : Has(s, x) => Pos(R, x) < Pos(R, v)
      PROVE  Rising(R, a)
  <2> SUFFICES ASSUME NEW i \in DOMAIN a, NEW j \in DOMAIN a, i < j
               PROVE  Pos(R, a[i]) < Pos(R, a[j])
    BY DEF Rising
  <2>1. i \in DOMAIN s
    BY <1>1
  <2>2. CASE j = n + 1
    BY <1>1, <1>6, <2>1, <2>2 DEF Has
  <2>3. CASE j \in DOMAIN s
    BY <1>1, <1>6, <2>1, <2>3 DEF Rising
  <2> QED BY <1>4, <2>2, <2>3
<1> QED BY <1>1, <1>3, <1>5, <1>6 DEF a

(* Dropping the last of a rising list drops that call and no other.        *)
LEMMA Popped ==
  ASSUME NEW S, NEW s \in Seq(S), s # <<>>, NEW R, Rising(R, s),
         \A x : Has(s, x) => Pos(R, x) \in Nat
  PROVE  /\ SubSeq(s, 1, Len(s) - 1) \in Seq(S)
         /\ \A x : Has(SubSeq(s, 1, Len(s) - 1), x) <=> Has(s, x) /\ x # s[Len(s)]
         /\ Rising(R, SubSeq(s, 1, Len(s) - 1))
<1> DEFINE a == SubSeq(s, 1, Len(s) - 1)
<1> PICK n \in Nat : n = Len(s)
  OBVIOUS
<1>1. n # 0
  OBVIOUS
<1>2. DOMAIN s = 1..n
  OBVIOUS
<1>3. /\ a \in Seq(S) /\ DOMAIN a = 1..(n - 1)
      /\ \A i \in 1..(n - 1) : a[i] = s[i]
  BY <1>1
<1> HIDE DEF a
<1>4. \A i \in 1..(n - 1) : s[i] # s[n]
  <2> TAKE i \in 1..(n - 1)
  <2>1. i \in 1..n /\ n \in 1..n /\ i < n
    BY <1>1
  <2>2. Pos(R, s[i]) < Pos(R, s[n]) /\ Pos(R, s[i]) \in Nat
    BY <1>2, <2>1 DEF Rising, Has
  <2> QED BY <2>2
<1>5. \A i : i \in 1..n <=> i \in 1..(n - 1) \/ i = n
  BY <1>1
<1>6. \A x : Has(a, x) <=> Has(s, x) /\ x # s[n]
  BY <1>2, <1>3, <1>4, <1>5 DEF Has
<1>7. Rising(R, a)
  BY <1>2, <1>3, <1>5 DEF Rising
<1> QED BY <1>3, <1>6, <1>7 DEF a

(* The last of a rising list has the greatest position.                    *)
LEMMA LastIsGreatest ==
  ASSUME NEW S, NEW s \in Seq(S), NEW R, Rising(R, s), s # <<>>,
         \A x : Has(s, x) => Pos(R, x) \in Nat
  PROVE  /\ Has(s, s[Len(s)])
         /\ \A x : Has(s, x) => Pos(R, x) <= Pos(R, s[Len(s)])
<1> PICK n \in Nat : n = Len(s)
  OBVIOUS
<1>1. n # 0 /\ DOMAIN s = 1..n
  OBVIOUS
<1>2. Has(s, s[n])
  BY <1>1 DEF Has
<1>3. ASSUME NEW i \in 1..n
      PROVE  Pos(R, s[i]) <= Pos(R, s[n])
  <2>1. CASE i = n
    <3>1. Pos(R, s[n]) \in Nat
      BY <1>2
    <3> QED BY <2>1, <3>1
  <2>2. CASE i # n
    <3>1. i < n /\ n \in 1..n
      BY <1>1, <2>2
    <3>2. Pos(R, s[i]) < Pos(R, s[n])
      BY <1>1, <3>1 DEF Rising
    <3>3. Pos(R, s[i]) \in Nat /\ Pos(R, s[n]) \in Nat
      BY <1>1, <1>2 DEF Has
    <3> QED BY <3>2, <3>3
  <2> QED BY <2>1, <2>2
<1> QED BY <1>1, <1>2, <1>3 DEF Has

(* Order depends only on the positions of what is listed.                  *)
LEMMA StillRising ==
  ASSUME NEW R, NEW K, NEW s, Rising(R, s), \A x : Has(s, x) => Pos(K, x) = Pos(R, x)
  PROVE  Rising(K, s)
BY DEF Rising, Has
-----------------------------------------------------------------------------
(* The innermost call around an event, and what makes a file malformed.    *)

Inner(R, i, k) == Around(R, i, k) /\ \A h : Around(R, h, k) => h <= i

(* Which call is innermost is decided when an event happens.               *)
LEMMA InnerStays ==
  ASSUME NEW R, Lists(R), NEW e \in FileEvents, NEW k \in 1..Len(R)
  PROVE  /\ \A i : Inner(Append(R, e), i, k) <=> Inner(R, i, k)
         /\ (\A i : ~Around(Append(R, e), i, k)) <=> (\A i : ~Around(R, i, k))
BY AroundStays DEF Inner

(* There is at most one innermost call.                                    *)
LEMMA InnerIds ==
  ASSUME NEW R, Lists(R), NEW k \in 1..Len(R), NEW i, Inner(R, i, k)
  PROVE  /\ i \in Enters(R) /\ R[i].id \in CallIds(R) /\ Pos(R, R[i].id) = i
         /\ \A h : Inner(R, h, k) => h = i
<1>1. i \in Enters(R) /\ i \in Nat
  BY ListFacts DEF Inner, Around
<1>2. ASSUME NEW h, Inner(R, h, k)
      PROVE  h = i
  <2>1. h \in Nat
    BY <1>2, ListFacts DEF Inner, Around
  <2>2. h <= i /\ i <= h
    BY <1>2 DEF Inner
  <2> QED BY <1>1, <2>1, <2>2
<1> QED BY <1>1, <1>2, PosFacts

(* A second enter with a taken id: no forest, whatever follows.            *)
LEMMA RepeatedEnter ==
  ASSUME NEW R, Lists(R), NEW e \in FileEvents, e.phase = "enter", e.id \in CallIds(R)
  PROVE  ~Nests(Append(R, e))
<1> DEFINE K == Append(R, e)
<1> PICK n \in Nat : n = Len(R) + 1 /\ Len(R) \in Nat
  BY ListFacts
<1>1. /\ \A m \in 1..Len(R) : K[m] = R[m]
      /\ K[n] = e /\ Enters(R) \in SUBSET (1..Len(R))
      /\ Enters(K) = Enters(R) \cup {n}
  BY AppendedEvent DEF Enters
<1> HIDE DEF K
<1>2. PICK i \in Enters(R) : R[i].id = e.id
  BY DEF CallIds
<1>3. i # n /\ i \in Enters(K) /\ n \in Enters(K) /\ K[i].id = K[n].id
  BY <1>1, <1>2
<1> QED BY <1>3 DEF Nests, K

(* A leave of anything but the last entered open call of its thread leaves *)
(* no forest: it is an orphan, a second leave, or crosses an open call.    *)
LEMMA StrayLeave ==
  ASSUME NEW R, Lists(R), NEW e \in FileEvents, e.phase = "leave",
         ~ \E o : /\ OpenAt(R, o) /\ R[o].id = e.id /\ R[o].tid = e.tid
                  /\ \A i : OpenAt(R, i) /\ R[i].tid = e.tid => i <= o
  PROVE  ~Nests(Append(R, e))
<1> DEFINE K == Append(R, e)
<1> PICK n \in Nat : n = Len(R) + 1 /\ Len(R) \in Nat
  BY ListFacts
<1>1. /\ \A m \in 1..Len(R) : K[m] = R[m]
      /\ K[n] = e
      /\ Enters(R) \in SUBSET (1..Len(R)) /\ Leaves(R) \in SUBSET (1..Len(R))
      /\ Enters(K) = Enters(R) /\ Leaves(K) = Leaves(R) \cup {n}
  BY AppendedEvent DEF Enters, Leaves
<1> HIDE DEF K
<1>2. \A m \in Enters(R) \cup Leaves(R) : K[m] = R[m] /\ m # n /\ m < n /\ m \in Nat
  BY <1>1
<1> SUFFICES ASSUME Nests(K) PROVE FALSE
  BY DEF K
<1>3. PICK i \in Enters(R) : n \in LeavesOf(K, i)
  BY <1>1 DEF Nests
<1>4. K[n].id = K[i].id /\ K[n].tid = K[i].tid
  BY <1>3 DEF LeavesOf
<1>5. R[i].id = e.id /\ R[i].tid = e.tid
  BY <1>1, <1>2, <1>4
<1>6. \A j \in Leaves(R) : R[j].id = R[i].id => j \in LeavesOf(K, i)
  BY <1>1, <1>2, ListFacts DEF LeavesOf, Lists
<1>7. CASE OpenAt(R, i)
  <2>1. PICK k : OpenAt(R, k) /\ R[k].tid = e.tid /\ ~(k <= i)
    BY <1>5, <1>7
  <2>2. k \in Enters(R) /\ i < k /\ k < n
    BY <1>2, <2>1 DEF OpenAt
  <2>3. \A j \in LeavesOf(K, i) : j = n
    BY <1>1, <1>2, <1>7 DEF LeavesOf, OpenAt
  <2>4. LeavesOf(K, i) = {n}
    BY <1>3, <2>3
  <2>5. End(K, i) = n
    BY <2>4 DEF End
  <2>6. Encloses(K, i, k)
    BY <1>2, <1>5, <2>1, <2>2, <2>5 DEF Encloses
  <2>7. R[k].id # R[i].id
    BY <2>2, <1>2 DEF Lists
  <2>8. LeavesOf(K, k) = {}
    BY <1>1, <1>2, <1>5, <2>1, <2>2, <2>7 DEF LeavesOf, OpenAt
  <2>9. End(K, k) = n + 1
    BY <2>8, AppendedEvent DEF End, K
  <2> QED BY <1>1, <2>2, <2>4, <2>5, <2>6, <2>9 DEF Nests
<1>8. CASE ~OpenAt(R, i)
  <2>1. PICK j \in Leaves(R) : R[j].id = R[i].id
    BY <1>8 DEF OpenAt
  <2>2. {j, n} \subseteq LeavesOf(K, i) /\ j # n
    BY <1>2, <1>3, <1>6, <2>1
  <2>3. LeavesOf(K, i) \subseteq 1..n /\ IsFiniteSet(1..n)
    <3>1. \A m \in Leaves(K) : m \in 1..n
      BY <1>1
    <3>2. IsFiniteSet(1..n)
      BY FS_Interval
    <3>3. \A m \in LeavesOf(K, i) : m \in Leaves(K)
      BY DEF LeavesOf
    <3> QED BY <3>1, <3>2, <3>3
  <2>4. IsFiniteSet(LeavesOf(K, i))
    BY <2>3, FS_Subset
  <2>5. Cardinality({j, n}) = 2 /\ Cardinality({j, n}) <= Cardinality(LeavesOf(K, i))
    <3>1. Cardinality({j}) = 1 /\ IsFiniteSet({j})
      BY FS_Singleton
    <3>2. Cardinality({j} \cup {n}) = Cardinality({j}) + 1
      BY <2>2, <3>1, FS_AddElement
    <3>3. {j, n} = {j} \cup {n}
      OBVIOUS
    <3>a. Cardinality({j, n}) = Cardinality({j}) + 1
      BY <3>2, <3>3
    <3>4. Cardinality({j, n}) = 2
      BY <3>1, <3>a
    <3>5. Cardinality({j, n}) <= Cardinality(LeavesOf(K, i))
      BY <2>2, <2>4, FS_Subset
    <3> QED BY <3>4, <3>5
  <2>6. Cardinality(LeavesOf(K, i)) <= 1 /\ Cardinality(LeavesOf(K, i)) \in Nat
    BY <1>1, <2>4, FS_CardinalityType DEF Nests
  <2> QED BY <2>5, <2>6
<1> QED BY <1>7, <1>8

(* A file is complete when no call is open.                                *)
LEMMA CompleteFile ==
  ASSUME NEW R, Lists(R)
  PROVE  Complete(R) <=> \A i : ~OpenAt(R, i)
BY EndFacts DEF Complete, OpenAt
-----------------------------------------------------------------------------
(* The reader.                                                             *)

Shapes ==
  /\ verdict \in {"reading", "parsed", "malformed"}
  /\ parent \in [Calls -> Ids \cup {NoParent}] /\ Calls \subseteq Ids
  /\ children \in [Calls -> Seq(Ids)] /\ instructions \in [Calls -> Seq(Nat)]
  /\ roots \in [Tids -> Seq(Ids)] /\ stacks \in [Tids -> Seq(Ids)]
  /\ unscoped \in Seq(Nat)

Live == verdict # "malformed"
EnteredAt(c) == Pos(read, c)

FileInv ==
  /\ Lists(read) /\ Nested(read)
  /\ Calls = CallIds(read) /\ left = {read[j].id : j \in Leaves(read)}
StackInv ==
  \A t \in Tids :
    /\ Rising(read, stacks[t])
    /\ \A c : Has(stacks[t], c) <=>
         c \in Calls /\ OpenAt(read, EnteredAt(c)) /\ read[EnteredAt(c)].tid = t
RootInv ==
  \A t \in Tids :
    /\ Rising(read, roots[t])
    /\ \A c : Has(roots[t], c) <=>
         c \in Calls /\ parent[c] = NoParent /\ read[EnteredAt(c)].tid = t
ParentInv ==
  \A c \in Calls :
    \/ parent[c] = NoParent /\ \A i : ~Around(read, i, EnteredAt(c))
    \/ parent[c] \in Calls /\ Inner(read, EnteredAt(parent[c]), EnteredAt(c))
ChildInv ==
  \A c \in Calls :
    /\ Rising(read, children[c])
    /\ \A d : Has(children[c], d) <=> d \in Calls /\ parent[d] = c
InstructionInv ==
  /\ \A c \in Calls : \A n :
       Has(instructions[c], n) <=>
         n \in At(read, "instruction") /\ Inner(read, EnteredAt(c), n)
  /\ \A n : Has(unscoped, n) <=>
       n \in At(read, "instruction") /\ \A i : ~Around(read, i, n)
  /\ \A n \in At(read, "instruction") :
       (\A i : ~Around(read, i, n)) \/ \E i : Inner(read, i, n)
ReaderInv ==
  /\ FileInv /\ StackInv /\ RootInv /\ ParentInv /\ ChildInv /\ InstructionInv
VerdictInv ==
  /\ verdict = "malformed" => ~Forest(read)
  /\ verdict = "parsed" => \A t \in Tids : stacks[t] = <<>>
IInv == Shapes /\ TypeOK /\ (Live => ReaderInv) /\ VerdictInv

(* The top of a stack is the last entered open call of its thread; an      *)
(* empty stack means that its thread has none.                             *)
LEMMA TopOfStack ==
  ASSUME Shapes, FileInv, StackInv, NEW t \in Tids
  PROVE  /\ stacks[t] = <<>> => \A i : ~(OpenAt(read, i) /\ read[i].tid = t)
         /\ stacks[t] # <<>> =>
              /\ Top(t) \in Calls /\ OpenAt(read, EnteredAt(Top(t)))
              /\ EnteredAt(Top(t)) \in Enters(read) /\ read[EnteredAt(Top(t))].id = Top(t)
              /\ read[EnteredAt(Top(t))].tid = t
              /\ \A i : OpenAt(read, i) /\ read[i].tid = t => i <= EnteredAt(Top(t))
<1>1. \A i : OpenAt(read, i) /\ read[i].tid = t =>
        /\ Has(stacks[t], read[i].id) /\ EnteredAt(read[i].id) = i
  <2> TAKE i
  <2> HAVE OpenAt(read, i) /\ read[i].tid = t
  <2>1. i \in Enters(read)
    BY DEF OpenAt
  <2>2. Pos(read, read[i].id) = i /\ read[i].id \in CallIds(read)
    BY <2>1, PosFacts DEF FileInv
  <2> QED BY <2>2 DEF StackInv, FileInv, EnteredAt
<1>2. stacks[t] \in Seq(Ids)
  BY DEF Shapes
<1>3. ASSUME stacks[t] = <<>>
      PROVE  \A i : ~(OpenAt(read, i) /\ read[i].tid = t)
  <2>1. \A x : ~Has(stacks[t], x)
    BY <1>3 DEF Has
  <2> QED BY <1>1, <2>1
<1>4. ASSUME stacks[t] # <<>>
      PROVE  /\ Has(stacks[t], Top(t))
             /\ \A x : Has(stacks[t], x) => EnteredAt(x) <= EnteredAt(Top(t))
  <2>1. \A x : Has(stacks[t], x) => Pos(read, x) \in Nat
    BY ListFacts DEF StackInv, FileInv, EnteredAt, OpenAt
  <2>2. Rising(read, stacks[t])
    BY DEF StackInv
  <2> QED BY <1>2, <1>4, <2>1, <2>2, LastIsGreatest DEF Top, EnteredAt
<1>5. ASSUME stacks[t] # <<>>
      PROVE  /\ Top(t) \in Calls /\ OpenAt(read, EnteredAt(Top(t)))
             /\ EnteredAt(Top(t)) \in Enters(read) /\ read[EnteredAt(Top(t))].id = Top(t)
             /\ read[EnteredAt(Top(t))].tid = t
  <2>1. Top(t) \in Calls /\ OpenAt(read, EnteredAt(Top(t))) /\ read[EnteredAt(Top(t))].tid = t
    BY <1>4, <1>5 DEF StackInv
  <2> QED BY <2>1, PosFacts DEF FileInv, EnteredAt
<1> QED BY <1>1, <1>3, <1>4, <1>5

(* Stacks that hold the open calls hold each once and none that has left.  *)
LEMMA LiveTypes ==
  ASSUME Shapes, FileInv, StackInv
  PROVE  TypeOK
<1>1. DOMAIN children = Calls /\ DOMAIN instructions = Calls
  BY DEF Shapes
<1>2. left \subseteq Calls
  BY ListFacts DEF FileInv, Lists, CallIds
<1>3. ASSUME NEW t \in Tids, NEW i \in DOMAIN stacks[t]
      PROVE  stacks[t][i] \in Calls \ left
  <2>1. Has(stacks[t], stacks[t][i])
    BY DEF Has
  <2>2. stacks[t][i] \in Calls /\ OpenAt(read, EnteredAt(stacks[t][i]))
    BY <2>1 DEF StackInv
  <2>3. read[EnteredAt(stacks[t][i])].id = stacks[t][i]
    BY <2>2, PosFacts DEF FileInv, EnteredAt
  <2>4. stacks[t][i] \notin left
    BY <2>2, <2>3 DEF OpenAt, FileInv
  <2> QED BY <2>2, <2>4
<1>4. ASSUME NEW t \in Tids, NEW i \in DOMAIN stacks[t], NEW j \in DOMAIN stacks[t],
             stacks[t][i] = stacks[t][j]
      PROVE  i = j
  <2>1. Has(stacks[t], stacks[t][i])
    BY DEF Has
  <2>2. Pos(read, stacks[t][i]) \in Nat
    BY <2>1, ListFacts DEF StackInv, FileInv, EnteredAt, OpenAt
  <2>3. ~(Pos(read, stacks[t][i]) < Pos(read, stacks[t][j]))
        /\ ~(Pos(read, stacks[t][j]) < Pos(read, stacks[t][i]))
    BY <1>4, <2>2
  <2>4. ~(i < j) /\ ~(j < i)
    BY <2>3 DEF StackInv, Rising
  <2>5. i \in Nat /\ j \in Nat
    BY DEF Shapes
  <2> QED BY <2>4, <2>5
<1> QED BY <1>1, <1>2, <1>3, <1>4 DEF TypeOK, Shapes

(* What a step reads is an event of the file.                              *)
LEMMA EventTyped ==
  ASSUME Shapes, FileInv, NEW t \in Tids, NEW k \in Kinds, NEW c \in Nat,
         NEW ph \in Phases, Reads(ph, t, k, c)
  PROVE  LET e == Event(k, ph, t, Len(read) + 1, c) IN
         /\ e \in FileEvents /\ e.phase = ph /\ e.tid = t /\ e.id = c
         /\ read' = Append(read, e) /\ verdict = "reading"
<1>1. Len(read) + 1 \in Nat \ {0}
  BY ListFacts DEF FileInv
<1> QED BY <1>1 DEF Event, FileEvents, EventSet, Reads

(* An event more changes nothing about the calls and the events before it. *)
LEMMA NothingMoves ==
  ASSUME FileInv, NEW e \in FileEvents, read' = Append(read, e), Lists(read')
  PROVE  /\ \A c \in Calls : /\ Pos(read', c) = EnteredAt(c) /\ EnteredAt(c) \in 1..Len(read)
                             /\ EnteredAt(c) \in Nat /\ EnteredAt(c) \in Enters(read)
                             /\ read'[EnteredAt(c)] = read[EnteredAt(c)] /\ read[EnteredAt(c)].id = c
         /\ \A n \in 1..Len(read) : \A i : Inner(read', i, n) <=> Inner(read, i, n)
         /\ \A n \in 1..Len(read) :
              (\A i : ~Around(read', i, n)) <=> (\A i : ~Around(read, i, n))
         /\ \A s : Rising(read, s) /\ (\A x : Has(s, x) => x \in Calls) => Rising(read', s)
<1>1. Lists(read) /\ Calls = CallIds(read)
  BY DEF FileInv
<1>2. /\ \A n \in 1..Len(read) : read'[n] = read[n]
      /\ Enters(read) \in SUBSET (1..Len(read)) /\ Len(read) \in Nat
  BY <1>1, AppendedEvent
<1>3. \A c \in Calls : /\ Pos(read', c) = EnteredAt(c) /\ EnteredAt(c) \in 1..Len(read)
                        /\ EnteredAt(c) \in Nat /\ EnteredAt(c) \in Enters(read)
                        /\ read'[EnteredAt(c)] = read[EnteredAt(c)] /\ read[EnteredAt(c)].id = c
  BY <1>1, <1>2, PosFacts, PosStays DEF EnteredAt
<1>4. /\ \A n \in 1..Len(read) : \A i : Inner(read', i, n) <=> Inner(read, i, n)
      /\ \A n \in 1..Len(read) :
              (\A i : ~Around(read', i, n)) <=> (\A i : ~Around(read, i, n))
  BY <1>1, InnerStays
<1>5. \A s : Rising(read, s) /\ (\A x : Has(s, x) => x \in Calls) => Rising(read', s)
  BY <1>3, StillRising DEF EnteredAt
<1> QED BY <1>3, <1>4, <1>5

(* Instruction, Leave and Enter keep each part of the invariant.           *)
LEMMA InstructionStep ==
  ASSUME Shapes, ReaderInv, NEW t \in Tids, NEW k \in Kinds, Instruction(t, k)
  PROVE  ReaderInv'
<1> DEFINE e == Event(k, "instruction", t, Len(read) + 1, 0)
<1>1. /\ e \in FileEvents /\ e.phase = "instruction" /\ e.tid = t
      /\ read' = Append(read, e)
  BY EventTyped DEF Instruction, ReaderInv, Phases
<1> HIDE DEF e
<1> PICK n \in Nat : n = Len(read) + 1 /\ Len(read) \in Nat
  BY ListFacts DEF ReaderInv, FileInv
<1>2. Lists(read) /\ Nested(read) /\ FileInv
  BY DEF ReaderInv, FileInv
<1>3. /\ Lists(read') /\ Nested(read')
      /\ \A i : OpenAt(read', i) <=> OpenAt(read, i)
  BY <1>1, <1>2, MoreInstruction
<1>4. /\ At(read', "instruction") = At(read, "instruction") \cup {n}
      /\ Enters(read') = Enters(read) /\ Leaves(read') = Leaves(read)
      /\ \A m \in 1..Len(read) : read'[m] = read[m]
      /\ Enters(read) \in SUBSET (1..Len(read)) /\ Leaves(read) \in SUBSET (1..Len(read))
      /\ Len(read') = n
  BY <1>1, <1>2, AppendedEvent DEF Enters, Leaves
<1>5. At(read, "instruction") \in SUBSET (1..Len(read)) /\ n \notin 1..Len(read)
  BY <1>2, ListFacts DEF At
<1>6. /\ \A c \in Calls : /\ Pos(read', c) = EnteredAt(c) /\ EnteredAt(c) \in 1..Len(read)
                           /\ EnteredAt(c) \in Nat /\ EnteredAt(c) \in Enters(read)
                           /\ read'[EnteredAt(c)] = read[EnteredAt(c)] /\ read[EnteredAt(c)].id = c
      /\ \A m \in 1..Len(read) : \A i : Inner(read', i, m) <=> Inner(read, i, m)
      /\ \A m \in 1..Len(read) :
           (\A i : ~Around(read', i, m)) <=> (\A i : ~Around(read, i, m))
      /\ \A s : Rising(read, s) /\ (\A x : Has(s, x) => x \in Calls) => Rising(read', s)
  BY <1>1, <1>2, <1>3, NothingMoves
<1>7. UNCHANGED <<parent, children, left, roots, stacks>> /\ Calls' = Calls
  BY DEF Instruction, Calls
<1>8. \A i : Around(read', i, n) <=> OpenAt(read, i) /\ read[i].tid = t
  BY <1>1, <1>2, AroundNew
<1>9. FileInv'
  <2>1. CallIds(read') = CallIds(read)
    BY <1>1, <1>2, <1>3, PosStays
  <2>2. \A j \in Leaves(read) : read'[j] = read[j]
    BY <1>4
  <2> QED BY <1>2, <1>3, <1>4, <1>7, <2>1, <2>2 DEF FileInv
<1>10. StackInv'
  BY <1>3, <1>6, <1>7 DEF ReaderInv, StackInv, EnteredAt
<1>11. RootInv'
  BY <1>6, <1>7 DEF ReaderInv, RootInv, EnteredAt
<1>12. ParentInv'
  BY <1>6, <1>7 DEF ReaderInv, ParentInv, EnteredAt
<1>13. ChildInv'
  BY <1>6, <1>7 DEF ReaderInv, ChildInv
<1>14. InstructionInv'
  <2>1. CASE stacks[t] = <<>>
    <3>1. \A i : ~Around(read', i, n)
      BY <1>8, <2>1, TopOfStack DEF ReaderInv
    <3>2. unscoped' = Append(unscoped, n) /\ instructions' = instructions
      BY <1>4, <2>1 DEF Instruction
    <3>3. \A x : Has(unscoped', x) <=> Has(unscoped, x) \/ x = n
      <4>1. unscoped \in Seq(Nat)
        BY DEF Shapes
      <4>2. \A x : Has(Append(unscoped, n), x) <=> Has(unscoped, x) \/ x = n
        BY <4>1, Appended
      <4> QED BY <3>2, <4>2
    <3>4. \A i : ~Inner(read', i, n)
      BY <3>1 DEF Inner
    <3>5. \A c \in Calls : \A m :
            Has(instructions'[c], m) <=>
              m \in At(read', "instruction") /\ Inner(read', Pos(read', c), m)
      <4> SUFFICES ASSUME NEW c \in Calls, NEW m
                   PROVE  Has(instructions[c], m) <=>
                            m \in At(read', "instruction") /\ Inner(read', EnteredAt(c), m)
        BY <1>6, <3>2
      <4>1. Has(instructions[c], m) <=>
              m \in At(read, "instruction") /\ Inner(read, EnteredAt(c), m)
        BY DEF ReaderInv, InstructionInv
      <4>2. CASE m = n
        BY <1>4, <1>5, <3>4, <4>1, <4>2
      <4>3. CASE m # n
        BY <1>4, <1>5, <1>6, <4>1, <4>3
      <4> QED BY <4>2, <4>3
    <3>6. \A m : Has(unscoped', m) <=>
            m \in At(read', "instruction") /\ \A i : ~Around(read', i, m)
      BY <1>4, <1>5, <1>6, <3>1, <3>3 DEF ReaderInv, InstructionInv
    <3>7. \A m \in At(read', "instruction") :
            (\A i : ~Around(read', i, m)) \/ \E i : Inner(read', i, m)
      BY <1>4, <1>5, <1>6, <3>1 DEF ReaderInv, InstructionInv
    <3> QED BY <1>7, <3>5, <3>6, <3>7 DEF InstructionInv, EnteredAt
  <2>2. CASE stacks[t] # <<>>
    <3>1. /\ Top(t) \in Calls /\ OpenAt(read, EnteredAt(Top(t))) /\ read[EnteredAt(Top(t))].tid = t
          /\ \A i : OpenAt(read, i) /\ read[i].tid = t => i <= EnteredAt(Top(t))
      BY <2>2, TopOfStack DEF ReaderInv
    <3>2. Inner(read', EnteredAt(Top(t)), n)
      BY <1>8, <3>1 DEF Inner
    <3>3. /\ unscoped' = unscoped
          /\ instructions' = [instructions EXCEPT ![Top(t)] = Append(@, n)]
      BY <1>4, <2>2 DEF Instruction
    <3>4. \A c \in Calls : instructions'[c] = IF c = Top(t)
             THEN Append(instructions[c], n) ELSE instructions[c]
      BY <3>3 DEF Shapes
    <3>5. \A x : Has(Append(instructions[Top(t)], n), x)
                    <=> Has(instructions[Top(t)], x) \/ x = n
      <4>1. instructions[Top(t)] \in Seq(Nat)
        BY <3>1 DEF Shapes
      <4> QED BY <4>1, Appended
    <3>6. \A c \in Calls : Inner(read', EnteredAt(c), n) <=> c = Top(t)
      <4> TAKE c \in Calls
      <4>1. Inner(read', EnteredAt(c), n) => EnteredAt(c) = EnteredAt(Top(t))
        BY <1>3, <1>4, <3>2, InnerIds
      <4>2. EnteredAt(c) = EnteredAt(Top(t)) => c = Top(t)
        BY <1>6, <3>1
      <4> QED BY <3>2, <4>1, <4>2
    <3>7. ~(\A i : ~Around(read', i, n))
      BY <3>2 DEF Inner
    <3>8. ASSUME NEW c \in Calls, NEW m
          PROVE  Has(instructions'[c], m) <=>
                   m \in At(read', "instruction") /\ Inner(read', Pos(read', c), m)
      <4>1. Has(instructions[c], m) <=> m \in At(read, "instruction") /\ Inner(read, EnteredAt(c), m)
        BY DEF ReaderInv, InstructionInv
      <4>2. Has(instructions'[c], m) <=> Has(instructions[c], m) \/ (c = Top(t) /\ m = n)
        BY <3>4, <3>5
      <4> QED BY <1>4, <1>5, <1>6, <3>6, <4>1, <4>2
    <3>9. \A m : Has(unscoped', m) <=>
            m \in At(read', "instruction") /\ \A i : ~Around(read', i, m)
      BY <1>4, <1>5, <1>6, <3>3, <3>7 DEF ReaderInv, InstructionInv
    <3>10. \A m \in At(read', "instruction") :
             (\A i : ~Around(read', i, m)) \/ \E i : Inner(read', i, m)
      BY <1>4, <1>5, <1>6, <3>2 DEF ReaderInv, InstructionInv
    <3> QED BY <1>7, <3>8, <3>9, <3>10 DEF InstructionInv, EnteredAt
  <2> QED BY <2>1, <2>2
<1> QED BY <1>9, <1>10, <1>11, <1>12, <1>13, <1>14 DEF ReaderInv

LEMMA LeaveStep ==
  ASSUME Shapes, ReaderInv, NEW t \in Tids, NEW k \in Kinds, NEW c \in Ids, Leave(t, k, c)
  PROVE  ReaderInv'
<1> DEFINE e == Event(k, "leave", t, Len(read) + 1, c)
<1>1. /\ e \in FileEvents /\ e.phase = "leave" /\ e.tid = t /\ e.id = c
      /\ read' = Append(read, e)
  BY EventTyped, IdsAssumption DEF Leave, ReaderInv, Phases
<1> HIDE DEF e
<1> PICK n \in Nat : n = Len(read) + 1 /\ Len(read) \in Nat
  BY ListFacts DEF ReaderInv, FileInv
<1>2. Lists(read) /\ Nested(read) /\ FileInv
  BY DEF ReaderInv, FileInv
<1>a. stacks[t] # <<>> /\ Top(t) = c
  BY DEF Leave, Matches
<1>b. /\ c \in Calls /\ OpenAt(read, EnteredAt(c))
      /\ read[EnteredAt(c)].id = c /\ read[EnteredAt(c)].tid = t
      /\ \A i : OpenAt(read, i) /\ read[i].tid = t => i <= EnteredAt(c)
  BY <1>a, TopOfStack DEF ReaderInv
<1>3. /\ Lists(read') /\ Nested(read')
      /\ \A i : OpenAt(read', i) <=> OpenAt(read, i) /\ i # EnteredAt(c)
  BY <1>1, <1>2, <1>b, MoreLeave
<1>4. /\ At(read', "instruction") = At(read, "instruction")
      /\ Enters(read') = Enters(read) /\ Leaves(read') = Leaves(read) \cup {n}
      /\ \A m \in 1..Len(read) : read'[m] = read[m]
      /\ read'[n] = e
      /\ Enters(read) \in SUBSET (1..Len(read)) /\ Leaves(read) \in SUBSET (1..Len(read))
  BY <1>1, <1>2, AppendedEvent DEF Enters, Leaves
<1>5. At(read, "instruction") \in SUBSET (1..Len(read))
  BY <1>2, ListFacts DEF At
<1>6. /\ \A d \in Calls : /\ Pos(read', d) = EnteredAt(d) /\ EnteredAt(d) \in 1..Len(read)
                           /\ EnteredAt(d) \in Nat /\ EnteredAt(d) \in Enters(read)
                           /\ read'[EnteredAt(d)] = read[EnteredAt(d)] /\ read[EnteredAt(d)].id = d
      /\ \A m \in 1..Len(read) : \A i : Inner(read', i, m) <=> Inner(read, i, m)
      /\ \A m \in 1..Len(read) :
           (\A i : ~Around(read', i, m)) <=> (\A i : ~Around(read, i, m))
      /\ \A s : Rising(read, s) /\ (\A x : Has(s, x) => x \in Calls) => Rising(read', s)
  BY <1>1, <1>2, <1>3, NothingMoves
<1>7. /\ UNCHANGED <<parent, children, instructions, roots, unscoped>> /\ Calls' = Calls
      /\ left' = left \cup {c}
      /\ \A u \in Tids : stacks'[u] = IF u = t
           THEN SubSeq(stacks[u], 1, Len(stacks[u]) - 1) ELSE stacks[u]
  BY DEF Leave, Calls, Shapes
<1>9. FileInv'
  <2>1. CallIds(read') = CallIds(read)
    BY <1>1, <1>2, <1>3, PosStays
  <2>2. (\A j \in Leaves(read) : read'[j] = read[j]) /\ read'[n].id = c
    BY <1>1, <1>4
  <2>3. {read'[j].id : j \in Leaves(read')} = {read[j].id : j \in Leaves(read)} \cup {c}
    BY <1>4, <2>2
  <2> QED BY <1>2, <1>3, <1>7, <2>1, <2>3 DEF FileInv
<1>10. StackInv'
  <2> SUFFICES ASSUME NEW u \in Tids
               PROVE  /\ Rising(read', stacks'[u])
                      /\ \A d : Has(stacks'[u], d) <=>
                           d \in Calls /\ OpenAt(read', Pos(read', d))
                             /\ read'[Pos(read', d)].tid = u
    BY <1>7 DEF StackInv, EnteredAt
  <2>1. \A d \in Calls : EnteredAt(d) = EnteredAt(c) <=> d = c
    BY <1>6, <1>b
  <2>2. \A d : Has(stacks[u], d) <=> d \in Calls /\ OpenAt(read, EnteredAt(d)) /\ read[EnteredAt(d)].tid = u
    BY DEF ReaderInv, StackInv
  <2>3. CASE u = t
    <3>1. stacks[t] \in Seq(Ids) /\ Rising(read, stacks[t])
      BY DEF Shapes, ReaderInv, StackInv
    <3>2. \A x : Has(stacks[t], x) => Pos(read, x) \in Nat
      BY <1>6, <2>2, <2>3 DEF EnteredAt
    <3> DEFINE s == SubSeq(stacks[t], 1, Len(stacks[t]) - 1)
    <3>3. /\ \A x : Has(s, x) <=> Has(stacks[t], x) /\ x # c
          /\ Rising(read, s)
      BY <1>a, <3>1, <3>2, Popped DEF Top
    <3>4. stacks'[u] = s
      BY <1>7, <2>3
    <3> HIDE DEF s
    <3>5. Rising(read', s)
      BY <1>6, <2>2, <2>3, <3>3
    <3> QED BY <1>3, <1>6, <2>1, <2>2, <2>3, <3>3, <3>4, <3>5
  <2>4. CASE u # t
    <3>1. stacks'[u] = stacks[u] /\ Rising(read', stacks[u])
      BY <1>6, <1>7, <2>2, <2>4 DEF ReaderInv, StackInv
    <3>2. read[EnteredAt(c)].tid # u
      BY <1>b, <2>4
    <3> QED BY <1>3, <1>6, <2>1, <2>2, <3>1, <3>2
  <2> QED BY <2>3, <2>4
<1>11. RootInv'
  BY <1>6, <1>7 DEF ReaderInv, RootInv, EnteredAt
<1>12. ParentInv'
  BY <1>6, <1>7 DEF ReaderInv, ParentInv, EnteredAt
<1>13. ChildInv'
  BY <1>6, <1>7 DEF ReaderInv, ChildInv
<1>14. InstructionInv'
  BY <1>4, <1>5, <1>6, <1>7 DEF ReaderInv, InstructionInv, EnteredAt
<1> QED BY <1>9, <1>10, <1>11, <1>12, <1>13, <1>14 DEF ReaderInv

LEMMA EnterStep ==
  ASSUME Shapes, ReaderInv, NEW t \in Tids, NEW k \in Kinds, NEW c \in Ids, Enter(t, k, c)
  PROVE  ReaderInv'
<1> DEFINE e == Event(k, "enter", t, Len(read) + 1, c)
<1>1. /\ e \in FileEvents /\ e.phase = "enter" /\ e.tid = t /\ e.id = c
      /\ read' = Append(read, e)
  BY EventTyped, IdsAssumption DEF Enter, ReaderInv, Phases
<1> HIDE DEF e
<1> PICK n \in Nat : n = Len(read) + 1 /\ Len(read) \in Nat
  BY ListFacts DEF ReaderInv, FileInv
<1>2. Lists(read) /\ Nested(read) /\ FileInv
  BY DEF ReaderInv, FileInv
<1>a. c \notin Calls /\ \A i \in Enters(read) : read[i].id # c
  BY DEF Enter, ReaderInv, FileInv, CallIds
<1>3. /\ Lists(read') /\ Nested(read')
      /\ \A i : OpenAt(read', i) <=> OpenAt(read, i) \/ i = n
  BY <1>1, <1>2, <1>a, MoreEnter
<1>4. /\ At(read', "instruction") = At(read, "instruction")
      /\ Enters(read') = Enters(read) \cup {n} /\ Leaves(read') = Leaves(read)
      /\ \A m \in 1..Len(read) : read'[m] = read[m]
      /\ read'[n] = e /\ Len(read') = n
      /\ Enters(read) \in SUBSET (1..Len(read)) /\ Leaves(read) \in SUBSET (1..Len(read))
  BY <1>1, <1>2, AppendedEvent DEF Enters, Leaves
<1>5. At(read, "instruction") \in SUBSET (1..Len(read))
  BY <1>2, ListFacts DEF At
<1>6. /\ \A d \in Calls : /\ Pos(read', d) = EnteredAt(d) /\ EnteredAt(d) \in 1..Len(read)
                           /\ EnteredAt(d) \in Nat /\ EnteredAt(d) \in Enters(read)
                           /\ read'[EnteredAt(d)] = read[EnteredAt(d)] /\ read[EnteredAt(d)].id = d
      /\ \A m \in 1..Len(read) : \A i : Inner(read', i, m) <=> Inner(read, i, m)
      /\ \A m \in 1..Len(read) :
           (\A i : ~Around(read', i, m)) <=> (\A i : ~Around(read, i, m))
      /\ \A s : Rising(read, s) /\ (\A x : Has(s, x) => x \in Calls) => Rising(read', s)
  BY <1>1, <1>2, <1>3, NothingMoves
<1>7. Pos(read', c) = n
  BY <1>1, <1>2, <1>3, PosStays
<1> DEFINE under == IF stacks[t] = <<>> THEN NoParent ELSE Top(t)
<1>8. /\ Calls' = Calls \cup {c}
      /\ \A d \in Calls' : parent'[d] = IF d = c THEN under ELSE parent[d]
      /\ \A d \in Calls' : instructions'[d] = IF d = c THEN <<>> ELSE instructions[d]
      /\ \A u \in Tids : stacks'[u] = IF u = t THEN Append(stacks[u], c) ELSE stacks[u]
      /\ UNCHANGED <<left, unscoped>>
  <2>1. parent' = Bind(parent, c, under) /\ instructions' = Bind(instructions, c, <<>>)
        /\ stacks' = [stacks EXCEPT ![t] = Append(@, c)] /\ UNCHANGED <<left, unscoped>>
    BY DEF Enter
  <2> HIDE DEF under
  <2>2. Calls' = Calls \cup {c} /\ \A d \in Calls' : parent'[d] = IF d = c THEN under ELSE parent[d]
    BY <2>1 DEF Bind, Calls
  <2>3. \A d \in Calls' : instructions'[d] = IF d = c THEN <<>> ELSE instructions[d]
    BY <2>1, <2>2 DEF Bind, Shapes
  <2> QED BY <2>1, <2>2, <2>3 DEF Shapes
<1>9. NoParent \notin Calls /\ c # NoParent
  BY IdsAssumption, NoParentAssumption DEF Shapes
<1>10. /\ under = NoParent => stacks[t] = <<>>
       /\ under # NoParent => stacks[t] # <<>> /\ under = Top(t) /\ under \in Calls
  BY <1>9, TopOfStack DEF ReaderInv
<1>11. \A d \in Calls' : children'[d] =
         IF d = c THEN <<>> ELSE IF d = under THEN Append(children[d], c) ELSE children[d]
  <2>1. IF under = NoParent THEN children' = Bind(children, c, <<>>)
                            ELSE children' = Bind(Adopts(under, c), c, <<>>)
    BY DEF Enter
  <2> HIDE DEF under
  <2>2. CASE under = NoParent
    BY <1>8, <1>9, <2>1, <2>2 DEF Bind, Shapes
  <2>3. CASE under # NoParent
    <3>1. \A d \in Calls : Adopts(under, c)[d] =
             IF d = under THEN Append(children[d], c) ELSE children[d]
      BY DEF Adopts, Shapes
    <3>2. DOMAIN Adopts(under, c) = Calls
      BY DEF Adopts, Shapes
    <3>3. children' = Bind(Adopts(under, c), c, <<>>)
      BY <2>1, <2>3
    <3> HIDE DEF Adopts
    <3> QED BY <1>8, <3>1, <3>2, <3>3 DEF Bind
  <2> QED BY <2>2, <2>3
<1>12. \A u \in Tids : roots'[u] =
         IF under = NoParent /\ u = t THEN Append(roots[u], c) ELSE roots[u]
  <2>1. IF under = NoParent THEN roots' = [roots EXCEPT ![t] = Append(@, c)]
                            ELSE roots' = roots
    BY DEF Enter
  <2> HIDE DEF under
  <2> QED BY <2>1 DEF Shapes
<1>13. \A i : Around(read', i, n) <=> OpenAt(read, i) /\ read[i].tid = t
  BY <1>1, <1>2, AroundNew
<1>14. /\ under = NoParent => \A i : ~Around(read', i, n)
       /\ under # NoParent => Inner(read', EnteredAt(under), n)
  BY <1>10, <1>13, TopOfStack DEF ReaderInv, Inner
<1> HIDE DEF under
<1>15. FileInv'
  <2>1. CallIds(read') = CallIds(read) \cup {c}
    BY <1>1, <1>2, <1>3, PosStays
  <2>2. \A j \in Leaves(read) : read'[j] = read[j]
    BY <1>4
  <2> QED BY <1>2, <1>3, <1>4, <1>8, <2>1, <2>2 DEF FileInv
<1>16. \A d \in Calls : EnteredAt(d) < n /\ Pos(read', d) < Pos(read', c)
  BY <1>6, <1>7
<1>17. read'[n].tid = t /\ read'[n].id = c
  BY <1>1, <1>4
<1>18. StackInv'
  <2> SUFFICES ASSUME NEW u \in Tids
               PROVE  /\ Rising(read', stacks'[u])
                      /\ \A d : Has(stacks'[u], d) <=>
                           d \in Calls' /\ OpenAt(read', Pos(read', d))
                             /\ read'[Pos(read', d)].tid = u
    BY DEF StackInv, EnteredAt
  <2>1. \A d : Has(stacks[u], d) <=> d \in Calls /\ OpenAt(read, EnteredAt(d)) /\ read[EnteredAt(d)].tid = u
    BY DEF ReaderInv, StackInv
  <2>2. Rising(read', stacks[u])
    BY <1>6, <2>1 DEF ReaderInv, StackInv
  <2>3. \A d \in Calls : EnteredAt(d) # n
    BY <1>16, <1>6
  <2>4. CASE u = t
    <3>1. stacks[u] \in Seq(Ids)
      BY DEF Shapes
    <3>2. /\ \A x : Has(Append(stacks[u], c), x) <=> Has(stacks[u], x) \/ x = c
          /\ Rising(read', Append(stacks[u], c))
      BY <1>16, <2>1, <2>2, <3>1, Appended
    <3>3. stacks'[u] = Append(stacks[u], c)
      BY <1>8, <2>4
    <3> QED BY <1>3, <1>6, <1>7, <1>8, <1>17, <1>a, <2>1, <2>3, <2>4, <3>2, <3>3
  <2>5. CASE u # t
    <3>1. stacks'[u] = stacks[u]
      BY <1>8, <2>5
    <3> QED BY <1>3, <1>6, <1>7, <1>8, <1>17, <1>a, <2>1, <2>2, <2>3, <2>5, <3>1
  <2> QED BY <2>4, <2>5
<1>19. RootInv'
  <2> SUFFICES ASSUME NEW u \in Tids
               PROVE  /\ Rising(read', roots'[u])
                      /\ \A d : Has(roots'[u], d) <=>
                           d \in Calls' /\ parent'[d] = NoParent
                             /\ read'[Pos(read', d)].tid = u
    BY DEF RootInv, EnteredAt
  <2>1. \A d : Has(roots[u], d) <=> d \in Calls /\ parent[d] = NoParent /\ read[EnteredAt(d)].tid = u
    BY DEF ReaderInv, RootInv
  <2>2. Rising(read', roots[u])
    BY <1>6, <2>1 DEF ReaderInv, RootInv
  <2>3. CASE under = NoParent /\ u = t
    <3>1. roots[u] \in Seq(Ids)
      BY DEF Shapes
    <3>2. /\ \A x : Has(Append(roots[u], c), x) <=> Has(roots[u], x) \/ x = c
          /\ Rising(read', Append(roots[u], c))
      BY <1>16, <2>1, <2>2, <3>1, Appended
    <3>3. roots'[u] = Append(roots[u], c)
      BY <1>12, <2>3
    <3> QED BY <1>6, <1>7, <1>8, <1>17, <1>a, <2>1, <2>3, <3>2, <3>3
  <2>4. CASE ~(under = NoParent /\ u = t)
    <3>1. roots'[u] = roots[u]
      BY <1>12, <2>4
    <3> QED BY <1>6, <1>7, <1>8, <1>17, <1>a, <2>1, <2>2, <2>4, <3>1
  <2> QED BY <2>3, <2>4
<1>20. ParentInv'
  <2> SUFFICES ASSUME NEW d \in Calls'
               PROVE  \/ parent'[d] = NoParent /\ \A i : ~Around(read', i, Pos(read', d))
                      \/ /\ parent'[d] \in Calls'
                         /\ Inner(read', Pos(read', parent'[d]), Pos(read', d))
    BY DEF ParentInv, EnteredAt
  <2>1. CASE d = c
    BY <1>6, <1>7, <1>8, <1>10, <1>14, <2>1
  <2>2. CASE d # c
    <3>1. d \in Calls /\ parent'[d] = parent[d]
      BY <1>8, <2>2
    <3> QED BY <1>6, <1>8, <3>1 DEF ReaderInv, ParentInv
  <2> QED BY <2>1, <2>2
<1>21. ChildInv'
  <2> SUFFICES ASSUME NEW p \in Calls'
               PROVE  /\ Rising(read', children'[p])
                      /\ \A d : Has(children'[p], d) <=> d \in Calls' /\ parent'[d] = p
    BY DEF ChildInv
  <2>1. CASE p = c
    <3>1. children'[p] = <<>>
      BY <1>11, <2>1
    <3>2. \A d : ~Has(<<>>, d)
      BY DEF Has
    <3>3. Rising(read', <<>>)
      BY DEF Rising
    <3>4. \A d \in Calls : parent[d] # c
      BY <1>a, <1>9 DEF ReaderInv, ParentInv
    <3>5. under # c
      BY <1>9, <1>10, <1>a
    <3> QED BY <1>8, <2>1, <3>1, <3>2, <3>3, <3>4, <3>5
  <2>2. CASE p # c
    <3>1. p \in Calls
      BY <1>8, <2>2
    <3>2. \A d : Has(children[p], d) <=> d \in Calls /\ parent[d] = p
      BY <3>1 DEF ReaderInv, ChildInv
    <3>3. Rising(read', children[p])
      BY <1>6, <3>1, <3>2 DEF ReaderInv, ChildInv
    <3>4. CASE p = under
      <4>1. children[p] \in Seq(Ids)
        BY <3>1 DEF Shapes
      <4>2. /\ \A x : Has(Append(children[p], c), x) <=> Has(children[p], x) \/ x = c
            /\ Rising(read', Append(children[p], c))
        BY <1>16, <3>2, <3>3, <4>1, Appended
      <4>3. children'[p] = Append(children[p], c)
        BY <1>11, <2>2, <3>4
      <4> QED BY <1>8, <1>a, <3>2, <3>4, <4>2, <4>3
    <3>5. CASE p # under
      BY <1>8, <1>11, <1>a, <2>2, <3>2, <3>3, <3>5
    <3> QED BY <3>4, <3>5
  <2> QED BY <2>1, <2>2
<1>22. InstructionInv'
  <2>1. ASSUME NEW d \in Calls', NEW m
        PROVE  Has(instructions'[d], m) <=>
                 m \in At(read', "instruction") /\ Inner(read', Pos(read', d), m)
    <3>1. CASE d = c
      <4>1. instructions'[d] = <<>> /\ Pos(read', d) = n
        BY <1>7, <1>8, <3>1
      <4>2. ~Has(<<>>, m)
        BY DEF Has
      <4>3. m \in At(read', "instruction") => m < n /\ ~(n < m)
        BY <1>4, <1>5
      <4> QED BY <4>1, <4>2, <4>3 DEF Inner, Around
    <3>2. CASE d # c
      <4>1. d \in Calls /\ instructions'[d] = instructions[d]
        BY <1>8, <3>2
      <4>2. Has(instructions[d], m) <=> m \in At(read, "instruction") /\ Inner(read, EnteredAt(d), m)
        BY <4>1 DEF ReaderInv, InstructionInv
      <4> QED BY <1>4, <1>5, <1>6, <4>1, <4>2
    <3> QED BY <3>1, <3>2
  <2>2. \A m : Has(unscoped', m) <=>
          m \in At(read', "instruction") /\ \A i : ~Around(read', i, m)
    BY <1>4, <1>5, <1>6, <1>8 DEF ReaderInv, InstructionInv
  <2>3. \A m \in At(read', "instruction") :
          (\A i : ~Around(read', i, m)) \/ \E i : Inner(read', i, m)
    BY <1>4, <1>5, <1>6 DEF ReaderInv, InstructionInv
  <2> QED BY <2>1, <2>2, <2>3 DEF InstructionInv, EnteredAt
<1> QED BY <1>15, <1>18, <1>19, <1>20, <1>21, <1>22 DEF ReaderInv

(* The invariant holds of an empty file and is kept by every step.         *)
LEMMA CallForestInit ==
  Init => IInv
<1> SUFFICES ASSUME Init PROVE IInv
  OBVIOUS
<1>1. DOMAIN read = {} /\ read = <<>> /\ Calls = {} /\ left = {}
  BY DEF Init, Calls
<1>2. Enters(read) = {} /\ Leaves(read) = {} /\ At(read, "instruction") = {}
  BY <1>1 DEF Enters, Leaves, At
<1>3. CallIds(read) = {} /\ Lists(read) /\ Nested(read)
  BY <1>1, <1>2 DEF CallIds, Lists, Nested
<1>4. (\A x : ~Has(<<>>, x)) /\ Rising(read, <<>>)
  BY DEF Has, Rising
<1>5. Shapes
  <2>1. parent \in [Calls -> Ids \cup {NoParent}]
    BY <1>1 DEF Init
  <2>2. children \in [Calls -> Seq(Ids)] /\ instructions \in [Calls -> Seq(Nat)]
    BY <1>1 DEF Init
  <2>3. /\ roots \in [Tids -> Seq(Ids)] /\ stacks \in [Tids -> Seq(Ids)]
        /\ unscoped \in Seq(Nat) /\ verdict = "reading"
    BY DEF Init
  <2> QED BY <1>1, <2>1, <2>2, <2>3 DEF Shapes
<1>6. FileInv
  BY <1>1, <1>2, <1>3 DEF FileInv
<1>7. StackInv /\ RootInv
  BY <1>1, <1>4 DEF Init, StackInv, RootInv
<1>8. ParentInv /\ ChildInv
  BY <1>1 DEF ParentInv, ChildInv
<1>9. InstructionInv
  <2>1. unscoped = <<>>
    BY DEF Init
  <2> QED BY <1>1, <1>2, <1>4, <2>1 DEF InstructionInv
<1>10. VerdictInv
  BY DEF Init, VerdictInv
<1> QED BY <1>5, <1>6, <1>7, <1>8, <1>9, <1>10, LiveTypes DEF IInv, ReaderInv

LEMMA OneGrows ==
  ASSUME NEW D, NEW S, NEW f \in [D -> Seq(S)], NEW d, NEW v \in S
  PROVE  [f EXCEPT ![d] = Append(@, v)] \in [D -> Seq(S)]
<1>1. \A x \in D : Append(f[x], v) \in Seq(S)
  OBVIOUS
<1> QED BY <1>1

LEMMA ShapesStep ==
  ASSUME Shapes, TypeOK, [Next]_vars
  PROVE  Shapes'
<1>1. ASSUME NEW t \in Tids, NEW k \in Kinds, Instruction(t, k)
      PROVE  Shapes'
  <2>1. Len(read') \in Nat
    <3>1. PICK s : read' = s /\ s = Append(read, Event(k, "instruction", t, Len(read) + 1, 0))
      BY <1>1 DEF Instruction, Reads
    <3> QED BY <3>1
  <2>2. Calls' = Calls
    BY <1>1 DEF Instruction, Calls
  <2>3. instructions' \in [Calls -> Seq(Nat)] /\ unscoped' \in Seq(Nat)
    <3>1. CASE stacks[t] # <<>>
      <4>1. instructions' = [instructions EXCEPT ![Top(t)] = Append(@, Len(read'))]
            /\ unscoped' = unscoped
        BY <1>1, <3>1 DEF Instruction
      <4>2. instructions \in [Calls -> Seq(Nat)] /\ unscoped \in Seq(Nat)
        BY DEF Shapes
      <4> QED BY <2>1, <4>1, <4>2, OneGrows
    <3>2. CASE stacks[t] = <<>>
      <4>1. instructions' = instructions /\ unscoped' = Append(unscoped, Len(read'))
        BY <1>1, <3>2 DEF Instruction
      <4>2. instructions \in [Calls -> Seq(Nat)] /\ unscoped \in Seq(Nat)
        BY DEF Shapes
      <4>3. Append(unscoped, Len(read')) \in Seq(Nat)
        BY <2>1, <4>2
      <4> QED BY <4>1, <4>2, <4>3
    <3> QED BY <3>1, <3>2
  <2> QED BY <1>1, <2>2, <2>3 DEF Instruction, Shapes, Reads
<1>2. ASSUME NEW t \in Tids, NEW k \in Kinds, NEW c \in Ids, Enter(t, k, c)
      PROVE  Shapes'
  <2> DEFINE under == IF stacks[t] = <<>> THEN NoParent ELSE Top(t)
  <2>1. /\ parent' = Bind(parent, c, under) /\ instructions' = Bind(instructions, c, <<>>)
        /\ stacks' = [stacks EXCEPT ![t] = Append(@, c)] /\ UNCHANGED <<unscoped, verdict>>
        /\ IF under = NoParent
             THEN /\ roots' = [roots EXCEPT ![t] = Append(@, c)]
                  /\ children' = Bind(children, c, <<>>)
             ELSE /\ children' = Bind(Adopts(under, c), c, <<>>)
                  /\ UNCHANGED roots
    BY <1>2 DEF Enter
  <2>2. under \in Ids \cup {NoParent}
    <3>1. ASSUME stacks[t] # <<>>
          PROVE  Len(stacks[t]) \in DOMAIN stacks[t]
      <4>1. PICK s \in Seq(Ids) : s = stacks[t]
        BY DEF Shapes
      <4>2. s # <<>>
        BY <3>1, <4>1
      <4>3. Len(s) \in DOMAIN s
        BY <4>2
      <4> QED BY <4>1, <4>3
    <3> QED BY <3>1 DEF Top, TypeOK
  <2> HIDE DEF under
  <2>3. Calls' = Calls \cup {c}
    BY <2>1 DEF Calls, Bind
  <2>4. parent' \in [Calls' -> Ids \cup {NoParent}] /\ Calls' \subseteq Ids
    BY <2>1, <2>2, <2>3 DEF Bind, Shapes, Calls
  <2>5. instructions' \in [Calls' -> Seq(Nat)]
    <3>1. <<>> \in Seq(Nat) /\ DOMAIN instructions = Calls
      BY DEF Shapes
    <3> QED BY <2>1, <2>3, <3>1 DEF Bind, Shapes
  <2>6. stacks' \in [Tids -> Seq(Ids)] /\ roots' \in [Tids -> Seq(Ids)]
    <3>1. stacks \in [Tids -> Seq(Ids)] /\ roots \in [Tids -> Seq(Ids)]
      BY DEF Shapes
    <3>2. /\ [stacks EXCEPT ![t] = Append(@, c)] \in [Tids -> Seq(Ids)]
          /\ [roots EXCEPT ![t] = Append(@, c)] \in [Tids -> Seq(Ids)]
      BY <3>1, OneGrows
    <3>3. stacks' = [stacks EXCEPT ![t] = Append(@, c)]
          /\ (roots' = [roots EXCEPT ![t] = Append(@, c)] \/ roots' = roots)
      BY <2>1
    <3> QED BY <3>1, <3>2, <3>3
  <2>7. children' \in [Calls' -> Seq(Ids)]
    <3> <<>> \in Seq(Ids)
      OBVIOUS
    <3>1. \A f \in [Calls -> Seq(Ids)] : Bind(f, c, <<>>) \in [Calls' -> Seq(Ids)]
      <4> SUFFICES ASSUME NEW f \in [Calls -> Seq(Ids)]
                   PROVE  Bind(f, c, <<>>) \in [Calls' -> Seq(Ids)]
        OBVIOUS
      <4>1. DOMAIN f = Calls
        OBVIOUS
      <4> QED BY <2>3, <4>1 DEF Bind
    <3>2. Adopts(under, c) \in [Calls -> Seq(Ids)]
      <4>1. children \in [Calls -> Seq(Ids)]
        BY DEF Shapes
      <4> QED BY <4>1, OneGrows DEF Adopts
    <3>3. children \in [Calls -> Seq(Ids)]
      BY DEF Shapes
    <3> QED BY <2>1, <3>1, <3>2, <3>3
  <2> QED BY <2>1, <2>4, <2>5, <2>6, <2>7 DEF Shapes
<1>3. ASSUME NEW t \in Tids, NEW k \in Kinds, NEW c \in Ids, Leave(t, k, c)
      PROVE  Shapes'
  <2>1. stacks' \in [Tids -> Seq(Ids)]
    <3>1. ASSUME stacks[t] # <<>>
          PROVE  SubSeq(stacks[t], 1, Len(stacks[t]) - 1) \in Seq(Ids)
      <4>1. PICK s \in Seq(Ids) : s = stacks[t]
        BY DEF Shapes
      <4>2. s # <<>>
        BY <3>1, <4>1
      <4>3. SubSeq(s, 1, Len(s) - 1) \in Seq(Ids)
        BY <4>2
      <4> QED BY <4>1, <4>3
    <3> QED BY <1>3, <3>1 DEF Leave, Matches, Shapes
  <2> QED BY <1>3, <2>1 DEF Leave, Shapes, Calls
<1>4. ASSUME NEW t \in Tids, NEW k \in Kinds, NEW c \in Ids,
             DuplicateCorrelation(t, k, c) \/ UnmatchedLeave(t, k, c)
      PROVE  Shapes'
  BY <1>4 DEF DuplicateCorrelation, UnmatchedLeave, Fails, Shapes, Calls
<1>5. CASE EndOfFile
  BY <1>5 DEF EndOfFile, Shapes, Calls
<1>6. CASE UNCHANGED vars
  BY <1>6 DEF vars, Shapes, Calls
<1> QED BY <1>1, <1>2, <1>3, <1>4, <1>5, <1>6 DEF Next

LEMMA SameLists ==
  ASSUME ReaderInv,
         UNCHANGED <<read, parent, children, instructions, left, roots, stacks, unscoped>>
  PROVE  ReaderInv'
BY DEF ReaderInv, FileInv, StackInv, RootInv, ParentInv, ChildInv, InstructionInv, Calls, EnteredAt

LEMMA TypesStay ==
  ASSUME TypeOK, Shapes', UNCHANGED <<parent, children, instructions, left, stacks>>
  PROVE  TypeOK'
BY DEF TypeOK, Shapes, Calls

(* Whatever _assemble refuses is no forest.                                *)
LEMMA MalformedStep ==
  ASSUME Shapes, ReaderInv, NEW t \in Tids, NEW k \in Kinds, NEW c \in Ids,
         DuplicateCorrelation(t, k, c) \/ UnmatchedLeave(t, k, c)
  PROVE  ~Nests(read') /\ verdict' = "malformed"
<1>1. verdict' = "malformed"
  BY DEF DuplicateCorrelation, UnmatchedLeave, Fails
<1>2. Lists(read) /\ FileInv /\ c \in Nat
  BY IdsAssumption DEF ReaderInv, FileInv
<1>3. CASE DuplicateCorrelation(t, k, c)
  <2>1. c \in CallIds(read) /\ Reads("enter", t, k, c)
    BY <1>3 DEF DuplicateCorrelation, ReaderInv, FileInv
  <2>2. PICK e \in FileEvents : e.phase = "enter" /\ e.id = c /\ read' = Append(read, e)
    BY <1>2, <2>1, EventTyped DEF Phases
  <2> QED BY <1>1, <1>2, <2>1, <2>2, RepeatedEnter
<1>4. CASE UnmatchedLeave(t, k, c)
  <2>1. ~Matches(t, c) /\ Reads("leave", t, k, c)
    BY <1>4 DEF UnmatchedLeave
  <2>2. PICK e \in FileEvents : e.phase = "leave" /\ e.id = c /\ e.tid = t
                               /\ read' = Append(read, e)
    BY <1>2, <2>1, EventTyped DEF Phases
  <2>3. ASSUME NEW o, OpenAt(read, o), read[o].id = c, read[o].tid = t,
               \A i : OpenAt(read, i) /\ read[i].tid = t => i <= o
        PROVE  FALSE
    <3>1. stacks[t] # <<>>
      BY <2>3, TopOfStack DEF ReaderInv
    <3>2. /\ OpenAt(read, EnteredAt(Top(t))) /\ read[EnteredAt(Top(t))].tid = t
          /\ read[EnteredAt(Top(t))].id = Top(t) /\ o <= EnteredAt(Top(t))
      BY <2>3, <3>1, TopOfStack DEF ReaderInv
    <3>3. EnteredAt(Top(t)) <= o
      BY <2>3, <3>2
    <3>4. o \in Nat /\ EnteredAt(Top(t)) \in Nat
      BY <1>2, <2>3, <3>2, ListFacts DEF OpenAt
    <3>5. o = EnteredAt(Top(t))
      BY <3>2, <3>3, <3>4
    <3> QED BY <2>1, <2>3, <3>1, <3>2, <3>5 DEF Matches
  <2> QED BY <1>1, <1>2, <2>2, <2>3, StrayLeave
<1> QED BY <1>3, <1>4

LEMMA CallForestStep ==
  IInv /\ [Next]_vars => IInv'
<1> SUFFICES ASSUME IInv, [Next]_vars PROVE IInv'
  OBVIOUS
<1>0. Shapes /\ TypeOK /\ Shapes'
  BY ShapesStep DEF IInv
<1>1. ASSUME ReaderInv', verdict' = verdict, verdict = "reading"
      PROVE  IInv'
  <2>1. TypeOK'
    BY <1>0, <1>1, LiveTypes, PTL DEF ReaderInv
  <2> QED BY <1>0, <1>1, <2>1 DEF IInv, VerdictInv
<1>2. ASSUME NEW t \in Tids, NEW k \in Kinds, Instruction(t, k)
      PROVE  IInv'
  <2>1. verdict = "reading" /\ verdict' = verdict
    BY <1>2 DEF Instruction, Reads
  <2> QED BY <1>0, <1>1, <1>2, <2>1, InstructionStep DEF IInv, Live
<1>3. ASSUME NEW t \in Tids, NEW k \in Kinds, NEW c \in Ids, Enter(t, k, c)
      PROVE  IInv'
  <2>1. verdict = "reading" /\ verdict' = verdict
    BY <1>3 DEF Enter, Reads
  <2> QED BY <1>0, <1>1, <1>3, <2>1, EnterStep DEF IInv, Live
<1>4. ASSUME NEW t \in Tids, NEW k \in Kinds, NEW c \in Ids, Leave(t, k, c)
      PROVE  IInv'
  <2>1. verdict = "reading" /\ verdict' = verdict
    BY <1>4 DEF Leave, Reads
  <2> QED BY <1>0, <1>1, <1>4, <2>1, LeaveStep DEF IInv, Live
<1>5. ASSUME NEW t \in Tids, NEW k \in Kinds, NEW c \in Ids,
             DuplicateCorrelation(t, k, c) \/ UnmatchedLeave(t, k, c)
      PROVE  IInv'
  <2>1. ReaderInv
    BY <1>5 DEF IInv, Live, DuplicateCorrelation, UnmatchedLeave, Reads
  <2>2. ~Nests(read') /\ verdict' = "malformed"
    BY <1>0, <1>5, <2>1, MalformedStep
  <2>3. TypeOK'
    BY <1>0, <1>5, TypesStay DEF DuplicateCorrelation, UnmatchedLeave, Fails
  <2> QED BY <1>0, <2>2, <2>3 DEF IInv, VerdictInv, Live, Forest
<1>6. CASE EndOfFile
  <2>1. ReaderInv /\ ReaderInv'
    BY <1>6, SameLists DEF IInv, Live, EndOfFile
  <2>2. TypeOK'
    BY <1>0, <1>6, TypesStay DEF EndOfFile
  <2>3. CASE \A t \in Tids : stacks[t] = <<>>
    <3>1. verdict' = "parsed" /\ stacks' = stacks
      BY <1>6, <2>3 DEF EndOfFile
    <3> QED BY <1>0, <2>1, <2>2, <2>3, <3>1 DEF IInv, VerdictInv
  <2>4. CASE ~ \A t \in Tids : stacks[t] = <<>>
    <3>1. verdict' = "malformed" /\ read' = read
      BY <1>6, <2>4 DEF EndOfFile
    <3>2. PICK t \in Tids : stacks[t] # <<>>
      BY <2>4
    <3>3. OpenAt(read, EnteredAt(Top(t))) /\ Lists(read)
      BY <1>0, <2>1, <3>2, TopOfStack DEF ReaderInv, FileInv
    <3>4. ~Complete(read)
      BY <3>3, CompleteFile
    <3> QED BY <1>0, <2>2, <3>1, <3>4 DEF IInv, VerdictInv, Live, Forest
  <2> QED BY <2>3, <2>4
<1>7. CASE UNCHANGED vars
  <2>1. ReaderInv => ReaderInv'
    BY <1>7, SameLists DEF vars
  <2>2. TypeOK'
    BY <1>0, <1>7, TypesStay DEF vars
  <2> QED BY <1>0, <1>7, <2>1, <2>2 DEF IInv, VerdictInv, Live, vars
<1> QED BY <1>2, <1>3, <1>4, <1>5, <1>6, <1>7 DEF Next

(* The inductive invariant of _assemble: what its stacks and lists hold is *)
(* determined by the intervals of the events read so far.                  *)
THEOREM CallForestInvariant == Spec => []IInv
BY CallForestInit, CallForestStep, PTL DEF Spec

-----------------------------------------------------------------------------
(* What the invariant says of the finished maps.                           *)

(* The maps of _assemble have the same keys, and a thread's stack holds    *)
(* distinct open calls.                                                    *)
THEOREM CallForestTypes == Spec => []TypeOK
<1>1. IInv => TypeOK
  BY DEF IInv
<1> QED BY <1>1, CallForestInvariant, PTL

LEMMA ListedTid ==
  ASSUME NEW R, Lists(R), NEW i \in 1..Len(R)
  PROVE  R[i].tid \in Tids
<1>1. R[i] \in FileEvents
  BY DEF Lists
<1> QED BY <1>1 DEF FileEvents, EventSet

(* A file that was parsed has no open call.                                *)
LEMMA NobodyOpen ==
  ASSUME IInv, verdict = "parsed"
  PROVE  Complete(read)
<1>1. ReaderInv /\ Shapes /\ \A t \in Tids : stacks[t] = <<>>
  BY DEF IInv, Live, VerdictInv
<1>2. Lists(read)
  BY <1>1 DEF ReaderInv, FileInv
<1>3. \A i \in 1..Len(read) : read[i].tid \in Tids
  BY <1>2, ListedTid
<1>4. \A i : ~OpenAt(read, i)
  <2> SUFFICES ASSUME NEW i, OpenAt(read, i) PROVE FALSE
    OBVIOUS
  <2>1. read[i].tid \in Tids
    BY <1>2, <1>3, ListFacts DEF OpenAt
  <2> QED BY <1>1, <2>1, TopOfStack DEF ReaderInv
<1> QED BY <1>2, <1>4, CompleteFile

(* _assemble accepts exactly the files whose intervals form a forest.      *)
THEOREM ParsesExactlyForests == Spec => []ParsedIffForest
<1>1. IInv => ParsedIffForest
  <2> SUFFICES ASSUME IInv PROVE ParsedIffForest
    OBVIOUS
  <2>1. Live => Nests(read)
    BY ListsNest DEF IInv, ReaderInv, FileInv
  <2>2. verdict = "parsed" => Complete(read)
    BY NobodyOpen
  <2> QED BY <2>1, <2>2 DEF ParsedIffForest, IInv, VerdictInv, Live, Forest
<1> QED BY <1>1, CallForestInvariant, PTL

LEMMA AroundCalls ==
  ASSUME ReaderInv, NEW n \in 1..Len(read)
  PROVE  /\ \A i : i \in {j \in Enters(read) : Encloses(read, j, n)} <=> Around(read, i, n)
         /\ Lists(read)
BY AroundEncloses DEF ReaderInv, FileInv, Around

LEMMA CallPositions ==
  ASSUME ReaderInv
  PROVE  /\ \A c \in Calls : /\ EnterOf(c) = EnteredAt(c) /\ EnteredAt(c) \in Enters(read)
                             /\ EnteredAt(c) \in 1..Len(read) /\ read[EnteredAt(c)].id = c
                             /\ read[EnteredAt(c)].tid \in Tids
         /\ \A i \in Enters(read) : read[i].id \in Calls /\ EnteredAt(read[i].id) = i
<1>1. Lists(read) /\ Calls = CallIds(read)
  BY DEF ReaderInv, FileInv
<1>2. \A c \in Calls : EnterOf(c) = EnteredAt(c)
  BY DEF EnterOf, EnteredAt, Pos
<1>3. \A i \in 1..Len(read) : read[i].tid \in Tids
  BY <1>1, ListedTid
<1>4. \A i \in Enters(read) : i \in 1..Len(read)
  BY <1>1, ListFacts
<1> QED BY <1>1, <1>2, <1>3, <1>4, PosFacts DEF EnteredAt

(* Call.parent is the innermost interval around a call on its own thread,  *)
(* and a call without one is in Trace.roots.                               *)
THEOREM ParentsAreInnermost == Spec => []ParentIsInnermost
<1>1. IInv => ParentIsInnermost
  <2> SUFFICES ASSUME IInv, Live, NEW c \in Calls
               PROVE  LET around == {i \in Enters(read) : Encloses(read, i, EnterOf(c))}
                      IN  IF around = {}
                            THEN /\ parent[c] = NoParent
                                 /\ \E n \in DOMAIN roots[read[EnterOf(c)].tid] :
                                      roots[read[EnterOf(c)].tid][n] = c
                            ELSE /\ EnterOf(parent[c]) \in around
                                 /\ \A i \in around : i <= EnterOf(parent[c])
    BY DEF ParentIsInnermost, Live
  <2> DEFINE around == {i \in Enters(read) : Encloses(read, i, EnterOf(c))}
  <2>1. ReaderInv
    BY DEF IInv
  <2>2. /\ EnterOf(c) = EnteredAt(c) /\ EnteredAt(c) \in 1..Len(read) /\ read[EnteredAt(c)].tid \in Tids
    BY <2>1, CallPositions
  <2>3. \A i : i \in around <=> Around(read, i, EnteredAt(c))
    BY <2>1, <2>2, AroundCalls
  <2> HIDE DEF around
  <2>4. CASE around = {}
    <3>1. parent[c] = NoParent
      BY <2>1, <2>3, <2>4 DEF ReaderInv, ParentInv, Inner
    <3>2. Has(roots[read[EnteredAt(c)].tid], c)
      BY <2>1, <2>2, <3>1 DEF ReaderInv, RootInv
    <3> QED BY <2>2, <2>4, <3>1, <3>2 DEF Has, around
  <2>5. CASE around # {}
    <3>1. parent[c] \in Calls /\ Inner(read, EnteredAt(parent[c]), EnteredAt(c))
      BY <2>1, <2>3, <2>5 DEF ReaderInv, ParentInv
    <3>2. EnterOf(parent[c]) = EnteredAt(parent[c])
      BY <2>1, <3>1, CallPositions
    <3>3. /\ EnterOf(parent[c]) \in around
          /\ \A i \in around : i <= EnterOf(parent[c])
      BY <2>3, <3>1, <3>2 DEF Inner
    <3> QED BY <2>5, <3>3 DEF around
  <2> QED BY <2>4, <2>5
<1> QED BY <1>1, CallForestInvariant, PTL

(* Every instruction event is owned by the innermost call open on its      *)
(* thread and by no other, or is in the unscoped list.                     *)
THEOREM InstructionsAreAttachedOnce == Spec => []InstructionsAttachedOnce
<1>1. IInv => InstructionsAttachedOnce
  <2> SUFFICES ASSUME IInv, Live, NEW n \in At(read, "instruction")
               PROVE
      LET around == {i \in Enters(read) : Encloses(read, i, n)}
          owners == {c \in Calls : \E m \in DOMAIN instructions[c] :
                                     instructions[c][m] = n}
      IN  /\ (around = {}) = (\E m \in DOMAIN unscoped : unscoped[m] = n)
          /\ Cardinality(owners) = (IF around = {} THEN 0 ELSE 1)
          /\ \A c \in owners : /\ EnterOf(c) \in around
                               /\ \A i \in around : i <= EnterOf(c)
    BY DEF InstructionsAttachedOnce, Live
  <2> DEFINE around == {i \in Enters(read) : Encloses(read, i, n)}
             owners == {c \in Calls : \E m \in DOMAIN instructions[c] :
                                     instructions[c][m] = n}
  <2>1. ReaderInv /\ Lists(read)
    BY DEF IInv, ReaderInv, FileInv
  <2>2. n \in 1..Len(read)
    BY <2>1, ListFacts DEF At
  <2>3. \A i : i \in around <=> Around(read, i, n)
    BY <2>1, <2>2, AroundCalls
  <2>4. \A c : c \in owners <=> c \in Calls /\ Inner(read, EnteredAt(c), n)
    <3>1. \A c : c \in owners <=> c \in Calls /\ Has(instructions[c], n)
      BY DEF Has
    <3> QED BY <2>1, <3>1 DEF ReaderInv, InstructionInv
  <2>5. Has(unscoped, n) <=> around = {}
    BY <2>1, <2>3 DEF ReaderInv, InstructionInv
  <2> HIDE DEF around, owners
  <2>6. \A c \in owners : /\ EnterOf(c) \in around
                          /\ \A i \in around : i <= EnterOf(c)
    BY <2>1, <2>3, <2>4, CallPositions DEF Inner
  <2>7. Cardinality(owners) = (IF around = {} THEN 0 ELSE 1)
    <3>1. CASE around = {}
      <4>1. owners = {}
        BY <2>6, <3>1
      <4> QED BY <3>1, <4>1, FS_EmptySet
    <3>2. CASE around # {}
      <4>1. PICK i : Inner(read, i, n)
        BY <2>1, <2>3, <3>2 DEF ReaderInv, InstructionInv
      <4>2. i \in Enters(read) /\ \A h : Inner(read, h, n) => h = i
        BY <2>1, <2>2, <4>1, InnerIds
      <4>3. read[i].id \in owners
        BY <2>1, <2>4, <4>1, <4>2, CallPositions
      <4>4. \A c \in owners : c = read[i].id
        BY <2>1, <2>4, <4>2, CallPositions
      <4>5. owners = {read[i].id}
        BY <4>3, <4>4
      <4>6. Cardinality(owners) = 1
        BY <4>5, FS_Singleton
      <4> QED BY <3>2, <4>6
    <3> QED BY <3>1, <3>2
  <2>8. (around = {}) = (\E m \in DOMAIN unscoped : unscoped[m] = n)
    BY <2>5 DEF Has
  <2> QED BY <2>6, <2>7, <2>8 DEF around, owners
<1> QED BY <1>1, CallForestInvariant, PTL

(* Call.children are the calls with that parent, in the order of entry.    *)
THEOREM ChildrenAreInEntryOrder == Spec => []ChildrenInEntryOrder
<1>1. IInv => ChildrenInEntryOrder
  <2> SUFFICES ASSUME IInv, Live, NEW c \in Calls
               PROVE
      /\ {children[c][n] : n \in DOMAIN children[c]} = {d \in Calls : parent[d] = c}
      /\ \A m, n \in DOMAIN children[c] :
           m < n => EnterOf(children[c][m]) < EnterOf(children[c][n])
    BY DEF ChildrenInEntryOrder, Live
  <2>1. ReaderInv
    BY DEF IInv
  <2>2. Rising(read, children[c]) /\ \A d : Has(children[c], d) <=> d \in Calls /\ parent[d] = c
    BY <2>1 DEF ReaderInv, ChildInv
  <2>3. \A n \in DOMAIN children[c] : EnterOf(children[c][n]) = Pos(read, children[c][n])
    BY DEF EnterOf, Pos
  <2>4. {children[c][n] : n \in DOMAIN children[c]} = {d \in Calls : parent[d] = c}
    BY <2>2 DEF Has
  <2> QED BY <2>2, <2>3, <2>4 DEF Rising
<1> QED BY <1>1, CallForestInvariant, PTL

(* A list without repetition is as long as what it lists is large.         *)
LEMMA EachOnce ==
  ASSUME NEW S, NEW s, NEW T, s \in Seq(T), \A x : Has(s, x) <=> x \in S,
         \A i, j \in DOMAIN s : s[i] = s[j] => i = j
  PROVE  IsFiniteSet(S) /\ Cardinality(S) = Len(s)
<1> PICK n \in Nat : n = Len(s)
  OBVIOUS
<1>1. DOMAIN s = 1..n
  OBVIOUS
<1> DEFINE f == [i \in 1..n |-> s[i]]
<1>2. f \in [1..n -> S] /\ \A i \in 1..n : f[i] = s[i]
  BY <1>1 DEF Has
<1> HIDE DEF f
<1>3. IsInjective(f)
  BY <1>1, <1>2 DEF IsInjective
<1>4. \A x \in S : \E i \in 1..n : f[i] = x
  BY <1>1, <1>2 DEF Has
<1>5. f \in Bijection(1..n, S)
  BY <1>2, <1>3, <1>4 DEF Bijection, Injection, Surjection
<1>6. ExistsBijection(1..n, S)
  BY <1>5 DEF ExistsBijection
<1>7. IsFiniteSet(1..n) /\ Cardinality(1..n) = n
  <2>1. 1 \in Int /\ n \in Int
    OBVIOUS
  <2>2. IsFiniteSet(1..n)
    BY <2>1, FS_Interval
  <2>3. Cardinality(1..n) = IF 1 > n THEN 0 ELSE n - 1 + 1
    BY <2>1, FS_Interval
  <2>4. (IF 1 > n THEN 0 ELSE n - 1 + 1) = n
    OBVIOUS
  <2> QED BY <2>2, <2>3, <2>4
<1> QED BY <1>6, <1>7, FS_Bijection

LEMMA CallsAreEnters ==
  ASSUME ReaderInv
  PROVE  Cardinality(Calls) = Cardinality(Enters(read))
<1>1. Lists(read) /\ Calls = {read[i].id : i \in Enters(read)}
  BY DEF ReaderInv, FileInv, CallIds
<1>2. IsFiniteSet(Enters(read))
  <2>1. Enters(read) \in SUBSET (1..Len(read)) /\ Len(read) \in Nat
    BY <1>1, ListFacts
  <2>2. IsFiniteSet(1..Len(read))
    BY <2>1, FS_Interval
  <2> QED BY <2>1, <2>2, FS_Subset
<1> DEFINE f == [i \in Enters(read) |-> read[i].id]
<1>3. f \in [Enters(read) -> Calls] /\ \A i \in Enters(read) : f[i] = read[i].id
  BY <1>1
<1> HIDE DEF f
<1>4. IsInjective(f)
  BY <1>1, <1>3 DEF IsInjective, Lists
<1>5. \A x \in Calls : \E i \in Enters(read) : f[i] = x
  BY <1>1, <1>3
<1>6. f \in Bijection(Enters(read), Calls)
  BY <1>3, <1>4, <1>5 DEF Bijection, Injection, Surjection
<1>7. ExistsBijection(Enters(read), Calls)
  BY <1>6 DEF ExistsBijection
<1> QED BY <1>2, <1>7, FS_Bijection

LEMMA EmptyList ==
  ASSUME NEW S, NEW s \in Seq(S), \A x : ~Has(s, x)
  PROVE  s = <<>>
<1> PICK n \in Nat : n = Len(s)
  OBVIOUS
<1>1. DOMAIN s = 1..n
  OBVIOUS
<1>2. ~(1 \in 1..n)
  BY <1>1 DEF Has
<1>3. n = 0
  BY <1>2
<1> QED BY <1>3, EmptySeq

Flat(count) ==
  /\ verdict = "parsed" /\ Cardinality(Enters(read)) = count
  /\ \A i, k \in DOMAIN read : read[i].tid = read[k].tid
  /\ \A k \in Enters(read) : \A i \in Enters(read) : ~Encloses(read, i, k)
  /\ \A k \in At(read, "instruction") :
       \E i \in Enters(read) : Encloses(read, i, k)

(* What single_probe lets pass is flat, and what is flat it lets pass.     *)
LEMMA PassedIsFlat ==
  ASSUME IInv, NEW count, SingleProbe(count)
  PROVE  Flat(count)
<1>1. verdict = "parsed" /\ Shapes /\ ReaderInv /\ Lists(read)
  BY DEF SingleProbe, IInv, Live, ReaderInv, FileInv
<1>2. Cardinality(Enters(read)) = count
  BY <1>1, CallsAreEnters DEF SingleProbe
<1>3. \A d \in Calls : parent[d] = NoParent
  <2> SUFFICES ASSUME NEW d \in Calls, parent[d] # NoParent PROVE FALSE
    OBVIOUS
  <2>1. parent[d] \in Calls
    BY <1>1 DEF ReaderInv, ParentInv
  <2>2. Has(children[parent[d]], d)
    BY <1>1, <2>1 DEF ReaderInv, ChildInv
  <2>3. children[parent[d]] = <<>>
    BY <2>1 DEF SingleProbe
  <2> QED BY <2>2, <2>3 DEF Has
<1>4. PICK t \in Tids : {u \in Tids : roots[u] # <<>>} = {t}
  BY DEF SingleProbe
<1>5. \A i \in Enters(read) : read[i].tid = t
  <2> TAKE i \in Enters(read)
  <2>1. read[i].id \in Calls /\ EnteredAt(read[i].id) = i /\ read[i].tid \in Tids
    BY <1>1, CallPositions
  <2>2. Has(roots[read[i].tid], read[i].id)
    BY <1>1, <1>3, <2>1 DEF ReaderInv, RootInv
  <2>3. roots[read[i].tid] # <<>>
    BY <2>2 DEF Has
  <2> QED BY <1>4, <2>1, <2>3
<1>6. \A i \in DOMAIN read : ReaderInv /\ i \in 1..Len(read)
  BY <1>1, ListFacts
<1>7. \A k \in Enters(read) : \A i \in Enters(read) : ~Encloses(read, i, k)
  <2> TAKE k \in Enters(read)
  <2>1. read[k].id \in Calls /\ EnteredAt(read[k].id) = k /\ k \in 1..Len(read)
    BY <1>1, CallPositions
  <2>2. \A i : ~Around(read, i, k)
    <3>1. parent[read[k].id] = NoParent /\ NoParent \notin Calls
      BY <1>1, <1>3, <2>1, NoParentAssumption, IdsAssumption DEF Shapes
    <3> QED BY <1>1, <2>1, <3>1 DEF ReaderInv, ParentInv
  <2> QED BY <1>1, <2>1, <2>2, AroundEncloses
<1>8. \A k \in At(read, "instruction") : \E i \in Enters(read) : Encloses(read, i, k)
  <2> TAKE k \in At(read, "instruction")
  <2>1. k \in 1..Len(read)
    BY <1>6 DEF At
  <2>2. ~Has(unscoped, k)
    BY DEF SingleProbe, Has
  <2>3. PICK i : Around(read, i, k)
    BY <1>1, <2>2 DEF ReaderInv, InstructionInv
  <2> QED BY <1>1, <2>1, <2>3, AroundEncloses
<1>9. \A i \in DOMAIN read : read[i].tid = t
  <2> TAKE i \in DOMAIN read
  <2>1. i \in 1..Len(read)
    BY <1>6
  <2>2. read[i].phase \in Phases
    <3>1. read[i] \in FileEvents
      BY <1>1, <2>1 DEF Lists
    <3> QED BY <3>1 DEF FileEvents, EventSet
  <2>3. CASE i \in Enters(read)
    BY <1>5, <2>3
  <2>4. CASE i \in Leaves(read)
    BY <1>1, <1>5, <2>4 DEF Lists
  <2>5. CASE i \in At(read, "instruction")
    BY <1>5, <1>8, <2>5 DEF Encloses
  <2> QED BY <2>2, <2>3, <2>4, <2>5 DEF Phases, Enters, Leaves, At
<1> QED BY <1>1, <1>2, <1>7, <1>8, <1>9 DEF Flat

LEMMA FlatPasses ==
  ASSUME IInv, NEW count \in Nat \ {0}, Flat(count)
  PROVE  SingleProbe(count)
<1>1. verdict = "parsed" /\ Shapes /\ ReaderInv /\ Lists(read) /\ Complete(read)
  BY NobodyOpen DEF Flat, IInv, Live, ReaderInv, FileInv
<1>2. Cardinality(Calls) = count
  BY <1>1, CallsAreEnters DEF Flat
<1>3. \A k \in Enters(read) : \A i : ~Around(read, i, k)
  <2>1. \A k \in Enters(read) : k \in 1..Len(read)
    BY <1>1, ListFacts
  <2> QED BY <1>1, <2>1, AroundEncloses DEF Flat
<1>4. \A d \in Calls : parent[d] = NoParent
  BY <1>1, <1>3, CallPositions DEF ReaderInv, ParentInv, Inner
<1>5. ASSUME NEW c \in Calls
      PROVE  c \in left /\ children[c] = <<>>
  <2>1. children[c] = <<>>
    <3>1. c # NoParent
      BY <1>1, NoParentAssumption, IdsAssumption DEF Shapes
    <3>2. \A d : ~Has(children[c], d)
      BY <1>1, <1>4, <3>1 DEF ReaderInv, ChildInv
    <3>3. children[c] \in Seq(Ids)
      BY <1>1 DEF Shapes
    <3> QED BY <3>2, <3>3, EmptyList
  <2>2. EnteredAt(c) \in Enters(read) /\ read[EnteredAt(c)].id = c
    BY <1>1, CallPositions
  <2>3. PICK j : j \in LeavesOf(read, EnteredAt(c))
    BY <1>1, <2>2 DEF Complete
  <2>4. j \in Leaves(read) /\ read[j].id = c
    BY <2>2, <2>3 DEF LeavesOf
  <2> QED BY <1>1, <2>1, <2>4 DEF ReaderInv, FileInv
<1>6. unscoped = <<>>
  <2>1. \A n : ~Has(unscoped, n)
    <3> SUFFICES ASSUME NEW n, Has(unscoped, n) PROVE FALSE
      OBVIOUS
    <3>1. n \in At(read, "instruction") /\ \A i : ~Around(read, i, n)
      BY <1>1 DEF ReaderInv, InstructionInv
    <3>2. n \in 1..Len(read)
      BY <1>1, <3>1, ListFacts DEF At
    <3> QED BY <1>1, <3>1, <3>2, AroundEncloses DEF Flat
  <2>2. unscoped \in Seq(Nat)
    BY <1>1 DEF Shapes
  <2> QED BY <2>1, <2>2, EmptyList
<1>7. PICK c : c \in Calls
  <2>1. Calls # {}
    BY <1>2, FS_EmptySet
  <2> QED BY <2>1
<1>8. PICK t \in Tids : t = read[EnteredAt(c)].tid
  BY <1>1, <1>7, CallPositions
<1>9. \A d \in Calls : read[EnteredAt(d)].tid = t
  <2>1. \A d \in Calls : EnteredAt(d) \in DOMAIN read
    BY <1>1, CallPositions, ListFacts
  <2> QED BY <1>7, <1>8, <2>1 DEF Flat
<1>10. \A u \in Tids : \A d : Has(roots[u], d) <=> u = t /\ d \in Calls
  BY <1>1, <1>4, <1>9 DEF ReaderInv, RootInv
<1>11. \A u \in Tids : roots[u] # <<>> <=> u = t
  <2> TAKE u \in Tids
  <2>1. roots[u] \in Seq(Ids)
    BY <1>1 DEF Shapes
  <2>2. roots[u] # <<>> => u = t
    BY <1>10, <2>1, EmptyList
  <2>3. Has(roots[t], c)
    BY <1>7, <1>10
  <2>4. roots[t] # <<>>
    BY <2>3 DEF Has
  <2> QED BY <2>2, <2>4
<1>12. Len(roots[t]) = count
  <2>1. Rising(read, roots[t]) /\ roots[t] \in Seq(Ids)
    BY <1>1 DEF ReaderInv, RootInv, Shapes
  <2>2. \A i \in DOMAIN roots[t] : i \in Nat /\ Pos(read, roots[t][i]) \in Nat
    <3>1. \A i \in DOMAIN roots[t] : roots[t][i] \in Calls
      BY <1>10 DEF Has
    <3>2. \A d \in Calls : EnteredAt(d) \in Nat
      BY <1>1, CallPositions
    <3>3. \A i \in DOMAIN roots[t] : i \in Nat
      BY <2>1
    <3> QED BY <3>1, <3>2, <3>3 DEF EnteredAt
  <2>3. \A i, j \in DOMAIN roots[t] : roots[t][i] = roots[t][j] => i = j
    <3> TAKE i, j \in DOMAIN roots[t]
    <3> HAVE roots[t][i] = roots[t][j]
    <3>1. ~(Pos(read, roots[t][i]) < Pos(read, roots[t][j]))
          /\ ~(Pos(read, roots[t][j]) < Pos(read, roots[t][i]))
      BY <2>2
    <3>2. ~(i < j) /\ ~(j < i)
      BY <2>1, <3>1 DEF Rising
    <3> QED BY <2>2, <3>2
  <2>4. \A x : Has(roots[t], x) <=> x \in Calls
    BY <1>10
  <2>5. Cardinality(Calls) = Len(roots[t])
    BY <2>1, <2>3, <2>4, EachOnce
  <2> QED BY <1>2, <2>5
<1>13. {u \in Tids : roots[u] # <<>>} = {t}
  BY <1>11
<1> QED BY <1>1, <1>2, <1>5, <1>6, <1>12, <1>13 DEF SingleProbe

(* single_probe lets exactly the recordings pass that are one thread's     *)
(* calls, so many, none around another, with every instruction inside one. *)
THEOREM SingleProbesAreFlat == Spec => []SingleProbeIsFlat
<1>1. IInv => SingleProbeIsFlat
  <2> SUFFICES ASSUME IInv, NEW count \in 1..Cardinality(Ids)
               PROVE  SingleProbe(count) <=> Flat(count)
    BY DEF SingleProbeIsFlat, Flat
  <2>1. count \in Nat \ {0}
    OBVIOUS
  <2> QED BY <2>1, PassedIsFlat, FlatPasses
<1> QED BY <1>1, CallForestInvariant, PTL
=============================================================================
