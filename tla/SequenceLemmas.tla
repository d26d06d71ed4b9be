---------------------------- MODULE SequenceLemmas ----------------------------
(***************************************************************************)
(* Lemmas about the operators on sequences the models use, of which the    *)
(* libraries have only the definitions: FlattenSeq, and Picked.  Induction *)
(* is over sets of naturals, which the provers can instantiate.            *)
(***************************************************************************)
EXTENDS Comprehension, SequencesExt, SequenceTheorems, WellFoundedInduction, TLAPS

(* Induction: a set of naturals has a least element, so a set that holds   *)
(* 0 and n + 1 with every n holds every natural.                           *)

Less == {ss \in Nat \X Nat : ss[1] < ss[2]}

LEMMA NatMin ==
  ASSUME NEW T \in SUBSET Nat, T # {}
  PROVE  \E m \in T : \A n \in T : m <= n
<1>1. IsWellFoundedOn(Less, Nat)
  BY NatLessThanWellFounded DEF OpToRel, Less
<1>2. PICK m \in T : \A n \in T : ~(<<n, m>> \in Less)
  BY <1>1, WFMin
<1>3. \A n \in T : <<n, m>> \in Nat \X Nat /\ <<n, m>>[1] = n /\ <<n, m>>[2] = m
  OBVIOUS
<1>4. \A n \in T : ~(n < m)
  BY <1>2, <1>3 DEF Less
<1> QED BY <1>4

LEMMA NatInd ==
  ASSUME NEW S, 0 \in S, \A n \in Nat : n \in S => n + 1 \in S
  PROVE  Nat \subseteq S
<1> SUFFICES ASSUME Nat \ S # {} PROVE FALSE
  OBVIOUS
<1>1. PICK m \in Nat \ S : \A n \in Nat \ S : m <= n
  BY NatMin
<1>2. m # 0
  OBVIOUS
<1>3. m - 1 \in S
  BY <1>1, <1>2
<1> QED BY <1>1, <1>2, <1>3

-----------------------------------------------------------------------------
(* FlattenSeq, of which the library only has the definition: f[i] is the   *)
(* concatenation of the first i sequences of s.                            *)

Concatenates(s, n, f) ==
  \A i \in 1..n : f[i] = IF i = 1 THEN s[i] ELSE f[i-1] \o s[i]

LEMMA Concatenation ==
  ASSUME NEW S, NEW s \in Seq(Seq(S))
  PROVE  \E f \in [1..Len(s) -> Seq(S)] : Concatenates(s, Len(s), f)
<1> DEFINE Good == {n \in Nat : n <= Len(s) =>
                      \E f \in [1..n -> Seq(S)] : Concatenates(s, n, f)}
<1>1. 0 \in Good
  <2> DEFINE f == [i \in 1..0 |-> <<>>]
  <2>1. f \in [1..0 -> Seq(S)] /\ Concatenates(s, 0, f)
    BY DEF Concatenates
  <2> QED BY <2>1
<1>2. ASSUME NEW n \in Nat, n \in Good PROVE n + 1 \in Good
  <2> SUFFICES ASSUME n + 1 <= Len(s)
               PROVE  \E f \in [1..(n + 1) -> Seq(S)] : Concatenates(s, n + 1, f)
    OBVIOUS
  <2>1. PICK f \in [1..n -> Seq(S)] : Concatenates(s, n, f)
    BY <1>2
  <2> DEFINE last == IF n = 0 THEN s[1] ELSE f[n] \o s[n + 1]
             g == [i \in 1..(n + 1) |-> IF i = n + 1 THEN last ELSE f[i]]
  <2>2. s[n + 1] \in Seq(S)
    BY ElementOfSeq
  <2>3. last \in Seq(S)
    <3>1. CASE n = 0
      BY <2>2, <3>1
    <3>2. CASE n # 0
      BY <2>1, <2>2, <3>2
    <3> QED BY <3>1, <3>2
  <2>4. g \in [1..(n + 1) -> Seq(S)]
    BY <2>1, <2>3
  <2>5. ASSUME NEW i \in 1..(n + 1)
        PROVE  g[i] = IF i = 1 THEN s[i] ELSE g[i-1] \o s[i]
    <3>1. CASE i = n + 1
      BY <3>1
    <3>2. CASE i \in 1..n
      <4>1. i \in 1..(n + 1) /\ i # n + 1 /\ (i # 1 => i - 1 \in 1..(n + 1) /\ i - 1 # n + 1)
        BY <3>2
      <4>2. g[i] = f[i]
        BY <4>1
      <4>3. i # 1 => g[i-1] = f[i-1]
        BY <4>1
      <4> QED BY <2>1, <3>2, <4>2, <4>3 DEF Concatenates
    <3> QED BY <3>1, <3>2
  <2> HIDE DEF g
  <2> QED BY <2>4, <2>5 DEF Concatenates
<1> HIDE DEF Good
<1>3. Nat \subseteq Good
  BY <1>1, <1>2, NatInd
<1>4. Len(s) \in Good
  BY <1>3
<1> QED BY <1>4 DEF Good

LEMMA OneConcatenation ==
  ASSUME NEW s, NEW t, NEW n \in Nat, \A i \in 1..n : s[i] = t[i],
         NEW f, NEW g, Concatenates(s, n, f), Concatenates(t, n, g)
  PROVE  \A i \in 1..n : f[i] = g[i]
<1> DEFINE Good == {i \in Nat : i \in 1..n => f[i] = g[i]}
<1>1. 0 \in Good
  OBVIOUS
<1>2. ASSUME NEW i \in Nat, i \in Good PROVE i + 1 \in Good
  <2> SUFFICES ASSUME i + 1 \in 1..n PROVE f[i + 1] = g[i + 1]
    OBVIOUS
  <2>1. s[i + 1] = t[i + 1] /\ (i + 1 # 1 => i \in 1..n) /\ (i + 1) - 1 = i
    OBVIOUS
  <2>2. /\ f[i + 1] = IF i + 1 = 1 THEN s[i + 1] ELSE f[i] \o s[i + 1]
        /\ g[i + 1] = IF i + 1 = 1 THEN t[i + 1] ELSE g[i] \o t[i + 1]
    BY <2>1 DEF Concatenates
  <2> QED BY <1>2, <2>1, <2>2
<1> HIDE DEF Good
<1>3. Nat \subseteq Good
  BY <1>1, <1>2, NatInd
<1> QED BY <1>3 DEF Good

LEMMA FlattenIsConcatenation ==
  ASSUME NEW S, NEW s \in Seq(Seq(S)), s # <<>>
  PROVE  \E f \in [1..Len(s) -> Seq(S)] :
           Concatenates(s, Len(s), f) /\ FlattenSeq(s) = f[Len(s)]
<1> DEFINE Def(f) == f = [i \in 1..Len(s) |-> IF i = 1 THEN s[i] ELSE f[i-1] \o s[i]]
           h == CHOOSE f : Def(f)
<1>1. PICK f \in [1..Len(s) -> Seq(S)] : Concatenates(s, Len(s), f)
  BY Concatenation
<1>2. Def(f)
  BY <1>1 DEF Concatenates
<1>3. Def(h)
  BY <1>2
<1>4. Len(s) \in Nat \ {0}
  OBVIOUS
<1>5. FlattenSeq(s) = h[Len(s)]
  BY <1>4 DEF FlattenSeq
<1>6. Concatenates(s, Len(s), h)
  <2> HIDE DEF h
  <2> QED BY <1>3 DEF Concatenates
<1> HIDE DEF h, Def
<1>7. h[Len(s)] = f[Len(s)]
  BY <1>1, <1>4, <1>6, OneConcatenation
<1> QED BY <1>1, <1>5, <1>7

LEMMA FlattenEmpty == FlattenSeq(<<>>) = <<>>
BY DEF FlattenSeq

LEMMA FlattenAppends ==
  ASSUME NEW S, NEW s \in Seq(Seq(S)), NEW x \in Seq(S)
  PROVE  FlattenSeq(Append(s, x)) = FlattenSeq(s) \o x
<1> DEFINE t == Append(s, x)
<1>1. /\ t \in Seq(Seq(S)) /\ Len(t) = Len(s) + 1 /\ t # <<>> /\ t[Len(s) + 1] = x
      /\ \A i \in 1..Len(s) : s[i] = t[i]
  <2>1. /\ t \in Seq(Seq(S)) /\ Len(t) = Len(s) + 1 /\ t[Len(s) + 1] = x
        /\ Len(s) \in Nat
    BY AppendProperties
  <2>2. Len(t) # 0
    BY <2>1
  <2>4. t # <<>>
    <3> HIDE DEF t
    <3>1. Len(<<>>) = 0
      OBVIOUS
    <3> QED BY <2>2, <3>1
  <2>3. \A i \in 1..Len(s) : s[i] = t[i]
    OBVIOUS
  <2> QED BY <2>1, <2>3, <2>4
<1>2. PICK n \in Nat : n = Len(s)
  OBVIOUS
<1> HIDE DEF t
<1>3. PICK g \in [1..Len(t) -> Seq(S)] :
        Concatenates(t, Len(t), g) /\ FlattenSeq(t) = g[Len(t)]
  BY <1>1, FlattenIsConcatenation
<1>4. CASE s = <<>>
  <2>1. Len(t) = 1 /\ t[1] = x
    BY <1>1, <1>4
  <2>2. FlattenSeq(t) = x
    BY <1>3, <2>1 DEF Concatenates
  <2>3. <<>> \o x = x
    OBVIOUS
  <2> QED BY <1>4, <2>2, <2>3, FlattenEmpty DEF t
<1>5. CASE s # <<>>
  <2>1. PICK f \in [1..Len(s) -> Seq(S)] :
          Concatenates(s, Len(s), f) /\ FlattenSeq(s) = f[Len(s)]
    BY <1>5, FlattenIsConcatenation
  <2>2. Len(s) # 0 /\ Len(t) - 1 = Len(s) /\ Len(t) # 1 /\ Len(t) \in 1..Len(t)
    BY <1>1, <1>2, <1>5
  <2>3. Concatenates(t, n, g)
    <3>1. \A i \in 1..n : i \in 1..(n + 1)
      OBVIOUS
    <3> QED BY <1>1, <1>2, <1>3, <3>1 DEF Concatenates
  <2>4. \A i \in 1..n : f[i] = g[i]
    <3>1. Concatenates(s, n, f) /\ \A i \in 1..n : s[i] = t[i]
      BY <1>1, <1>2, <2>1
    <3> QED BY <2>3, <3>1, OneConcatenation
  <2>5. f[Len(s)] = g[Len(s)]
    BY <1>2, <2>2, <2>4
  <2>6. g[Len(t)] = g[Len(s)] \o t[Len(t)]
    BY <1>3, <2>2 DEF Concatenates
  <2> QED BY <1>1, <1>3, <2>1, <2>5, <2>6 DEF t
<1> QED BY <1>4, <1>5

(* A concatenation of pieces of known lengths determines the pieces.       *)
LEMMA ConcatCancels ==
  ASSUME NEW S
  PROVE  \A a, b, x, y \in Seq(S) :
           a \o x = b \o y /\ Len(x) = Len(y) => a = b /\ x = y
<1> TAKE a, b, x, y \in Seq(S)
<1> HAVE a \o x = b \o y /\ Len(x) = Len(y)
<1>1. PICK m \in Nat, n \in Nat, k \in Nat : m = Len(a) /\ n = Len(b) /\ k = Len(x)
  OBVIOUS
<1>2. Len(a \o x) = m + k /\ Len(b \o y) = n + k
  BY <1>1, ConcatProperties
<1>3. m = n
  BY <1>2
<1>4. \A i \in 1..m : a[i] = (a \o x)[i] /\ b[i] = (b \o y)[i]
  BY <1>1, <1>3
<1>5. a = b
  BY <1>1, <1>3, <1>4, SeqEqual
<1>6. \A i \in 1..k : x[i] = (a \o x)[m + i] /\ y[i] = (b \o y)[m + i]
  <2> SUFFICES ASSUME NEW i \in 1..k
               PROVE  x[i] = (a \o x)[m + i] /\ y[i] = (b \o y)[m + i]
    OBVIOUS
  <2>1. m + i \in 1..(m + k) /\ ~(m + i <= m) /\ (m + i) - m = i
    OBVIOUS
  <2>2. (a \o x)[m + i] = x[(m + i) - m]
    BY <1>1, <2>1, ConcatProperties
  <2>3. (b \o y)[m + i] = y[(m + i) - m]
    BY <1>1, <1>3, <2>1, ConcatProperties
  <2> QED BY <2>1, <2>2, <2>3
<1>7. x = y
  <2>1. Len(x) = k /\ Len(y) = k
    BY <1>1
  <2>2. \A i \in 1..k : x[i] = y[i]
    BY <1>3, <1>5, <1>6
  <2> QED BY <2>1, <2>2, SeqEqual
<1> QED BY <1>5, <1>7

LEMMA FlattenInjective ==
  ASSUME NEW S, NEW s \in Seq(Seq(S)), NEW t \in Seq(Seq(S)),
         Len(s) = Len(t), \A i \in 1..Len(s) : Len(s[i]) = Len(t[i]),
         FlattenSeq(s) = FlattenSeq(t)
  PROVE  s = t
<1>1. CASE s = <<>>
  BY <1>1
<1>2. CASE s # <<>>
  <2>0. t # <<>> /\ Len(s) # 0
    BY <1>2
  <2>1. PICK n \in Nat : n = Len(s) /\ n = Len(t) /\ n >= 1
    BY <2>0
  <2>2. PICK f \in [1..n -> Seq(S)] : Concatenates(s, n, f) /\ FlattenSeq(s) = f[n]
    <3>1. \E f \in [1..Len(s) -> Seq(S)] :
            Concatenates(s, Len(s), f) /\ FlattenSeq(s) = f[Len(s)]
      BY <1>2, FlattenIsConcatenation
    <3> QED BY <2>1, <3>1
  <2>3. PICK g \in [1..n -> Seq(S)] : Concatenates(t, n, g) /\ FlattenSeq(t) = g[n]
    <3>1. \E g \in [1..Len(t) -> Seq(S)] :
            Concatenates(t, Len(t), g) /\ FlattenSeq(t) = g[Len(t)]
      BY <2>0, FlattenIsConcatenation
    <3> QED BY <2>1, <3>1
  <2>4. \A i \in 1..n : s[i] \in Seq(S) /\ t[i] \in Seq(S) /\ Len(s[i]) = Len(t[i])
    BY <2>1, ElementOfSeq
  <2> DEFINE Good == {k \in Nat : k < n => f[n - k] = g[n - k]}
  <2>5. ASSUME NEW i \in 1..n, f[i] = g[i]
        PROVE  s[i] = t[i] /\ (i # 1 => f[i - 1] = g[i - 1])
    <3>1. CASE i = 1
      BY <2>2, <2>3, <2>5, <3>1 DEF Concatenates
    <3>2. CASE i # 1
      <4>1. f[i - 1] \in Seq(S) /\ g[i - 1] \in Seq(S)
        BY <3>2
      <4>2. f[i - 1] \o s[i] = g[i - 1] \o t[i]
        BY <2>2, <2>3, <2>5, <3>2 DEF Concatenates
      <4>3. s[i] \in Seq(S) /\ t[i] \in Seq(S) /\ Len(s[i]) = Len(t[i])
        BY <2>4
      <4>4. \A a, b, x, y \in Seq(S) :
              a \o x = b \o y /\ Len(x) = Len(y) => a = b /\ x = y
        BY ConcatCancels
      <4>5. f[i - 1] = g[i - 1] /\ s[i] = t[i]
        <5>1. \A b, x, y \in Seq(S) :
                f[i - 1] \o x = b \o y /\ Len(x) = Len(y) => f[i - 1] = b /\ x = y
          BY <4>1, <4>4, Zenon
        <5>2. \A x, y \in Seq(S) :
                f[i - 1] \o x = g[i - 1] \o y /\ Len(x) = Len(y)
                  => f[i - 1] = g[i - 1] /\ x = y
          BY <4>1, <5>1, Zenon
        <5> QED BY <4>2, <4>3, <5>2, Zenon
      <4> QED BY <4>5
    <3> QED BY <3>1, <3>2
  <2>6. 0 \in Good
    <3>1. f[n] = g[n]
      BY <2>2, <2>3, Zenon
    <3>2. n - 0 = n
      OBVIOUS
    <3> QED BY <3>1, <3>2
  <2>7. ASSUME NEW k \in Nat, k \in Good PROVE k + 1 \in Good
    <3> SUFFICES ASSUME k + 1 < n PROVE f[n - (k + 1)] = g[n - (k + 1)]
      OBVIOUS
    <3>1. n - k \in 1..n /\ n - k # 1 /\ (n - k) - 1 = n - (k + 1) /\ k < n
      OBVIOUS
    <3> QED BY <2>5, <2>7, <3>1
  <2> HIDE DEF Good
  <2>8. Nat \subseteq Good
    BY <2>6, <2>7, NatInd
  <2>9. ASSUME NEW i \in 1..n PROVE s[i] = t[i]
    <3>1. n - i \in Good /\ n - i < n /\ n - (n - i) = i
      BY <2>8
    <3>2. f[i] = g[i]
      BY <3>1 DEF Good
    <3> QED BY <2>5, <3>2
  <2> QED BY <2>1, <2>9, SeqEqual
<1> QED BY <1>1, <1>2

LEMMA FlattenTyped ==
  ASSUME NEW S, NEW s \in Seq(Seq(S))
  PROVE  FlattenSeq(s) \in Seq(S)
<1>1. CASE s = <<>>
  <2>1. FlattenSeq(s) = <<>>
    BY <1>1, FlattenEmpty
  <2>2. <<>> \in Seq(S)
    OBVIOUS
  <2> QED BY <2>1, <2>2
<1>2. CASE s # <<>>
  <2>1. PICK f \in [1..Len(s) -> Seq(S)] :
          Concatenates(s, Len(s), f) /\ FlattenSeq(s) = f[Len(s)]
    BY <1>2, FlattenIsConcatenation
  <2>2. Len(s) \in 1..Len(s)
    BY <1>2
  <2> QED BY <2>1, <2>2
<1> QED BY <1>1, <1>2

LEMMA FlattenNonempty ==
  ASSUME NEW S, NEW s \in Seq(Seq(S)), s # <<>>, \A i \in 1..Len(s) : s[i] # <<>>
  PROVE  FlattenSeq(s) # <<>>
<1>1. PICK n \in Nat : n = Len(s) /\ n >= 1
  OBVIOUS
<1>2. PICK f \in [1..n -> Seq(S)] : Concatenates(s, n, f) /\ FlattenSeq(s) = f[n]
  BY <1>1, FlattenIsConcatenation
<1>3. s[n] \in Seq(S) /\ s[n] # <<>>
  BY <1>1, ElementOfSeq
<1>4. CASE n = 1
  BY <1>2, <1>3, <1>4 DEF Concatenates
<1>5. CASE n # 1
  <2>0. n \in 1..n /\ n - 1 \in 1..n
    BY <1>1, <1>5
  <2>1. f[n - 1] \in Seq(S) /\ f[n] = f[n - 1] \o s[n]
    BY <1>2, <1>5, <2>0 DEF Concatenates
  <2>2. PICK a \in Seq(S), b \in Seq(S) : f[n] = a \o b /\ b # <<>>
    BY <1>3, <2>1, Zenon
  <2>3. Len(a \o b) # 0
    <3>1. PICK k \in Nat, l \in Nat : k = Len(a) /\ l = Len(b) /\ l # 0
      BY <2>2
    <3>2. Len(a \o b) = k + l
      BY <3>1, ConcatProperties
    <3> QED BY <3>1, <3>2
  <2>4. Len(<<>>) = 0
    OBVIOUS
  <2> QED BY <1>2, <2>2, <2>3, <2>4
<1> QED BY <1>4, <1>5

-----------------------------------------------------------------------------
(* Selections: f[i] holds what is wanted of the first i elements of s.     *)

Selects(s, wanted, n, f) ==
  /\ f[0] = <<>>
  /\ \A i \in 1..n : f[i] = IF i \in wanted THEN Append(f[i - 1], s[i]) ELSE f[i - 1]

SelectedFrom(s, wanted, picked) ==
  \A k \in DOMAIN picked : \E i \in wanted \cap DOMAIN s : picked[k] = s[i]

LEMMA Selection ==
  ASSUME NEW S, NEW s \in Seq(S), NEW wanted
  PROVE  \E f \in [0..Len(s) -> Seq(S)] : Selects(s, wanted, Len(s), f)
<1> DEFINE Good == {n \in Nat : n <= Len(s) =>
                      \E f \in [0..n -> Seq(S)] : Selects(s, wanted, n, f)}
<1>1. 0 \in Good
  <2> DEFINE f == [i \in 0..0 |-> <<>>]
  <2>1. f \in [0..0 -> Seq(S)] /\ Selects(s, wanted, 0, f)
    BY DEF Selects
  <2> QED BY <2>1
<1>2. ASSUME NEW n \in Nat, n \in Good PROVE n + 1 \in Good
  <2> SUFFICES ASSUME n + 1 <= Len(s)
               PROVE  \E f \in [0..(n + 1) -> Seq(S)] : Selects(s, wanted, n + 1, f)
    OBVIOUS
  <2>1. PICK f \in [0..n -> Seq(S)] : Selects(s, wanted, n, f)
    BY <1>2
  <2> DEFINE last == IF n + 1 \in wanted THEN Append(f[n], s[n + 1]) ELSE f[n]
             g == [i \in 0..(n + 1) |-> IF i = n + 1 THEN last ELSE f[i]]
  <2>2. s[n + 1] \in S /\ f[n] \in Seq(S)
    BY ElementOfSeq
  <2>3. last \in Seq(S)
    BY <2>2
  <2>4. g \in [0..(n + 1) -> Seq(S)]
    BY <2>1, <2>3
  <2>5. g[0] = <<>>
    BY <2>1 DEF Selects
  <2>6. ASSUME NEW i \in 1..(n + 1)
        PROVE  g[i] = IF i \in wanted THEN Append(g[i - 1], s[i]) ELSE g[i - 1]
    <3>1. CASE i = n + 1
      <4>1. g[i] = last /\ g[i - 1] = f[n]
        BY <3>1
      <4> QED BY <3>1, <4>1
    <3>2. CASE i \in 1..n
      <4>1. i \in 0..(n + 1) /\ i # n + 1 /\ i - 1 \in 0..(n + 1) /\ i - 1 # n + 1
        BY <3>2
      <4>2. g[i] = f[i] /\ g[i - 1] = f[i - 1]
        BY <4>1
      <4> QED BY <2>1, <3>2, <4>2 DEF Selects
    <3> QED BY <3>1, <3>2
  <2> HIDE DEF g
  <2> QED BY <2>4, <2>5, <2>6 DEF Selects
<1> HIDE DEF Good
<1>3. Nat \subseteq Good
  BY <1>1, <1>2, NatInd
<1>4. Len(s) \in Good
  BY <1>3
<1> QED BY <1>4 DEF Good

LEMMA SelectionIsFrom ==
  ASSUME NEW S, NEW s \in Seq(S), NEW wanted, NEW f, Selects(s, wanted, Len(s), f)
  PROVE  f[Len(s)] \in Seq(S) /\ SelectedFrom(s, wanted, f[Len(s)])
<1> DEFINE Good == {n \in Nat : n <= Len(s) =>
                      f[n] \in Seq(S) /\ SelectedFrom(s, wanted, f[n])}
<1>1. 0 \in Good
  <2>1. f[0] = <<>>
    BY DEF Selects
  <2>2. <<>> \in Seq(S) /\ DOMAIN <<>> = {}
    OBVIOUS
  <2> QED BY <2>1, <2>2 DEF SelectedFrom
<1>2. ASSUME NEW n \in Nat, n \in Good PROVE n + 1 \in Good
  <2> SUFFICES ASSUME n + 1 <= Len(s)
               PROVE  f[n + 1] \in Seq(S) /\ SelectedFrom(s, wanted, f[n + 1])
    OBVIOUS
  <2>1. f[n] \in Seq(S) /\ SelectedFrom(s, wanted, f[n])
    BY <1>2
  <2>2. n + 1 \in DOMAIN s /\ s[n + 1] \in S
    BY ElementOfSeq
  <2>3. f[n + 1] = IF n + 1 \in wanted THEN Append(f[n], s[n + 1]) ELSE f[n]
    <3>1. n + 1 \in 1..Len(s) /\ (n + 1) - 1 = n
      OBVIOUS
    <3> QED BY <3>1 DEF Selects
  <2>4. CASE n + 1 \notin wanted
    BY <2>1, <2>3, <2>4
  <2>5. CASE n + 1 \in wanted
    <3>1. f[n + 1] = Append(f[n], s[n + 1])
      BY <2>3, <2>5
    <3>2. f[n + 1] \in Seq(S)
      BY <2>1, <2>2, <3>1
    <3>3. ASSUME NEW k \in DOMAIN f[n + 1]
          PROVE  \E i \in wanted \cap DOMAIN s : f[n + 1][k] = s[i]
      <4>1. (k \in DOMAIN f[n] /\ f[n + 1][k] = f[n][k]) \/ f[n + 1][k] = s[n + 1]
        BY <2>1, <2>2, <3>1
      <4> QED BY <2>1, <2>2, <2>5, <4>1 DEF SelectedFrom
    <3> QED BY <3>2, <3>3 DEF SelectedFrom
  <2> QED BY <2>4, <2>5
<1> HIDE DEF Good
<1>3. Nat \subseteq Good
  BY <1>1, <1>2, NatInd
<1>4. Len(s) \in Good
  BY <1>3
<1> QED BY <1>4 DEF Good

LEMMA PickedSelects ==
  ASSUME NEW S, NEW list \in Seq(S), NEW wanted \in SUBSET (DOMAIN list)
  PROVE  \E f : Selects(list, wanted, Len(list), f) /\ Picked(list, wanted) = f[Len(list)]
<1> DEFINE Step(f, n) == CASE n = 0       -> <<>>
                           [] n \in wanted -> Append(f[n - 1], list[n])
                           [] OTHER       -> f[n - 1]
           Def(f) == f = [n \in 0..Len(list) |-> Step(f, n)]
           h == CHOOSE f : Def(f)
<1>0. 0 \notin wanted
  OBVIOUS
<1>1. PICK f \in [0..Len(list) -> Seq(S)] : Selects(list, wanted, Len(list), f)
  BY Selection
<1>2. ASSUME NEW n \in 0..Len(list) PROVE f[n] = Step(f, n)
  <2>1. CASE n = 0
    BY <1>0, <1>1, <2>1 DEF Selects
  <2>2. CASE n # 0
    <3>1. n \in 1..Len(list)
      BY <2>2
    <3> QED BY <1>1, <2>2, <3>1 DEF Selects
  <2> QED BY <2>1, <2>2
<1>3. Def(f)
  <2> HIDE DEF Step
  <2> QED BY <1>2
<1>4. Def(h)
  <2> HIDE DEF Def
  <2> QED BY <1>3
<1>5. Picked(list, wanted) = h[Len(list)]
  BY DEF Picked
<1> HIDE DEF h
<1>6. \A n \in 0..Len(list) : h[n] = Step(h, n)
  <2> HIDE DEF Step
  <2> QED BY <1>4
<1>7. Selects(list, wanted, Len(list), h)
  BY <1>0, <1>6 DEF Selects
<1> QED BY <1>5, <1>7

LEMMA PickedIs ==
  ASSUME NEW S, NEW list \in Seq(S), NEW wanted \in SUBSET (DOMAIN list)
  PROVE  /\ Picked(list, wanted) \in Seq(S)
         /\ SelectedFrom(list, wanted, Picked(list, wanted))
BY PickedSelects, SelectionIsFrom

(* Nothing wanted is left out.                                             *)
LEMMA PickedAll ==
  ASSUME NEW S, NEW list \in Seq(S), NEW wanted \in SUBSET (DOMAIN list)
  PROVE  \A i \in wanted : \E k \in DOMAIN Picked(list, wanted) :
           Picked(list, wanted)[k] = list[i]
<1>1. PICK f : Selects(list, wanted, Len(list), f) /\ Picked(list, wanted) = f[Len(list)]
  BY PickedSelects
<1> DEFINE Has(n) == \A i \in wanted \cap (1..n) : \E k \in DOMAIN f[n] : f[n][k] = list[i]
           Good == {n \in Nat : n <= Len(list) => f[n] \in Seq(S) /\ Has(n)}
<1>2. 0 \in Good
  <2>1. f[0] = <<>>
    BY <1>1 DEF Selects
  <2>2. <<>> \in Seq(S) /\ 1..0 = {}
    OBVIOUS
  <2> QED BY <2>1, <2>2
<1>3. ASSUME NEW n \in Nat, n \in Good PROVE n + 1 \in Good
  <2> SUFFICES ASSUME n + 1 <= Len(list) PROVE f[n + 1] \in Seq(S) /\ Has(n + 1)
    OBVIOUS
  <2>1. f[n] \in Seq(S) /\ Has(n)
    BY <1>3
  <2>2. n + 1 \in DOMAIN list /\ list[n + 1] \in S
    BY ElementOfSeq
  <2>3. f[n + 1] = IF n + 1 \in wanted THEN Append(f[n], list[n + 1]) ELSE f[n]
    <3>1. n + 1 \in 1..Len(list) /\ (n + 1) - 1 = n
      OBVIOUS
    <3> QED BY <1>1, <3>1 DEF Selects
  <2>4. CASE n + 1 \notin wanted
    <3>1. wanted \cap (1..(n + 1)) = wanted \cap (1..n)
      BY <2>4
    <3> QED BY <2>1, <2>3, <2>4, <3>1
  <2>5. CASE n + 1 \in wanted
    <3>1. PICK m \in Nat : m = Len(f[n])
      BY <2>1
    <3>2. /\ f[n + 1] \in Seq(S) /\ DOMAIN f[n + 1] = 1..(m + 1)
          /\ f[n + 1][m + 1] = list[n + 1]
          /\ \A k \in 1..m : f[n + 1][k] = f[n][k]
      BY <2>1, <2>2, <2>3, <2>5, <3>1, AppendProperties
    <3>3. ASSUME NEW i \in wanted \cap (1..(n + 1))
          PROVE  \E k \in DOMAIN f[n + 1] : f[n + 1][k] = list[i]
      <4>1. CASE i = n + 1
        BY <3>2, <4>1
      <4>2. CASE i # n + 1
        <5>1. PICK k \in DOMAIN f[n] : f[n][k] = list[i]
          BY <2>1, <4>2
        <5>2. k \in 1..m
          BY <2>1, <3>1
        <5>3. k \in 1..(m + 1) /\ f[n + 1][k] = list[i]
          BY <3>2, <5>1, <5>2
        <5> QED BY <3>2, <5>3
      <4> QED BY <4>1, <4>2
    <3> QED BY <3>2, <3>3
  <2> QED BY <2>4, <2>5
<1> HIDE DEF Good
<1>4. Len(list) \in Good
  BY <1>2, <1>3, NatInd
<1>5. wanted \cap (1..Len(list)) = wanted
  OBVIOUS
<1> QED BY <1>1, <1>4, <1>5 DEF Good


-----------------------------------------------------------------------------
(* Sorting: the elements of the list, however they are compared.           *)

LEMMA InsertedIs ==
  ASSUME NEW S, NEW s \in Seq(S), NEW c \in S
  PROVE  Inserted(s, c) \in Seq(S) /\ Range(Inserted(s, c)) = Range(s) \cup {c}
<1> DEFINE earlier == {m \in DOMAIN s : s[m].sequence <= c.sequence}
           later == DOMAIN s \ earlier
           a == Picked(s, earlier)
           b == Picked(s, later)
<1>1. /\ earlier \in SUBSET (DOMAIN s) /\ later \in SUBSET (DOMAIN s)
      /\ DOMAIN s = earlier \cup later
  OBVIOUS
<1>2. Inserted(s, c) = Append(a, c) \o b
  BY DEF Inserted
<1> HIDE DEF earlier, later
<1>3. /\ a \in Seq(S) /\ b \in Seq(S)
      /\ SelectedFrom(s, earlier, a) /\ SelectedFrom(s, later, b)
      /\ \A i \in earlier : \E k \in DOMAIN a : a[k] = s[i]
      /\ \A i \in later : \E k \in DOMAIN b : b[k] = s[i]
  BY <1>1, PickedIs, PickedAll
<1> HIDE DEF a, b
<1>4. PICK k \in Nat, l \in Nat : k = Len(a) /\ l = Len(b)
  BY <1>3
<1> DEFINE x == Append(a, c)
           y == x \o b
<1>5. /\ x \in Seq(S) /\ Len(x) = k + 1 /\ x[k + 1] = c
      /\ \A i \in 1..k : x[i] = a[i]
  BY <1>3, <1>4, AppendProperties
<1> HIDE DEF x
<1>6. /\ y \in Seq(S) /\ Len(y) = (k + 1) + l
      /\ \A i \in 1..((k + 1) + l) : y[i] = IF i <= k + 1 THEN x[i] ELSE b[i - (k + 1)]
  <2>1. /\ y \in Seq(S) /\ Len(y) = Len(x) + Len(b)
        /\ \A i \in 1..(Len(x) + Len(b)) : y[i] = IF i <= Len(x) THEN x[i] ELSE b[i - Len(x)]
    BY <1>3, <1>5, ConcatProperties
  <2> HIDE DEF y
  <2> QED BY <1>4, <1>5, <2>1
<1> HIDE DEF y
<1>7. /\ DOMAIN y = 1..((k + 1) + l) /\ DOMAIN a = 1..k /\ DOMAIN b = 1..l
      /\ \A i \in 1..k : y[i] = a[i]
      /\ y[k + 1] = c
      /\ \A i \in 1..l : y[(k + 1) + i] = b[i]
  <2>1. DOMAIN y = 1..((k + 1) + l) /\ DOMAIN a = 1..k /\ DOMAIN b = 1..l
    BY <1>3, <1>4, <1>6
  <2>2. \A i \in 1..k : y[i] = a[i]
    BY <1>5, <1>6
  <2>3. y[k + 1] = c
    BY <1>5, <1>6
  <2>4. \A i \in 1..l : y[(k + 1) + i] = b[i]
    <3>1. \A i \in 1..l : /\ (k + 1) + i \in 1..((k + 1) + l)
                          /\ ~((k + 1) + i <= k + 1) /\ ((k + 1) + i) - (k + 1) = i
      OBVIOUS
    <3> QED BY <1>6, <3>1
  <2> QED BY <2>1, <2>2, <2>3, <2>4
<1>8. ASSUME NEW i \in DOMAIN y PROVE y[i] \in Range(s) \cup {c}
  <2>1. CASE i \in 1..k
    BY <1>3, <1>7, <2>1 DEF SelectedFrom, Range
  <2>2. CASE i = k + 1
    BY <1>7, <2>2
  <2>3. CASE i \in (k + 2)..((k + 1) + l)
    <3>1. i - (k + 1) \in 1..l /\ (k + 1) + (i - (k + 1)) = i
      BY <2>3
    <3>2. y[i] = b[i - (k + 1)]
      BY <1>7, <3>1
    <3> QED BY <1>3, <1>7, <3>1, <3>2 DEF SelectedFrom, Range
  <2> QED BY <1>7, <2>1, <2>2, <2>3
<1>9. c \in Range(y)
  <2>1. k + 1 \in DOMAIN y
    BY <1>7
  <2> QED BY <1>7, <2>1 DEF Range
<1>10. ASSUME NEW i \in DOMAIN s PROVE s[i] \in Range(y)
  <2>1. CASE i \in earlier
    <3>1. PICK m \in 1..k : a[m] = s[i]
      BY <1>3, <1>7, <2>1
    <3>2. m \in DOMAIN y /\ y[m] = s[i]
      BY <1>7, <3>1
    <3> QED BY <3>2 DEF Range
  <2>2. CASE i \in later
    <3>1. PICK m \in 1..l : b[m] = s[i]
      BY <1>3, <1>7, <2>2
    <3>2. (k + 1) + m \in DOMAIN y /\ y[(k + 1) + m] = s[i]
      BY <1>7, <3>1
    <3> QED BY <3>2 DEF Range
  <2> QED BY <1>1, <2>1, <2>2
<1>11. Range(y) = Range(s) \cup {c}
  BY <1>8, <1>9, <1>10 DEF Range
<1> QED BY <1>2, <1>6, <1>11 DEF y, x

(* f[i] is what has been made of the first i elements.                     *)
Sorts(calls, n, f) == f[0] = <<>> /\ \A i \in 1..n : f[i] = Inserted(f[i - 1], calls[i])
FirstOf(calls, n) == {calls[m] : m \in 1..n}

LEMMA SortsExist ==
  ASSUME NEW S, NEW calls \in Seq(S)
  PROVE  \E f \in [0..Len(calls) -> Seq(S)] : Sorts(calls, Len(calls), f)
<1> DEFINE Good == {n \in Nat : n <= Len(calls) =>
                      \E f \in [0..n -> Seq(S)] : Sorts(calls, n, f)}
<1>1. 0 \in Good
  <2> DEFINE f == [i \in 0..0 |-> <<>>]
  <2>1. f \in [0..0 -> Seq(S)] /\ Sorts(calls, 0, f)
    BY DEF Sorts
  <2> QED BY <2>1
<1>2. ASSUME NEW n \in Nat, n \in Good PROVE n + 1 \in Good
  <2> SUFFICES ASSUME n + 1 <= Len(calls)
               PROVE  \E f \in [0..(n + 1) -> Seq(S)] : Sorts(calls, n + 1, f)
    OBVIOUS
  <2>1. PICK f \in [0..n -> Seq(S)] : Sorts(calls, n, f)
    BY <1>2
  <2> DEFINE last == Inserted(f[n], calls[n + 1])
             g == [i \in 0..(n + 1) |-> IF i = n + 1 THEN last ELSE f[i]]
  <2>2. f[n] \in Seq(S) /\ calls[n + 1] \in S
    BY <2>1, ElementOfSeq
  <2>3. last \in Seq(S)
    BY <2>2, InsertedIs
  <2> HIDE DEF last
  <2>4. g \in [0..(n + 1) -> Seq(S)]
    BY <2>1, <2>3
  <2>5. g[0] = <<>>
    BY <2>1 DEF Sorts
  <2>6. ASSUME NEW i \in 1..(n + 1) PROVE g[i] = Inserted(g[i - 1], calls[i])
    <3>1. CASE i = n + 1
      <4>1. g[i] = last /\ g[i - 1] = f[n]
        BY <3>1
      <4> QED BY <3>1, <4>1 DEF last
    <3>2. CASE i # n + 1
      <4>1. i \in 1..n /\ g[i] = f[i] /\ g[i - 1] = f[i - 1]
        BY <3>2
      <4> QED BY <2>1, <4>1 DEF Sorts
    <3> QED BY <3>1, <3>2
  <2> HIDE DEF g
  <2>7. Sorts(calls, n + 1, g)
    BY <2>5, <2>6 DEF Sorts
  <2> QED BY <2>4, <2>7
<1> HIDE DEF Good
<1>3. Len(calls) \in Good
  BY <1>1, <1>2, NatInd
<1> QED BY <1>3 DEF Good

LEMMA SortsIs ==
  ASSUME NEW S, NEW calls \in Seq(S), NEW f, Sorts(calls, Len(calls), f)
  PROVE  f[Len(calls)] \in Seq(S) /\ Range(f[Len(calls)]) = Range(calls)
<1> DEFINE Good == {n \in Nat : n <= Len(calls) =>
                      f[n] \in Seq(S) /\ Range(f[n]) = FirstOf(calls, n)}
<1>1. 0 \in Good
  <2>1. f[0] = <<>> /\ <<>> \in Seq(S) /\ DOMAIN <<>> = {} /\ 1..0 = {}
    BY DEF Sorts
  <2> QED BY <2>1 DEF Range, FirstOf
<1>2. ASSUME NEW n \in Nat, n \in Good PROVE n + 1 \in Good
  <2> SUFFICES ASSUME n + 1 <= Len(calls)
               PROVE  f[n + 1] \in Seq(S) /\ Range(f[n + 1]) = FirstOf(calls, n + 1)
    OBVIOUS
  <2>1. f[n] \in Seq(S) /\ Range(f[n]) = FirstOf(calls, n) /\ calls[n + 1] \in S
    BY <1>2, ElementOfSeq
  <2>2. f[n + 1] = Inserted(f[n], calls[n + 1])
    <3>1. n + 1 \in 1..Len(calls) /\ (n + 1) - 1 = n
      OBVIOUS
    <3> QED BY <3>1 DEF Sorts
  <2>3. f[n + 1] \in Seq(S) /\ Range(f[n + 1]) = Range(f[n]) \cup {calls[n + 1]}
    BY <2>1, <2>2, InsertedIs
  <2>4. 1..(n + 1) = (1..n) \cup {n + 1}
    OBVIOUS
  <2>5. FirstOf(calls, n + 1) = FirstOf(calls, n) \cup {calls[n + 1]}
    BY <2>4 DEF FirstOf
  <2> QED BY <2>1, <2>3, <2>5
<1> HIDE DEF Good
<1>3. Len(calls) \in Good
  BY <1>1, <1>2, NatInd
<1>4. FirstOf(calls, Len(calls)) = Range(calls)
  BY DEF FirstOf, Range
<1> QED BY <1>3, <1>4 DEF Good

LEMMA SortedIs ==
  ASSUME NEW S, NEW calls \in Seq(S)
  PROVE  BySequence(calls) \in Seq(S) /\ Range(BySequence(calls)) = Range(calls)
<1> DEFINE Step(f, n) == IF n = 0 THEN <<>> ELSE Inserted(f[n - 1], calls[n])
           Def(f) == f = [n \in 0..Len(calls) |-> Step(f, n)]
           h == CHOOSE f : Def(f)
<1>1. PICK f \in [0..Len(calls) -> Seq(S)] : Sorts(calls, Len(calls), f)
  BY SortsExist
<1>2. ASSUME NEW n \in 0..Len(calls) PROVE f[n] = Step(f, n)
  <2>1. CASE n = 0
    BY <1>1, <2>1 DEF Sorts
  <2>2. CASE n # 0
    <3>1. n \in 1..Len(calls)
      BY <2>2
    <3> QED BY <1>1, <2>2, <3>1 DEF Sorts
  <2> QED BY <2>1, <2>2
<1>3. Def(f)
  <2> HIDE DEF Step
  <2> QED BY <1>2
<1>4. Def(h)
  <2> HIDE DEF Def
  <2> QED BY <1>3
<1>5. BySequence(calls) = h[Len(calls)]
  BY DEF BySequence
<1> HIDE DEF h
<1>6. \A n \in 0..Len(calls) : h[n] = Step(h, n)
  <2> HIDE DEF Step
  <2> QED BY <1>4
<1>7. Sorts(calls, Len(calls), h)
  BY <1>6 DEF Sorts
<1> QED BY <1>5, <1>7, SortsIs

-----------------------------------------------------------------------------
(* Begins: c[m] is where the m-th of n pieces of lengths z begins.         *)

Begins(z, n, c) == c[1] = 0 /\ \A m \in 1..n : c[m + 1] = c[m] + z[m]

LEMMA BeginsExist ==
  ASSUME NEW N \in Nat, NEW z, \A m \in 1..N : z[m] \in Nat
  PROVE  \E c \in [1..(N + 1) -> Nat] : Begins(z, N, c)
<1> DEFINE Good == {n \in Nat : n <= N => \E c \in [1..(n + 1) -> Nat] : Begins(z, n, c)}
<1>1. 0 \in Good
  <2> DEFINE c == [m \in 1..1 |-> 0]
  <2>1. c \in [1..1 -> Nat] /\ Begins(z, 0, c)
    BY DEF Begins
  <2> QED BY <2>1
<1>2. ASSUME NEW n \in Nat, n \in Good PROVE n + 1 \in Good
  <2> SUFFICES ASSUME n + 1 <= N
               PROVE  \E c \in [1..((n + 1) + 1) -> Nat] : Begins(z, n + 1, c)
    OBVIOUS
  <2>1. PICK c \in [1..(n + 1) -> Nat] : Begins(z, n, c)
    BY <1>2
  <2> DEFINE d == [m \in 1..((n + 1) + 1) |->
                     IF m = n + 2 THEN c[n + 1] + z[n + 1] ELSE c[m]]
  <2>2. c[n + 1] + z[n + 1] \in Nat
    BY <2>1
  <2>3. d \in [1..((n + 1) + 1) -> Nat] /\ d[1] = 0
    BY <2>1, <2>2 DEF Begins
  <2>4. ASSUME NEW m \in 1..(n + 1) PROVE d[m + 1] = d[m] + z[m]
    <3>1. CASE m = n + 1
      BY <3>1
    <3>2. CASE m \in 1..n
      <4>1. d[m + 1] = c[m + 1] /\ d[m] = c[m]
        BY <3>2
      <4> QED BY <2>1, <3>2, <4>1 DEF Begins
    <3> QED BY <3>1, <3>2
  <2> HIDE DEF d
  <2> QED BY <2>3, <2>4 DEF Begins
<1> HIDE DEF Good
<1>3. N \in Good
  BY <1>1, <1>2, NatInd
<1> QED BY <1>3 DEF Good

(* What begins later does not begin before.                                *)
LEMMA BeginsGrow ==
  ASSUME NEW N \in Nat, NEW z, \A m \in 1..N : z[m] \in Nat, NEW c, Begins(z, N, c)
  PROVE  /\ \A m \in 1..(N + 1) : c[m] \in Nat
         /\ \A m \in 1..N : c[m] + z[m] <= c[N + 1]
<1> DEFINE Good == {n \in Nat : n <= N =>
                      /\ \A m \in 1..(n + 1) : c[m] \in Nat
                      /\ \A m \in 1..n : c[m] + z[m] <= c[n + 1]}
<1>1. 0 \in Good
  BY DEF Begins
<1>2. ASSUME NEW n \in Nat, n \in Good PROVE n + 1 \in Good
  <2> SUFFICES ASSUME n + 1 <= N
               PROVE  /\ \A m \in 1..((n + 1) + 1) : c[m] \in Nat
                      /\ \A m \in 1..(n + 1) : c[m] + z[m] <= c[(n + 1) + 1]
    OBVIOUS
  <2>1. /\ \A m \in 1..(n + 1) : c[m] \in Nat
        /\ \A m \in 1..n : c[m] + z[m] <= c[n + 1]
    BY <1>2
  <2>2. c[(n + 1) + 1] = c[n + 1] + z[n + 1] /\ z[n + 1] \in Nat /\ c[n + 1] \in Nat
    BY <2>1 DEF Begins
  <2>3. \A m \in 1..N : z[m] \in Nat
    OBVIOUS
  <2>4. c[(n + 1) + 1] \in Nat
    BY <2>2
  <2>5. ASSUME NEW m \in 1..(n + 1) PROVE c[m] + z[m] <= c[(n + 1) + 1]
    <3>1. CASE m = n + 1
      BY <2>2, <3>1
    <3>2. CASE m \in 1..n
      <4>1. c[m] + z[m] <= c[n + 1] /\ c[m] \in Nat /\ z[m] \in Nat
        BY <2>1, <2>3, <3>2
      <4> QED BY <2>2, <2>4, <4>1
    <3> QED BY <3>1, <3>2
  <2>6. ASSUME NEW m \in 1..((n + 1) + 1) PROVE c[m] \in Nat
    <3>1. m = (n + 1) + 1 \/ m \in 1..(n + 1)
      OBVIOUS
    <3> QED BY <2>1, <2>4, <3>1
  <2> QED BY <2>5, <2>6
<1> HIDE DEF Good
<1>3. N \in Good
  BY <1>1, <1>2, NatInd
<1> QED BY <1>3 DEF Good

(* Where the pieces of a concatenation are in it.                          *)
Segments(s, c) ==
  \A m \in 1..Len(s) : \A i \in 1..Len(s[m]) : FlattenSeq(s)[c[m] + i] = s[m][i]

LEMMA FlattenSegments ==
  ASSUME NEW S, NEW s \in Seq(Seq(S)), NEW z, \A m \in 1..Len(s) : z[m] = Len(s[m]),
         NEW c, Begins(z, Len(s), c)
  PROVE  Len(FlattenSeq(s)) = c[Len(s) + 1] /\ Segments(s, c)
<1>1. PICK N \in Nat : N = Len(s)
  OBVIOUS
<1>2. \A m \in 1..N : s[m] \in Seq(S) /\ z[m] = Len(s[m]) /\ z[m] \in Nat
  BY <1>1, ElementOfSeq
<1>3. /\ \A m \in 1..(N + 1) : c[m] \in Nat
      /\ Begins(z, N, c)
  BY <1>1, <1>2, BeginsGrow
<1>4. CASE N = 0
  <2>1. s = <<>>
    BY <1>1, <1>4, EmptySeq
  <2>2. FlattenSeq(s) = <<>>
    BY <2>1, FlattenEmpty
  <2> QED BY <1>1, <1>3, <1>4, <2>2 DEF Begins, Segments
<1>5. CASE N # 0
  <2>1. PICK f \in [1..N -> Seq(S)] : Concatenates(s, N, f) /\ FlattenSeq(s) = f[N]
    BY <1>1, <1>5, FlattenIsConcatenation
  <2> DEFINE Placed(n) == /\ Len(f[n]) = c[n + 1]
                          /\ \A m \in 1..n : \A i \in 1..z[m] : f[n][c[m] + i] = s[m][i]
             Good == {n \in Nat : n + 1 <= N => Placed(n + 1)}
  <2>2. 0 \in Good
    <3>1. 1 \in 1..N
      BY <1>5
    <3>2. f[1] = s[1]
      BY <2>1, <3>1 DEF Concatenates
    <3>3. c[1] = 0 /\ c[1 + 1] = c[1] + z[1]
      BY <1>3, <3>1 DEF Begins
    <3>4. z[1] = Len(s[1]) /\ z[1] \in Nat
      BY <1>2, <3>1
    <3>5. Len(f[1]) = c[1 + 1] /\ \A i \in 1..z[1] : f[1][c[1] + i] = s[1][i]
      BY <3>2, <3>3, <3>4
    <3>6. Placed(0 + 1)
      BY <3>5
    <3> QED BY <3>6
  <2>3. ASSUME NEW n \in Nat, n \in Good PROVE n + 1 \in Good
    <3> SUFFICES ASSUME (n + 1) + 1 <= N PROVE Placed((n + 1) + 1)
      OBVIOUS
    <3>1. PICK k \in 1..N : k = n + 1 /\ k + 1 \in 1..N
      OBVIOUS
    <3>2. Placed(k)
      BY <2>3, <3>1
    <3>3. f[k + 1] = f[k] \o s[k + 1] /\ f[k] \in Seq(S) /\ s[k + 1] \in Seq(S)
      <4>1. (k + 1) - 1 = k /\ k + 1 # 1
        BY <3>1
      <4>2. f[k + 1] = f[(k + 1) - 1] \o s[k + 1]
        BY <2>1, <3>1, <4>1 DEF Concatenates
      <4> QED BY <1>2, <2>1, <3>1, <4>1, <4>2
    <3>4. /\ z[k + 1] = Len(s[k + 1]) /\ z[k + 1] \in Nat
          /\ c[k + 1] \in Nat /\ c[(k + 1) + 1] = c[k + 1] + z[k + 1]
      BY <1>2, <1>3, <3>1 DEF Begins
    <3>5. PICK a \in Seq(S), b \in Seq(S) : a = f[k] /\ b = s[k + 1]
      BY <3>3
    <3>6. Len(a) = c[k + 1] /\ Len(b) = z[k + 1] /\ f[k + 1] = a \o b
      BY <3>2, <3>3, <3>4, <3>5
    <3>0. PICK p \in Nat, q \in Nat : p = c[k + 1] /\ q = z[k + 1]
      BY <3>4
    <3>7. /\ Len(a \o b) = p + q
          /\ \A i \in 1..(p + q) : (a \o b)[i] = IF i <= p THEN a[i] ELSE b[i - p]
      <4>1. Len(a) = p /\ Len(b) = q
        BY <3>0, <3>6
      <4>2. /\ Len(a \o b) = Len(a) + Len(b)
            /\ \A i \in 1..(Len(a) + Len(b)) :
                 (a \o b)[i] = IF i <= Len(a) THEN a[i] ELSE b[i - Len(a)]
        BY ConcatProperties
      <4> QED BY <4>1, <4>2
    <3>8. ASSUME NEW m \in 1..(k + 1), NEW i \in 1..z[m]
          PROVE  f[k + 1][c[m] + i] = s[m][i]
      <4>1. CASE m = k + 1
        <5>1. i \in 1..q /\ c[m] = p
          BY <3>0, <4>1
        <5>2. p + i \in 1..(p + q) /\ ~(p + i <= p) /\ (p + i) - p = i
          BY <5>1
        <5> QED BY <3>5, <3>6, <3>7, <4>1, <5>1, <5>2
      <4>2. CASE m \in 1..k
        <5>1. c[m] \in Nat /\ z[m] \in Nat /\ c[m] + z[m] <= c[k + 1]
          <6>1. \A j \in 1..k : z[j] \in Nat
            BY <1>2, <3>1
          <6>2. Begins(z, k, c)
            BY <1>3, <3>1 DEF Begins
          <6>3. k \in Nat
            BY <3>1
          <6>4. /\ \A j \in 1..(k + 1) : c[j] \in Nat
                /\ \A j \in 1..k : c[j] + z[j] <= c[k + 1]
            BY <6>1, <6>2, <6>3, BeginsGrow
          <6>5. m \in 1..(k + 1)
            BY <4>2, <6>3
          <6> QED BY <4>2, <6>1, <6>4, <6>5
        <5>2. c[m] + i \in 1..(p + q) /\ c[m] + i <= p
          <6>1. PICK x \in Nat, y \in Nat : x = c[m] /\ y = z[m] /\ x + y <= p
            BY <3>0, <5>1
          <6>2. i \in Nat /\ 1 <= i /\ i <= y
            BY <6>1
          <6>3. x + i \in 1..(p + q) /\ x + i <= p
            BY <6>1, <6>2
          <6> QED BY <6>1, <6>3
        <5>3. f[k][c[m] + i] = s[m][i]
          BY <3>2, <4>2
        <5> QED BY <3>5, <3>6, <3>7, <5>2, <5>3
      <4> QED BY <3>1, <4>1, <4>2
    <3>9. Len(f[k + 1]) = c[(k + 1) + 1]
      BY <3>0, <3>4, <3>6, <3>7
    <3> QED BY <3>1, <3>8, <3>9
  <2> HIDE DEF Good
  <2>4. \A n \in Nat : n \in Good
    BY <2>2, <2>3, NatInd
  <2>5. N - 1 \in Good /\ (N - 1) + 1 = N
    BY <1>5, <2>4
  <2>6. Placed(N)
    BY <2>5 DEF Good
  <2>7. Len(FlattenSeq(s)) = c[N + 1]
    BY <2>1, <2>6
  <2>8. ASSUME NEW m \in 1..N, NEW i \in 1..Len(s[m])
        PROVE  FlattenSeq(s)[c[m] + i] = s[m][i]
    BY <1>2, <2>1, <2>6
  <2> QED BY <1>1, <2>7, <2>8 DEF Segments
<1> QED BY <1>4, <1>5

(* Pieces of one length follow each other at multiples of it.              *)
LEMMA FlattenEven ==
  ASSUME NEW S, NEW s \in Seq(Seq(S)), NEW w \in Nat, \A m \in 1..Len(s) : Len(s[m]) = w,
         NEW c \in [1..(Len(s) + 1) -> Nat], c[1] = 0,
         \A m \in 1..Len(s) : c[m + 1] = c[m] + w
  PROVE  /\ Len(FlattenSeq(s)) = c[Len(s) + 1]
         /\ \A m \in 1..Len(s) : SubSeq(FlattenSeq(s), c[m] + 1, c[m] + w) = s[m]
<1> DEFINE z == [m \in 1..Len(s) |-> w]
           flat == FlattenSeq(s)
<1>1. PICK N \in Nat : N = Len(s)
  OBVIOUS
<1>2. /\ \A m \in 1..N : z[m] = Len(s[m]) /\ z[m] = w /\ z[m] \in Nat
      /\ Begins(z, N, c)
  BY <1>1 DEF Begins
<1> HIDE DEF z
<1>3. Len(flat) = c[N + 1] /\ Segments(s, c)
  BY <1>1, <1>2, FlattenSegments
<1>4. \A m \in 1..N : c[m] + w <= c[N + 1]
  BY <1>2, BeginsGrow
<1>5. flat \in Seq(S)
  BY FlattenTyped
<1> HIDE DEF flat
<1>6. ASSUME NEW m \in 1..N PROVE SubSeq(flat, c[m] + 1, c[m] + w) = s[m]
  <2>1. PICK k \in Nat : k = c[m]
    BY <1>1, <1>2
  <2>2. s[m] \in Seq(S) /\ Len(s[m]) = w
    BY <1>1, ElementOfSeq
  <2>3. k + w <= Len(flat)
    BY <1>1, <1>3, <1>4, <2>1
  <2>4. \A i \in 1..w : flat[k + i] = s[m][i]
    BY <1>1, <1>3, <2>1, <2>2 DEF Segments, flat
  <2>5. \A i \in (k + 1)..(k + w) : flat[i] \in S
    <3>1. \A i \in (k + 1)..(k + w) : i \in 1..Len(flat)
      BY <1>5, <2>3
    <3> QED BY <1>5, <3>1, ElementOfSeq
  <2>6. /\ k + 1 \in Int /\ k + w \in Int
        /\ (IF k + 1 <= k + w THEN (k + w) - (k + 1) + 1 ELSE 0) = w
        /\ (k + w) - (k + 1) + 1 = w /\ \A i \in 1..w : (k + 1) + i - 1 = k + i
    OBVIOUS
  <2> DEFINE part == SubSeq(flat, k + 1, k + w)
  <2>7. /\ part \in Seq(S)
        /\ Len(part) = IF k + 1 <= k + w THEN (k + w) - (k + 1) + 1 ELSE 0
        /\ \A i \in 1..((k + w) - (k + 1) + 1) : part[i] = flat[(k + 1) + i - 1]
    BY <2>5, <2>6, SubSeqProperties
  <2>8. part \in Seq(S) /\ Len(part) = w /\ \A i \in 1..w : part[i] = flat[k + i]
    <3> HIDE DEF part
    <3> QED BY <2>6, <2>7
  <2> HIDE DEF part
  <2>9. \A i \in 1..w : part[i] = s[m][i]
    BY <2>4, <2>8
  <2>10. part = s[m]
    BY <2>2, <2>8, <2>9, SeqEqual
  <2> QED BY <2>1, <2>10 DEF part
<1> QED BY <1>1, <1>3, <1>6 DEF flat

(* The n-th piece of two, and of three, elements.                          *)
LEMMA FlattenPairs ==
  ASSUME NEW S, NEW s \in Seq(Seq(S)), \A m \in 1..Len(s) : Len(s[m]) = 2
  PROVE  /\ Len(FlattenSeq(s)) = 2 * Len(s)
         /\ \A m \in 1..Len(s) : SubSeq(FlattenSeq(s), 2 * m - 1, 2 * m) = s[m]
<1>1. PICK N \in Nat : N = Len(s)
  OBVIOUS
<1> DEFINE c == [m \in 1..(N + 1) |-> 2 * (m - 1)]
<1>2. /\ c \in [1..(N + 1) -> Nat] /\ c[1] = 0 /\ c[N + 1] = 2 * N
      /\ \A m \in 1..N : c[m + 1] = c[m] + 2 /\ c[m] + 1 = 2 * m - 1 /\ c[m] + 2 = 2 * m
  OBVIOUS
<1> HIDE DEF c
<1>3. /\ 2 \in Nat /\ c \in [1..(Len(s) + 1) -> Nat]
      /\ \A m \in 1..Len(s) : c[m + 1] = c[m] + 2
  BY <1>1, <1>2
<1>4. /\ Len(FlattenSeq(s)) = c[Len(s) + 1]
      /\ \A m \in 1..Len(s) : SubSeq(FlattenSeq(s), c[m] + 1, c[m] + 2) = s[m]
  BY <1>2, <1>3, FlattenEven
<1> QED BY <1>1, <1>2, <1>4

LEMMA FlattenTriples ==
  ASSUME NEW S, NEW s \in Seq(Seq(S)), \A m \in 1..Len(s) : Len(s[m]) = 3
  PROVE  /\ Len(FlattenSeq(s)) = 3 * Len(s)
         /\ \A m \in 1..Len(s) : SubSeq(FlattenSeq(s), 3 * m - 2, 3 * m) = s[m]
<1>1. PICK N \in Nat : N = Len(s)
  OBVIOUS
<1> DEFINE c == [m \in 1..(N + 1) |-> 3 * (m - 1)]
<1>2. /\ c \in [1..(N + 1) -> Nat] /\ c[1] = 0 /\ c[N + 1] = 3 * N
      /\ \A m \in 1..N : c[m + 1] = c[m] + 3 /\ c[m] + 1 = 3 * m - 2 /\ c[m] + 3 = 3 * m
  OBVIOUS
<1> HIDE DEF c
<1>3. /\ 3 \in Nat /\ c \in [1..(Len(s) + 1) -> Nat]
      /\ \A m \in 1..Len(s) : c[m + 1] = c[m] + 3
  BY <1>1, <1>2
<1>4. /\ Len(FlattenSeq(s)) = c[Len(s) + 1]
      /\ \A m \in 1..Len(s) : SubSeq(FlattenSeq(s), c[m] + 1, c[m] + 3) = s[m]
  BY <1>2, <1>3, FlattenEven
<1> QED BY <1>1, <1>2, <1>4
=============================================================================
