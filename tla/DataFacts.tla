------------------------------ MODULE DataFacts ------------------------------
(***************************************************************************)
(* Facts about naturals, finite sets of them and sequences that the proofs *)
(* about several components need.                                          *)
(***************************************************************************)
EXTENDS Integers, FiniteSets, Sequences, SequencesExt, FiniteSetTheorems,
        SequenceTheorems, WellFoundedInduction, TLAPS

(***************************************************************************)
(* Naturals.                                                               *)
(***************************************************************************)
\* A non-empty set of naturals has a least element.
LEMMA LeastExists ==
  ASSUME NEW S \in SUBSET Nat, S # {}
  PROVE  \E m \in S : \A x \in S : m <= x
<1>1. PICK m \in S : \A x \in S : ~ (<<x, m>> \in OpToRel(<, Nat))
  BY NatLessThanWellFounded, WFMin
<1>2. \A x \in S : ~ (x < m)
  BY <1>1 DEF OpToRel
<1> QED BY <1>2

\* A non-empty set of naturals with an upper bound has a greatest element.
LEMMA GreatestExists ==
  ASSUME NEW S \in SUBSET Nat, S # {}, NEW b \in Nat, \A x \in S : x <= b
  PROVE  \E m \in S : \A x \in S : m >= x
<1> DEFINE T == {b - x : x \in S}
<1>1. T \in SUBSET Nat /\ T # {}
  OBVIOUS
<1>2. PICK d \in T : \A e \in T : d <= e
  <2> HIDE DEF T
  <2> QED BY <1>1, LeastExists
<1>3. PICK m \in S : d = b - m
  BY <1>2
<1>4. ASSUME NEW x \in S PROVE m >= x
  <2>1. b - x \in T
    OBVIOUS
  <2> QED BY <2>1, <1>2, <1>3
<1> QED BY <1>4

\* Induction, told of a set of naturals instead of a predicate.
LEMMA SetInduction ==
  ASSUME NEW S, 0 \in S, \A n \in Nat : n \in S => n + 1 \in S
  PROVE  Nat \subseteq S
<1> DEFINE T == Nat \ S
<1> SUFFICES ASSUME T # {} PROVE FALSE
  OBVIOUS
<1>1. PICK m \in T : \A x \in T : m <= x
  <2>1. T \in SUBSET Nat
    OBVIOUS
  <2> HIDE DEF T
  <2> QED BY <2>1, LeastExists
<1>2. m # 0 /\ m - 1 \in Nat /\ m - 1 \notin T
  BY <1>1
<1>3. (m - 1) + 1 \in S
  BY <1>2
<1> QED BY <1>1, <1>3

(***************************************************************************)
(* Finite sets of naturals, counted from the least.                        *)
(***************************************************************************)
Below(S, i) == {j \in S : j < i}

\* A set of more than n naturals has one with exactly n below it.
LEMMA NthExists ==
  ASSUME NEW S \in SUBSET Nat, IsFiniteSet(S), NEW n \in Nat, n < Cardinality(S)
  PROVE  \E i \in S : Cardinality(Below(S, i)) = n
<1>1. Cardinality(S) \in Nat /\ \A x \in S : x \in Nat
  BY FS_CardinalityType
<1>2. ASSUME 0 < Cardinality(S)
      PROVE  \E i \in S : Cardinality(Below(S, i)) = 0
  <2>1. S # {}
    BY <1>2, FS_EmptySet
  <2>2. PICK i \in S : \A x \in S : i <= x
    BY <2>1, LeastExists
  <2>3. Below(S, i) = {}
    <3>1. \A x \in S : ~(x < i)
      BY <1>1, <2>2
    <3> QED BY <3>1 DEF Below
  <2> QED BY <2>3, FS_EmptySet
<1>3. ASSUME NEW k \in Nat, k + 1 < Cardinality(S),
             NEW i \in S, Cardinality(Below(S, i)) = k
      PROVE  \E m \in S : Cardinality(Below(S, m)) = k + 1
  <2>1. Cardinality(Below(S, i)) = k
    BY <1>3
  <2>2. /\ IsFiniteSet(Below(S, i)) /\ i \notin Below(S, i)
        /\ Below(S, i) \cup {i} \subseteq S
    BY FS_Subset DEF Below
  <2>3. /\ IsFiniteSet(Below(S, i) \cup {i})
        /\ Cardinality(Below(S, i) \cup {i}) = k + 1
    BY <2>1, <2>2, FS_AddElement
  <2>4. S \ (Below(S, i) \cup {i}) # {}
    <3>1. S # Below(S, i) \cup {i}
      BY <1>1, <1>3, <2>3
    <3> QED BY <2>2, <3>1
  <2>5. PICK m \in S \ (Below(S, i) \cup {i}) :
               \A x \in S \ (Below(S, i) \cup {i}) : m <= x
    BY <2>4, LeastExists
  <2>6. Below(S, m) = Below(S, i) \cup {i}
    <3>1. m \in Nat /\ i \in Nat /\ m > i
      BY <1>1, <2>5 DEF Below
    <3>2. \A x \in S : x < m <=> x < i \/ x = i
      BY <1>1, <2>5, <3>1 DEF Below
    <3> QED BY <3>2 DEF Below
  <2> QED BY <2>3, <2>5, <2>6
<1> DEFINE T == {k \in Nat : k < Cardinality(S) =>
                               \E i \in S : Cardinality(Below(S, i)) = k}
<1>4. 0 \in T
  BY <1>2
<1>5. ASSUME NEW k \in Nat, k \in T PROVE k + 1 \in T
  BY <1>1, <1>3, <1>5
<1> HIDE DEF T
<1>6. n \in T
  BY <1>4, <1>5, SetInduction
<1> QED BY <1>6 DEF T

(***************************************************************************)
(* Concatenations and prefixes.                                            *)
(***************************************************************************)
\* Both parts of a concatenation, each counted from its own start.
LEMMA ConcatPlaces ==
  ASSUME NEW A, NEW a \in Seq(A), NEW b \in Seq(A)
  PROVE  /\ a \o b \in Seq(A) /\ Len(a \o b) = Len(a) + Len(b)
         /\ \A k \in 1 .. Len(a) : (a \o b)[k] = a[k]
         /\ \A k \in 1 .. Len(b) : (a \o b)[Len(a) + k] = b[k]
<1>1. /\ a \o b \in Seq(A) /\ Len(a \o b) = Len(a) + Len(b)
      /\ \A k \in 1 .. Len(a) + Len(b) :
           (a \o b)[k] = IF k <= Len(a) THEN a[k] ELSE b[k - Len(a)]
  BY ConcatProperties
<1>2. Len(a) \in Nat /\ Len(b) \in Nat
  OBVIOUS
<1>3. \A k \in 1 .. Len(a) : k \in 1 .. Len(a) + Len(b) /\ k <= Len(a)
  BY <1>2
<1>4. \A k \in 1 .. Len(b) : /\ Len(a) + k \in 1 .. Len(a) + Len(b)
                             /\ ~(Len(a) + k <= Len(a)) /\ (Len(a) + k) - Len(a) = k
  BY <1>2
<1>5. \A k \in 1 .. Len(b) : (a \o b)[Len(a) + k] = b[k]
  BY <1>1, <1>4
<1> QED BY <1>1, <1>3, <1>5

\* ... and of one of three.
LEMMA ThreePlaces ==
  ASSUME NEW A, NEW a \in Seq(A), NEW b \in Seq(A), NEW c \in Seq(A)
  PROVE  /\ a \o b \o c \in Seq(A)
         /\ Len(a \o b \o c) = Len(a) + Len(b) + Len(c)
         /\ \A k \in 1 .. Len(a) : (a \o b \o c)[k] = a[k]
         /\ \A k \in 1 .. Len(b) : (a \o b \o c)[Len(a) + k] = b[k]
         /\ \A k \in 1 .. Len(c) : (a \o b \o c)[Len(a) + Len(b) + k] = c[k]
<1> DEFINE ab == a \o b
           abc == ab \o c
<1>1. /\ ab \in Seq(A) /\ Len(ab) = Len(a) + Len(b)
      /\ \A k \in 1 .. Len(a) : ab[k] = a[k]
      /\ \A k \in 1 .. Len(b) : ab[Len(a) + k] = b[k]
  BY ConcatPlaces
<1>2. ab \in Seq(A)
  BY <1>1
<1> HIDE DEF ab
<1>3. /\ abc \in Seq(A) /\ Len(abc) = Len(ab) + Len(c)
      /\ \A k \in 1 .. Len(ab) : abc[k] = ab[k]
      /\ \A k \in 1 .. Len(c) : abc[Len(ab) + k] = c[k]
  BY <1>2, ConcatPlaces
<1> HIDE DEF abc
<1>4. Len(a) \in Nat /\ Len(b) \in Nat
  OBVIOUS
<1>5. /\ \A k \in 1 .. Len(a) : abc[k] = a[k]
      /\ \A k \in 1 .. Len(b) : abc[Len(a) + k] = b[k]
      /\ \A k \in 1 .. Len(c) : abc[Len(a) + Len(b) + k] = c[k]
  BY <1>1, <1>3, <1>4
<1>6. Len(abc) = Len(a) + Len(b) + Len(c)
  BY <1>1, <1>3
<1> QED BY <1>3, <1>5, <1>6 DEF ab, abc

\* A prefix told element by element.
LEMMA PrefixByElements ==
  ASSUME NEW A, NEW s \in Seq(A), NEW t \in Seq(A)
  PROVE  IsPrefix(s, t) <=> /\ Len(s) <= Len(t)
                            /\ \A k \in 1 .. Len(s) : s[k] = t[k]
<1>1. Len(s) \in Nat /\ Len(t) \in Nat
  OBVIOUS
<1>2. SubSeq(s, 1, Len(s)) = [k \in 1 .. Len(s) |-> s[k]]
  BY <1>1, SubSeqProperties
<1> QED BY <1>1, <1>2 DEF IsPrefix

\* One more element of t, once s has been told.
LEMMA PrefixGrows ==
  ASSUME NEW A, NEW s \in Seq(A), NEW t \in Seq(A), Len(s) < Len(t),
         \A k \in 1 .. Len(s) : s[k] = t[k]
  PROVE  /\ IsStrictPrefix(s, t)
         /\ SubSeq(t, 1, Len(s) + 1) = Append(s, t[Len(s) + 1])
<1> DEFINE n == Len(s)
           a == Append(s, t[n + 1])
<1>1. n \in Nat /\ Len(t) \in Nat /\ n + 1 \in 1 .. Len(t) /\ t[n + 1] \in A
  OBVIOUS
<1>2. IsStrictPrefix(s, t)
  BY <1>1, PrefixByElements DEF IsStrictPrefix
<1>3. /\ a \in Seq(A) /\ Len(a) = n + 1
      /\ \A k \in 1 .. n : a[k] = s[k]
      /\ a[n + 1] = t[n + 1]
  BY <1>1, AppendProperties
<1>4. /\ SubSeq(t, 1, n + 1) \in Seq(A) /\ Len(SubSeq(t, 1, n + 1)) = n + 1
      /\ \A k \in 1 .. n + 1 : SubSeq(t, 1, n + 1)[k] = t[k]
  <2>1. \A k \in 1 .. n + 1 : t[k] \in A
    BY <1>1
  <2> HIDE DEF n
  <2>2. (n + 1) - 1 + 1 = n + 1 /\ 1 <= n + 1 /\ \A k \in 1 .. n + 1 : 1 + k - 1 = k
    BY <1>1
  <2> QED BY <1>1, <2>1, <2>2, SubSeqProperties
<1>5. \A k \in 1 .. n + 1 : SubSeq(t, 1, n + 1)[k] = a[k]
  <2> SUFFICES ASSUME NEW k \in 1 .. n + 1 PROVE SubSeq(t, 1, n + 1)[k] = a[k]
    OBVIOUS
  <2>1. k \in 1 .. n \/ k = n + 1
    BY <1>1
  <2> QED BY <1>3, <1>4, <2>1
<1>6. SubSeq(t, 1, n + 1) = a
  <2> HIDE DEF a, n
  <2> QED BY <1>3, <1>4, <1>5, SeqEqual
<1> QED BY <1>2, <1>6


\* ... and conversely, when what is told with one element more is a prefix.
LEMMA GrownPrefix ==
  ASSUME NEW A, NEW s \in Seq(A), NEW e \in A, NEW t \in Seq(A),
         IsPrefix(Append(s, e), t)
  PROVE  IsStrictPrefix(s, t) /\ Append(s, e) = SubSeq(t, 1, Len(s) + 1)
<1>1. Len(s) \in Nat /\ Len(t) \in Nat
  OBVIOUS
<1>2. /\ Append(s, e) \in Seq(A) /\ Len(Append(s, e)) = Len(s) + 1
      /\ \A k \in 1 .. Len(s) : Append(s, e)[k] = s[k]
      /\ Append(s, e)[Len(s) + 1] = e
  BY AppendProperties
<1>3. /\ Len(s) + 1 <= Len(t)
      /\ \A k \in 1 .. Len(s) + 1 : Append(s, e)[k] = t[k]
  <2> DEFINE a == Append(s, e)
  <2> HIDE DEF a
  <2>1. a \in Seq(A) /\ Len(a) = Len(s) + 1 /\ IsPrefix(a, t)
    BY <1>2 DEF a
  <2>2. Len(a) <= Len(t) /\ \A k \in 1 .. Len(a) : a[k] = t[k]
    BY <2>1, PrefixByElements
  <2> QED BY <2>1, <2>2 DEF a
<1>4. /\ Len(s) < Len(t) /\ \A k \in 1 .. Len(s) : s[k] = t[k]
      /\ e = t[Len(s) + 1]
  BY <1>1, <1>2, <1>3
<1> QED BY <1>4, PrefixGrows


(***************************************************************************)
(* Flattening.                                                             *)
(***************************************************************************)
\* The recursive definition of FlattenSeq, for the first n sequences.
Flattens(seqs, n, g) ==
  g = [i \in 1 .. n |-> IF i = 1 THEN seqs[i] ELSE g[i - 1] \o seqs[i]]

\* ... has a solution.
LEMMA FlattenDefined ==
  ASSUME NEW A, NEW seqs \in Seq(Seq(A))
  PROVE  \E g : Flattens(seqs, Len(seqs), g)
<1> DEFINE T == {n \in Nat : \E g : Flattens(seqs, n, g)}
<1>1. 0 \in T
  <2>1. Flattens(seqs, 0, [i \in 1 .. 0 |-> 0])
    BY DEF Flattens
  <2> QED BY <2>1
<1>2. ASSUME NEW n \in Nat, n \in T PROVE n + 1 \in T
  <2>1. PICK g : Flattens(seqs, n, g)
    BY <1>2
  <2> DEFINE last == IF n = 0 THEN seqs[1] ELSE g[n] \o seqs[n + 1]
             h == [i \in 1 .. n + 1 |-> IF i = n + 1 THEN last ELSE g[i]]
  <2>2. ASSUME NEW i \in 1 .. n + 1
        PROVE  h[i] = IF i = 1 THEN seqs[i] ELSE h[i - 1] \o seqs[i]
    <3>1. CASE i = n + 1
      <4>1. h[i] = last
        BY <3>1
      <4>2. n # 0 => h[n] = g[n]
        OBVIOUS
      <4> QED BY <3>1, <4>1, <4>2
    <3>2. CASE i # n + 1
      <4>1. i \in 1 .. n /\ h[i] = g[i]
        BY <3>2
      <4>2. i # 1 => i - 1 \in 1 .. n /\ h[i - 1] = g[i - 1]
        BY <4>1
      <4>3. g[i] = IF i = 1 THEN seqs[i] ELSE g[i - 1] \o seqs[i]
        BY <2>1, <4>1 DEF Flattens
      <4> QED BY <4>1, <4>2, <4>3
    <3> QED BY <3>1, <3>2
  <2>3. Flattens(seqs, n + 1, h)
    <3>1. h = [i \in 1 .. n + 1 |-> h[i]]
      OBVIOUS
    <3> HIDE DEF h
    <3>2. [i \in 1 .. n + 1 |-> h[i]]
            = [i \in 1 .. n + 1 |-> IF i = 1 THEN seqs[i] ELSE h[i - 1] \o seqs[i]]
      BY <2>2, Zenon
    <3> QED BY <3>1, <3>2, Zenon DEF Flattens
  <2> HIDE DEF h
  <2> QED BY <2>3
<1> HIDE DEF T
<1>3. Len(seqs) \in T
  BY <1>1, <1>2, SetInduction
<1> QED BY <1>3 DEF T

LEMMA FlattenUnfolds ==
  ASSUME NEW A, NEW seqs \in Seq(Seq(A))
  PROVE  \E g : /\ Flattens(seqs, Len(seqs), g)
                /\ FlattenSeq(seqs) = IF Len(seqs) = 0 THEN <<>> ELSE g[Len(seqs)]
<1> DEFINE F == CHOOSE g : Flattens(seqs, Len(seqs), g)
<1>1. FlattenSeq(seqs) = IF Len(seqs) = 0 THEN seqs ELSE F[Len(seqs)]
  BY DEF FlattenSeq, Flattens
<1>2. Flattens(seqs, Len(seqs), F)
  BY FlattenDefined
<1>3. Len(seqs) = 0 => seqs = <<>>
  OBVIOUS
<1> HIDE DEF F
<1> QED BY <1>1, <1>2, <1>3


\* Where each of the sequences starts: at[i] elements come before the next.
Offsets(seqs, at) ==
  /\ at \in [0 .. Len(seqs) -> Nat]
  /\ at[0] = 0
  /\ \A i \in 1 .. Len(seqs) : at[i] = at[i - 1] + Len(seqs[i])

LEMMA OffsetsGrow ==
  ASSUME NEW A, NEW seqs \in Seq(Seq(A)), NEW at, Offsets(seqs, at)
  PROVE  \A i, l \in 0 .. Len(seqs) : i <= l => at[i] <= at[l]
<1> DEFINE T == {l \in Nat : l <= Len(seqs) =>
                               \A i \in 0 .. Len(seqs) : i <= l => at[i] <= at[l]}
<1>1. Len(seqs) \in Nat /\ \A i \in 1 .. Len(seqs) : Len(seqs[i]) \in Nat
  OBVIOUS
<1>2. 0 \in T
  BY DEF Offsets
<1>3. ASSUME NEW n \in Nat, n \in T PROVE n + 1 \in T
  <2> SUFFICES ASSUME n + 1 <= Len(seqs), NEW i \in 0 .. Len(seqs), i <= n + 1
               PROVE  at[i] <= at[n + 1]
    OBVIOUS
  <2>1. /\ n \in 0 .. Len(seqs) /\ n + 1 \in 1 .. Len(seqs) /\ n + 1 \in 0 .. Len(seqs)
        /\ (n + 1) - 1 = n
    BY <1>1
  <2>2. at[n + 1] = at[n] + Len(seqs[n + 1]) /\ at[i] \in Nat /\ at[n] \in Nat
    BY <2>1 DEF Offsets
  <2>3. Len(seqs[n + 1]) \in Nat
    BY <1>1, <2>1
  <2>4. i = n + 1 \/ i <= n
    BY <2>1
  <2>5. i <= n => at[i] <= at[n]
    BY <1>1, <1>3, <2>1
  <2> QED BY <2>2, <2>3, <2>4, <2>5
<1>4. Nat \subseteq T
  <2> HIDE DEF T
  <2> QED BY <1>2, <1>3, SetInduction
<1> QED BY <1>1, <1>4

\* Every place in the flattened sequence is a place in one of the sequences.
Covers(seqs, at) ==
  \A k \in 1 .. at[Len(seqs)] :
    \E i \in 1 .. Len(seqs) : \E j \in 1 .. Len(seqs[i]) : k = at[i - 1] + j

LEMMA OffsetsCover ==
  ASSUME NEW A, NEW seqs \in Seq(Seq(A)), NEW at, Offsets(seqs, at)
  PROVE  Covers(seqs, at)
<1> SUFFICES ASSUME NEW k \in 1 .. at[Len(seqs)]
             PROVE  \E i \in 1 .. Len(seqs) : \E j \in 1 .. Len(seqs[i]) :
                      k = at[i - 1] + j
  BY DEF Covers
<1> DEFINE S == {i \in 0 .. Len(seqs) : k <= at[i]}
<1>1. Len(seqs) \in Nat /\ at \in [0 .. Len(seqs) -> Nat] /\ at[0] = 0 /\ k \in Nat /\ k > 0
  BY DEF Offsets
<1>2. S # {} /\ S \in SUBSET Nat
  BY <1>1
<1>3. PICK i \in S : \A l \in S : i <= l
  <2> HIDE DEF S
  <2> QED BY <1>2, LeastExists
<1>4. i # 0 /\ i \in 1 .. Len(seqs) /\ i - 1 \in 0 .. Len(seqs) /\ i - 1 \notin S
  BY <1>1, <1>3
<1>5. k <= at[i] /\ ~(k <= at[i - 1])
  BY <1>3, <1>4
<1>6. at[i] = at[i - 1] + Len(seqs[i]) /\ at[i] \in Nat /\ at[i - 1] \in Nat
  BY <1>1, <1>4 DEF Offsets
<1>7. Len(seqs[i]) \in Nat
  BY <1>4
<1>8. k - at[i - 1] \in 1 .. Len(seqs[i]) /\ k = at[i - 1] + (k - at[i - 1])
  BY <1>1, <1>5, <1>6, <1>7
<1> QED BY <1>4, <1>8

LEMMA FlattenPlaces ==
  ASSUME NEW A, NEW seqs \in Seq(Seq(A))
  PROVE  /\ FlattenSeq(seqs) \in Seq(A)
         /\ \E at : /\ Offsets(seqs, at)
                    /\ Len(FlattenSeq(seqs)) = at[Len(seqs)]
                    /\ \A i \in 1 .. Len(seqs) : \A j \in 1 .. Len(seqs[i]) :
                         FlattenSeq(seqs)[at[i - 1] + j] = seqs[i][j]
<1>1. Len(seqs) \in Nat
  OBVIOUS
<1>2. PICK g : /\ Flattens(seqs, Len(seqs), g)
               /\ FlattenSeq(seqs) = IF Len(seqs) = 0 THEN <<>> ELSE g[Len(seqs)]
  BY FlattenUnfolds
<1>3. \A i \in 1 .. Len(seqs) : g[i] = IF i = 1 THEN seqs[i] ELSE g[i - 1] \o seqs[i]
  BY <1>2 DEF Flattens
<1> DEFINE at == [i \in 0 .. Len(seqs) |-> IF i = 0 THEN 0 ELSE Len(g[i])]
           Placed(m) == /\ g[m] \in Seq(A)
                        /\ at[m] = at[m - 1] + Len(seqs[m])
                        /\ \A i \in 1 .. m : \A j \in 1 .. Len(seqs[i]) :
                             /\ at[i - 1] + j \in 1 .. Len(g[m])
                             /\ g[m][at[i - 1] + j] = seqs[i][j]
<1>4. ASSUME NEW n \in Nat, n + 1 <= Len(seqs), n # 0 => Placed(n)
      PROVE  Placed(n + 1)
  <2> DEFINE new == seqs[n + 1]
  <2>1. n + 1 \in 1 .. Len(seqs) /\ new \in Seq(A) /\ Len(new) \in Nat
    BY <1>1, <1>4
  <2>2. CASE n = 0
    <3>1. g[1] = seqs[1] /\ at[1] = Len(g[1]) /\ at[0] = 0
      BY <1>1, <1>3, <2>1, <2>2
    <3>2. \A i \in 1 .. 1 : i = 1 /\ i - 1 = 0
      OBVIOUS
    <3> HIDE DEF at
    <3> QED BY <2>1, <2>2, <3>1, <3>2
  <2>3. CASE n # 0
    <3>1. g[n + 1] = g[n] \o new /\ g[n] \in Seq(A) /\ Len(g[n]) \in Nat
      <4>1. g[n] \in Seq(A)
        BY <1>4, <2>3
      <4>2. n + 1 # 1 /\ (n + 1) - 1 = n
        BY <2>3
      <4>3. g[n + 1] = IF n + 1 = 1 THEN seqs[n + 1] ELSE g[(n + 1) - 1] \o seqs[n + 1]
        BY <1>3, <2>1
      <4>4. g[n + 1] = g[n] \o new
        BY <4>2, <4>3, Zenon
      <4>5. Len(g[n]) \in Nat
        BY <4>1
      <4> QED BY <4>1, <4>4, <4>5
    <3>2. at[n] = Len(g[n]) /\ at[n + 1] = Len(g[n + 1])
      BY <1>1, <1>4, <2>1, <2>3
    <3> DEFINE old == g[n]
    <3>3. /\ \A i \in 1 .. n : \A j \in 1 .. Len(seqs[i]) :
                /\ at[i - 1] + j \in 1 .. Len(old)
                /\ old[at[i - 1] + j] = seqs[i][j]
      BY <1>4, <2>3
    <3> HIDE DEF at, new, old
    <3>4. /\ old \o new \in Seq(A) /\ Len(old \o new) = Len(old) + Len(new)
          /\ \A k \in 1 .. Len(old) + Len(new) :
               (old \o new)[k] = IF k <= Len(old) THEN old[k] ELSE new[k - Len(old)]
      BY <2>1, <3>1, ConcatProperties DEF old
    <3>5. Len(old) \in Nat
      BY <3>1 DEF old
    <3>6. \A i \in 1 .. n : \A j \in 1 .. Len(seqs[i]) :
            /\ at[i - 1] + j \in 1 .. Len(old) + Len(new)
            /\ (old \o new)[at[i - 1] + j] = seqs[i][j]
      BY <2>1, <3>3, <3>4, <3>5
    <3>7. \A j \in 1 .. Len(new) :
            /\ Len(old) + j \in 1 .. Len(old) + Len(new)
            /\ ~(Len(old) + j <= Len(old)) /\ (Len(old) + j) - Len(old) = j
      BY <2>1, <3>5
    <3>8. \A j \in 1 .. Len(new) : (old \o new)[Len(old) + j] = new[j]
      BY <3>4, <3>7
    <3>9. \A i \in 1 .. n + 1 : i \in 1 .. n \/ i = n + 1
      OBVIOUS
    <3>10. (n + 1) - 1 = n
      OBVIOUS
    <3>11. \A i \in 1 .. n + 1 : \A j \in 1 .. Len(seqs[i]) :
             /\ at[i - 1] + j \in 1 .. Len(old) + Len(new)
             /\ (old \o new)[at[i - 1] + j] = seqs[i][j]
      <4> SUFFICES ASSUME NEW i \in 1 .. n + 1, NEW j \in 1 .. Len(seqs[i])
                   PROVE  /\ at[i - 1] + j \in 1 .. Len(old) + Len(new)
                          /\ (old \o new)[at[i - 1] + j] = seqs[i][j]
        OBVIOUS
      <4>1. CASE i \in 1 .. n
        BY <3>6, <4>1
      <4>2. CASE i = n + 1
        <5>1. at[i - 1] = Len(old) /\ seqs[i] = new /\ j \in 1 .. Len(new)
          BY <3>2, <3>10, <4>2 DEF old, new
        <5> QED BY <3>7, <3>8, <5>1
      <4> QED BY <3>9, <4>1, <4>2
    <3>12. g[n + 1] = old \o new /\ at[n + 1] = Len(old) + Len(new) /\ at[n] = Len(old)
      BY <3>1, <3>2, <3>4 DEF old
    <3> QED BY <3>4, <3>10, <3>11, <3>12 DEF new
  <2> QED BY <2>2, <2>3
<1> DEFINE T == {n \in Nat : \A m \in 1 .. n : m <= Len(seqs) => Placed(m)}
<1> HIDE DEF Placed
<1>5. 0 \in T
  OBVIOUS
<1>6. ASSUME NEW n \in Nat, n \in T PROVE n + 1 \in T
  <2> SUFFICES ASSUME NEW m \in 1 .. n + 1, m <= Len(seqs) PROVE Placed(m)
    OBVIOUS
  <2>1. m \in 1 .. n \/ m = n + 1
    OBVIOUS
  <2>2. n # 0 => n \in 1 .. n
    OBVIOUS
  <2>3. m = n + 1 => n <= Len(seqs)
    BY <1>1
  <2> QED BY <1>4, <1>6, <2>1, <2>2, <2>3
<1>7. \A m \in 1 .. Len(seqs) : Placed(m)
  <2>1. Len(seqs) \in T
    <3> HIDE DEF T
    <3> QED BY <1>1, <1>5, <1>6, SetInduction
  <2> QED BY <1>1, <2>1
<1>8. Offsets(seqs, at)
  <2>1. \A i \in 1 .. Len(seqs) : g[i] \in Seq(A) /\ at[i] = at[i - 1] + Len(seqs[i])
    BY <1>7 DEF Placed
  <2>2. at \in [0 .. Len(seqs) -> Nat] /\ at[0] = 0
    BY <1>1, <2>1
  <2> HIDE DEF at
  <2> QED BY <2>1, <2>2 DEF Offsets
<1>9. CASE Len(seqs) = 0
  <2>1. FlattenSeq(seqs) = <<>> /\ at[0] = 0
    BY <1>2, <1>9
  <2> HIDE DEF at
  <2> QED BY <1>8, <1>9, <2>1
<1>10. CASE Len(seqs) # 0
  <2>1. FlattenSeq(seqs) = g[Len(seqs)] /\ at[Len(seqs)] = Len(g[Len(seqs)])
        /\ Placed(Len(seqs))
    BY <1>1, <1>2, <1>7, <1>10
  <2>2. /\ g[Len(seqs)] \in Seq(A)
        /\ \A i \in 1 .. Len(seqs) : \A j \in 1 .. Len(seqs[i]) :
             g[Len(seqs)][at[i - 1] + j] = seqs[i][j]
    BY <2>1 DEF Placed
  <2> HIDE DEF at
  <2> QED BY <1>8, <2>1, <2>2
<1> QED BY <1>9, <1>10

\* A set is not larger than one it can be mapped into without loss.
LEMMA CountInto ==
  ASSUME NEW S, NEW T, IsFiniteSet(S), IsFiniteSet(T), NEW f \in [S -> T],
         \A x, y \in S : f[x] = f[y] => x = y
  PROVE  Cardinality(S) <= Cardinality(T)
<1>1. ~(Cardinality(T) < Cardinality(S))
  BY FS_PigeonHole
<1>2. Cardinality(S) \in Nat /\ Cardinality(T) \in Nat
  BY FS_CardinalityType
<1> QED BY <1>1, <1>2

LEMMA IntervalCount ==
  ASSUME NEW n \in Nat
  PROVE  IsFiniteSet(1 .. n) /\ Cardinality(1 .. n) = n
<1>1. 1 \in Int /\ n \in Int
  OBVIOUS
<1>2. /\ IsFiniteSet(1 .. n)
      /\ Cardinality(1 .. n) = IF 1 > n THEN 0 ELSE n - 1 + 1
  BY <1>1, FS_Interval
<1>3. (IF 1 > n THEN 0 ELSE n - 1 + 1) = n
  OBVIOUS
<1> QED BY <1>2, <1>3

\* A flattened sequence has the elements of its parts.
FlattenedElements(seqs, f) ==
  /\ \A k \in 1 .. Len(f) :
       \E i \in 1 .. Len(seqs) : \E j \in 1 .. Len(seqs[i]) : f[k] = seqs[i][j]
  /\ \A i \in 1 .. Len(seqs) : \A j \in 1 .. Len(seqs[i]) :
       \E k \in 1 .. Len(f) : f[k] = seqs[i][j]

LEMMA FlattenElements ==
  ASSUME NEW A, NEW seqs \in Seq(Seq(A))
  PROVE  FlattenSeq(seqs) \in Seq(A) /\ FlattenedElements(seqs, FlattenSeq(seqs))
<1> DEFINE f == FlattenSeq(seqs)
<1>1. f \in Seq(A)
  BY FlattenPlaces
<1>2. PICK at : /\ Offsets(seqs, at) /\ Len(f) = at[Len(seqs)]
                /\ \A i \in 1 .. Len(seqs) : \A j \in 1 .. Len(seqs[i]) :
                     f[at[i - 1] + j] = seqs[i][j]
  <2>1. \E at : /\ Offsets(seqs, at)
                /\ Len(FlattenSeq(seqs)) = at[Len(seqs)]
                /\ \A i \in 1 .. Len(seqs) : \A j \in 1 .. Len(seqs[i]) :
                     FlattenSeq(seqs)[at[i - 1] + j] = seqs[i][j]
    BY FlattenPlaces
  <2> QED BY <2>1
<1> HIDE DEF f
<1>3. Covers(seqs, at)
  BY <1>2, OffsetsCover
<1>4. \A i, l \in 0 .. Len(seqs) : i <= l => at[i] <= at[l]
  BY <1>2, OffsetsGrow
<1>5. ASSUME NEW k \in 1 .. Len(f)
      PROVE  \E i \in 1 .. Len(seqs) : \E j \in 1 .. Len(seqs[i]) : f[k] = seqs[i][j]
  <2>1. PICK i \in 1 .. Len(seqs) : \E j \in 1 .. Len(seqs[i]) : k = at[i - 1] + j
    BY <1>2, <1>3 DEF Covers
  <2>2. PICK j \in 1 .. Len(seqs[i]) : k = at[i - 1] + j
    BY <2>1
  <2>3. f[k] = seqs[i][j]
    BY <1>2, <2>2
  <2> QED BY <2>3
<1>6. ASSUME NEW i \in 1 .. Len(seqs), NEW j \in 1 .. Len(seqs[i])
      PROVE  at[i - 1] + j \in 1 .. Len(f)
  <2> DEFINE m == Len(seqs)
             n == Len(seqs[i])
             a == at[i - 1]
             b == at[i]
             c == at[m]
  <2>1. m \in Nat /\ i \in 1 .. m /\ n \in Nat /\ j \in 1 .. n
    OBVIOUS
  <2>2. i - 1 \in 0 .. m /\ i \in 0 .. m /\ m \in 0 .. m /\ i <= m
    BY <2>1
  <2>3. a \in Nat /\ b = a + n /\ b <= c /\ c = Len(f) /\ c \in Nat
    BY <1>2, <1>4, <2>2 DEF Offsets
  <2> HIDE DEF m, n, a, b, c
  <2>4. a + j \in 1 .. c
    BY <2>1, <2>3
  <2> QED BY <2>3, <2>4 DEF a
<1>7. FlattenedElements(seqs, f)
  BY <1>2, <1>5, <1>6 DEF FlattenedElements
<1> QED BY <1>1, <1>7 DEF f

\* ... and is sorted if they are and follow one another.
LEMMA FlattenSorted ==
  ASSUME NEW A, NEW R, NEW seqs \in Seq(Seq(A)),
         \A i \in 1 .. Len(seqs) : \A j, l \in 1 .. Len(seqs[i]) :
           j < l => <<seqs[i][j], seqs[i][l]>> \in R,
         \A i, h \in 1 .. Len(seqs) : i < h =>
           \A j \in 1 .. Len(seqs[i]) : \A l \in 1 .. Len(seqs[h]) :
             <<seqs[i][j], seqs[h][l]>> \in R
  PROVE  \A k, l \in 1 .. Len(FlattenSeq(seqs)) :
           k < l => <<FlattenSeq(seqs)[k], FlattenSeq(seqs)[l]>> \in R
<1> DEFINE f == FlattenSeq(seqs)
<1>1. PICK at : /\ Offsets(seqs, at) /\ Len(f) = at[Len(seqs)]
                /\ \A i \in 1 .. Len(seqs) : \A j \in 1 .. Len(seqs[i]) :
                     f[at[i - 1] + j] = seqs[i][j]
  BY FlattenPlaces
<1> HIDE DEF f
<1>2. Covers(seqs, at)
  BY <1>1, OffsetsCover
<1>3. \A i, l \in 0 .. Len(seqs) : i <= l => at[i] <= at[l]
  BY <1>1, OffsetsGrow
<1>4. ASSUME NEW k \in 1 .. Len(f), NEW l \in 1 .. Len(f), k < l
      PROVE  <<f[k], f[l]>> \in R
  <2>1. PICK i \in 1 .. Len(seqs) : \E j \in 1 .. Len(seqs[i]) : k = at[i - 1] + j
    BY <1>1, <1>2 DEF Covers
  <2>2. PICK h \in 1 .. Len(seqs) : \E g \in 1 .. Len(seqs[h]) : l = at[h - 1] + g
    BY <1>1, <1>2 DEF Covers
  <2>1a. PICK j \in 1 .. Len(seqs[i]) : k = at[i - 1] + j
    BY <2>1
  <2>2a. PICK g \in 1 .. Len(seqs[h]) : l = at[h - 1] + g
    BY <2>2
  <2>3. f[k] = seqs[i][j] /\ f[l] = seqs[h][g]
    BY <1>1, <2>1a, <2>2a
  <2>4. CASE i < h
    BY <2>3, <2>4
  <2>5. CASE i = h
    <3> DEFINE a == at[i - 1]
    <3>1. a \in Nat /\ k = a + j /\ l = a + g
      <4>1. i - 1 \in 0 .. Len(seqs)
        OBVIOUS
      <4> QED BY <1>1, <2>1a, <2>2a, <2>5, <4>1 DEF Offsets
    <3>2. j \in Nat /\ g \in Nat
      OBVIOUS
    <3> HIDE DEF a
    <3>3. j < g
      BY <1>4, <3>1, <3>2
    <3> QED BY <2>3, <2>5, <3>3
  <2>6. CASE h < i
    <3> DEFINE a == at[i - 1]
               b == at[h - 1]
               c == at[h]
               n == Len(seqs[h])
    <3>1. h <= i - 1 /\ h \in 0 .. Len(seqs) /\ i - 1 \in 0 .. Len(seqs)
          /\ h - 1 \in 0 .. Len(seqs) /\ n \in Nat /\ g \in 1 .. n /\ j \in Nat \ {0}
      BY <2>6
    <3>2. /\ a \in Nat /\ b \in Nat /\ c \in Nat /\ c <= a /\ c = b + n
          /\ k = a + j /\ l = b + g
      BY <1>1, <1>3, <2>1a, <2>2a, <3>1 DEF Offsets
    <3> HIDE DEF a, b, c, n
    <3>3. FALSE
      BY <1>4, <3>1, <3>2
    <3> QED BY <3>3
  <2> QED BY <2>4, <2>5, <2>6
<1> QED BY <1>4 DEF f

==============================================================================
