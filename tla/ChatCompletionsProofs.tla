------------------------ MODULE ChatCompletionsProofs ------------------------
(***************************************************************************)
(* Chat completions, for every value of the constants: what a client that  *)
(* pages through the stored ones is told, and what one process of the live *)
(* backend can spend, holds and keeps.                                     *)
(***************************************************************************)
EXTENDS ChatCompletions, LiveBackend, DataFacts, FiniteSetTheorems,
        SequenceTheorems, TLAPS

(***************************************************************************)
(* Pages.  The argument is about one relation: an entry comes before       *)
(* another in the list.  Requests of others preserve it between entries    *)
(* they do not touch, and a page continues it from the cursor.             *)
(*                                                                         *)
(* Sequences as orders.                                                    *)
(***************************************************************************)
Comes(s, a, b) == \E k, l \in DOMAIN s : k < l /\ s[k] = a /\ s[l] = b

Once(s) == \A k, l \in DOMAIN s : s[k] = s[l] => k = l

\* The elements of t are in the order they have in s.
Sorted(t, s) == \A k, l \in DOMAIN t : k < l => Comes(s, t[k], t[l])

LEMMA ComesIsAnOrder ==
  ASSUME NEW A, NEW s \in Seq(A), Once(s)
  PROVE  /\ \A a, b : Comes(s, a, b) => a # b /\ ~Comes(s, b, a)
         /\ \A a, b, c : Comes(s, a, b) /\ Comes(s, b, c) => Comes(s, a, c)
         /\ \A a, b \in ToSet(s) : a = b \/ Comes(s, a, b) \/ Comes(s, b, a)
<1>1. Len(s) \in Nat /\ DOMAIN s = 1 .. Len(s)
  OBVIOUS
<1>2. ASSUME NEW a, NEW b, Comes(s, a, b)
      PROVE  a # b /\ ~Comes(s, b, a)
  BY <1>1, <1>2 DEF Comes, Once
<1>3. ASSUME NEW a, NEW b, NEW c, Comes(s, a, b), Comes(s, b, c)
      PROVE  Comes(s, a, c)
  BY <1>1, <1>3 DEF Comes, Once
<1>4. ASSUME NEW a \in ToSet(s), NEW b \in ToSet(s)
      PROVE  a = b \/ Comes(s, a, b) \/ Comes(s, b, a)
  BY <1>1 DEF Comes, ToSet
<1> QED BY <1>2, <1>3, <1>4

LEMMA ReverseReverses ==
  ASSUME NEW A, NEW s \in Seq(A)
  PROVE  /\ Reverse(s) \in Seq(A) /\ ToSet(Reverse(s)) = ToSet(s)
         /\ Once(s) => Once(Reverse(s))
         /\ \A a, b : Comes(Reverse(s), a, b) <=> Comes(s, b, a)
<1> DEFINE n == Len(s)
           r == Reverse(s)
<1>1. n \in Nat /\ DOMAIN s = 1 .. n
  OBVIOUS
<1>2. /\ r \in Seq(A) /\ DOMAIN r = 1 .. n
      /\ \A k \in 1 .. n : r[k] = s[(n - k) + 1]
  BY <1>1 DEF Reverse
<1>3. /\ \A k \in 1 .. n : (n - k) + 1 \in 1 .. n /\ (n - ((n - k) + 1)) + 1 = k
      /\ \A k, l \in 1 .. n : k < l <=> (n - l) + 1 < (n - k) + 1
  BY <1>1
<1> HIDE DEF n, r
<1>4. \A k \in 1 .. n : s[k] = r[(n - k) + 1]
  BY <1>2, <1>3
<1>5. ToSet(r) = ToSet(s)
  <2>1. \A k \in 1 .. n : r[k] \in ToSet(s)
    BY <1>1, <1>2, <1>3 DEF ToSet
  <2>2. \A k \in 1 .. n : s[k] \in ToSet(r)
    BY <1>2, <1>3, <1>4 DEF ToSet
  <2>3. ToSet(r) = {r[k] : k \in 1 .. n} /\ ToSet(s) = {s[k] : k \in 1 .. n}
    BY <1>1, <1>2 DEF ToSet
  <2> QED BY <2>1, <2>2, <2>3
<1>6. ASSUME Once(s) PROVE Once(r)
  <2>1. SUFFICES ASSUME NEW k \in 1 .. n, NEW l \in 1 .. n, r[k] = r[l] PROVE k = l
    BY <1>2 DEF Once
  <2>2. s[(n - k) + 1] = s[(n - l) + 1]
    BY <1>2, <2>1
  <2>3. (n - k) + 1 = (n - l) + 1
    BY <1>1, <1>3, <1>6, <2>2 DEF Once
  <2> QED BY <1>1, <2>3
<1>7. ASSUME NEW a, NEW b, Comes(r, a, b) PROVE Comes(s, b, a)
  <2>1. PICK k \in 1 .. n, l \in 1 .. n : k < l /\ r[k] = a /\ r[l] = b
    BY <1>2, <1>7 DEF Comes
  <2> QED BY <1>1, <1>2, <1>3, <2>1 DEF Comes
<1>8. ASSUME NEW a, NEW b, Comes(s, b, a) PROVE Comes(r, a, b)
  <2>1. PICK k \in 1 .. n, l \in 1 .. n : k < l /\ s[k] = b /\ s[l] = a
    BY <1>1, <1>8 DEF Comes
  <2> QED BY <1>2, <1>3, <1>4, <2>1 DEF Comes
<1> QED BY <1>2, <1>5, <1>6, <1>7, <1>8 DEF r

\* Appending something new, and removing one element.
LEMMA AppendOrders ==
  ASSUME NEW A, NEW s \in Seq(A), Once(s), NEW e \in A, e \notin ToSet(s)
  PROVE  /\ Append(s, e) \in Seq(A) /\ Once(Append(s, e))
         /\ ToSet(Append(s, e)) = ToSet(s) \cup {e}
         /\ \A a, b : Comes(s, a, b) => Comes(Append(s, e), a, b)
<1> DEFINE n == Len(s)
           t == Append(s, e)
<1>1. n \in Nat /\ DOMAIN s = 1 .. n
  OBVIOUS
<1>2. /\ t \in Seq(A) /\ DOMAIN t = 1 .. n + 1
      /\ \A k \in 1 .. n : t[k] = s[k]
      /\ t[n + 1] = e
  OBVIOUS
<1>3. \A k \in 1 .. n : s[k] # e
  BY <1>1 DEF ToSet
<1>4. \A k \in 1 .. n + 1 : k \in 1 .. n \/ k = n + 1
  BY <1>1
<1>5. \A k \in 1 .. n : k \in 1 .. n + 1
  BY <1>1
<1>6. n + 1 \in 1 .. n + 1
  BY <1>1
<1> HIDE DEF n, t
<1>7. Once(t)
  BY <1>1, <1>2, <1>3, <1>4 DEF Once
<1>8. ToSet(t) = ToSet(s) \cup {e}
  BY <1>1, <1>2, <1>4, <1>5, <1>6 DEF ToSet
<1>9. \A a, b : Comes(s, a, b) => Comes(t, a, b)
  BY <1>1, <1>2, <1>5 DEF Comes
<1> QED BY <1>2, <1>7, <1>8, <1>9 DEF t

LEMMA RemoveOrders ==
  ASSUME NEW A, NEW s \in Seq(A), Once(s), NEW i \in DOMAIN s
  PROVE  /\ RemoveAt(s, i) \in Seq(A) /\ Once(RemoveAt(s, i))
         /\ ToSet(RemoveAt(s, i)) = ToSet(s) \ {s[i]}
         /\ \A a, b : a # s[i] /\ b # s[i] /\ Comes(s, a, b)
                        => Comes(RemoveAt(s, i), a, b)
<1> DEFINE n == Len(s)
           t == RemoveAt(s, i)
           at(k) == IF k < i THEN k ELSE k + 1
           to(k) == IF k < i THEN k ELSE k - 1
<1>1. n \in Nat /\ DOMAIN s = 1 .. n /\ i \in 1 .. n
  OBVIOUS
<1>2. /\ t \in Seq(A) /\ DOMAIN t = 1 .. n - 1
      /\ \A k \in 1 .. n - 1 : t[k] = s[at(k)]
  <2> DEFINE u == SubSeq(s, 1, i - 1)
             v == SubSeq(s, i + 1, n)
  <2>1. /\ u \in Seq(A) /\ Len(u) = i - 1
        /\ \A k \in 1 .. i - 1 : u[k] = s[k]
    BY <1>1, SubSeqProperties
  <2>2. /\ v \in Seq(A) /\ Len(v) = n - i
        /\ \A k \in 1 .. n - i : v[k] = s[i + k]
    BY <1>1, SubSeqProperties
  <2>3. t = u \o v
    BY DEF RemoveAt
  <2> HIDE DEF u, v, t
  <2>4. /\ t \in Seq(A) /\ Len(t) = n - 1
        /\ \A k \in 1 .. i - 1 : t[k] = u[k]
        /\ \A k \in 1 .. n - i : t[(i - 1) + k] = v[k]
    <3>1. /\ u \o v \in Seq(A) /\ Len(u \o v) = Len(u) + Len(v)
          /\ \A k \in 1 .. Len(u) : (u \o v)[k] = u[k]
          /\ \A k \in 1 .. Len(v) : (u \o v)[Len(u) + k] = v[k]
      <4>1. u \in Seq(A) /\ v \in Seq(A)
        BY <2>1, <2>2
      <4> QED BY <4>1, ConcatPlaces
    <3>2. (i - 1) + (n - i) = n - 1
      BY <1>1
    <3> QED BY <2>1, <2>2, <2>3, <3>1, <3>2
  <2>5. ASSUME NEW k \in 1 .. n - 1 PROVE t[k] = s[at(k)]
    <3>1. CASE k < i
      BY <1>1, <2>1, <2>4, <3>1
    <3>2. CASE ~(k < i)
      <4>1. k - (i - 1) \in 1 .. n - i /\ (i - 1) + (k - (i - 1)) = k
            /\ i + (k - (i - 1)) = k + 1
        BY <1>1, <3>2
      <4>2. t[(i - 1) + (k - (i - 1))] = v[k - (i - 1)]
        BY <2>4, <4>1
      <4>3. v[k - (i - 1)] = s[i + (k - (i - 1))]
        BY <2>2, <4>1
      <4> QED BY <3>2, <4>1, <4>2, <4>3
    <3> QED BY <3>1, <3>2
  <2> QED BY <2>4, <2>5
<1>3. /\ \A k \in 1 .. n - 1 : at(k) \in 1 .. n /\ at(k) # i /\ to(at(k)) = k
      /\ \A k \in 1 .. n : k # i => to(k) \in 1 .. n - 1 /\ at(to(k)) = k
      /\ \A k, l \in 1 .. n : k # i /\ l # i /\ k < l => to(k) < to(l)
  BY <1>1
<1> HIDE DEF n, t, at, to
<1>4. \A k \in 1 .. n : s[k] = s[i] => k = i
  BY <1>1 DEF Once
<1>5. Once(t)
  BY <1>1, <1>2, <1>3 DEF Once
<1>6. ToSet(t) = ToSet(s) \ {s[i]}
  BY <1>1, <1>2, <1>3, <1>4 DEF ToSet
<1>7. ASSUME NEW a, NEW b, a # s[i], b # s[i], Comes(s, a, b)
      PROVE  Comes(t, a, b)
  <2>1. PICK k \in 1 .. n, l \in 1 .. n : k < l /\ s[k] = a /\ s[l] = b
    BY <1>1, <1>7 DEF Comes
  <2>2. k # i /\ l # i
    BY <1>7, <2>1
  <2>3. /\ to(k) \in 1 .. n - 1 /\ to(l) \in 1 .. n - 1 /\ to(k) < to(l)
        /\ at(to(k)) = k /\ at(to(l)) = l
    BY <1>3, <2>1, <2>2
  <2> QED BY <1>2, <2>1, <2>3 DEF Comes
<1> QED BY <1>2, <1>5, <1>6, <1>7 DEF t

-----------------------------------------------------------------------------
(***************************************************************************)
(* What the list is made of.                                               *)
(***************************************************************************)
\* The recursive function of Retained, over the first n entries.
Retains(entries, set, n, f) ==
  f = [m \in 0 .. n |->
         IF m = 0 THEN <<>>
         ELSE IF entries[m] \in set THEN Append(f[m - 1], entries[m])
         ELSE f[m - 1]]

LEMMA RetainedDefined ==
  ASSUME NEW A, NEW s \in Seq(A), NEW set
  PROVE  \E f : Retains(s, set, Len(s), f)
<1> DEFINE T == {n \in Nat : \E f : Retains(s, set, n, f)}
<1>1. 0 \in T
  <2>1. Retains(s, set, 0, [m \in 0 .. 0 |-> <<>>])
    BY DEF Retains
  <2> QED BY <2>1
<1>2. ASSUME NEW n \in Nat, n \in T PROVE n + 1 \in T
  <2>1. PICK f : Retains(s, set, n, f)
    BY <1>2
  <2> DEFINE Next1(g, m) == IF m = 0 THEN <<>>
                            ELSE IF s[m] \in set THEN Append(g[m - 1], s[m])
                            ELSE g[m - 1]
             h == [m \in 0 .. n + 1 |-> IF m = n + 1 THEN Next1(f, m) ELSE f[m]]
  <2>2. ASSUME NEW m \in 0 .. n + 1
        PROVE  h[m] = Next1(h, m)
    <3>1. m # 0 => m - 1 \in 0 .. n /\ h[m - 1] = f[m - 1]
      OBVIOUS
    <3>2. Next1(h, m) = Next1(f, m)
      BY <3>1
    <3>3. CASE m = n + 1
      BY <3>2, <3>3
    <3>4. CASE m # n + 1
      <4>1. m \in 0 .. n /\ h[m] = f[m]
        BY <3>4
      <4>2. f[m] = Next1(f, m)
        BY <2>1, <4>1 DEF Retains
      <4> QED BY <3>2, <4>1, <4>2
    <3> QED BY <3>3, <3>4
  <2>3. Retains(s, set, n + 1, h)
    <3>1. h = [m \in 0 .. n + 1 |-> h[m]]
      OBVIOUS
    <3> HIDE DEF h
    <3>2. [m \in 0 .. n + 1 |-> h[m]] = [m \in 0 .. n + 1 |-> Next1(h, m)]
      BY <2>2, Zenon
    <3> QED BY <3>1, <3>2, Zenon DEF Retains
  <2> HIDE DEF h
  <2> QED BY <2>3
<1> HIDE DEF T
<1>3. Len(s) \in T
  BY <1>1, <1>2, SetInduction
<1> QED BY <1>3 DEF T

\* The first n entries, r being what is retained of them.
RetainedOf(s, set, n, r) ==
  /\ \A k \in DOMAIN r : \E l \in 1 .. n : r[k] = s[l] /\ s[l] \in set
  /\ \A l \in 1 .. n : s[l] \in set => s[l] \in ToSet(r)
  /\ \A k, l \in DOMAIN r : k < l =>
       \E i, j \in 1 .. n : i < j /\ s[i] = r[k] /\ s[j] = r[l]

LEMMA RetainedGrows ==
  ASSUME NEW A, NEW s \in Seq(A), NEW set, NEW n \in Nat, n + 1 <= Len(s),
         NEW r \in Seq(A), RetainedOf(s, set, n, r), s[n + 1] \in set
  PROVE  RetainedOf(s, set, n + 1, Append(r, s[n + 1]))
<1> DEFINE m == Len(r)
           t == Append(r, s[n + 1])
<1>1. /\ m \in Nat /\ DOMAIN r = 1 .. m
      /\ n + 1 \in 1 .. n + 1 /\ m + 1 \in 1 .. m + 1
      /\ \A l \in 1 .. n : l \in 1 .. n + 1 /\ l < n + 1
      /\ \A l \in 1 .. n + 1 : l \in 1 .. n \/ l = n + 1
      /\ \A l \in 1 .. m + 1 : l \in 1 .. m \/ l = m + 1
      /\ \A l \in 1 .. m : l \in 1 .. m + 1
  OBVIOUS
<1>2. n + 1 \in DOMAIN s /\ s[n + 1] \in A
  OBVIOUS
<1>3. /\ DOMAIN t = 1 .. m + 1 /\ t[m + 1] = s[n + 1]
      /\ \A k \in 1 .. m : t[k] = r[k]
  BY <1>2
<1> HIDE DEF m, t
<1>4. ASSUME NEW k \in DOMAIN t
      PROVE  \E l \in 1 .. n + 1 : t[k] = s[l] /\ s[l] \in set
  <2>1. CASE k = m + 1
    BY <1>1, <1>3, <2>1
  <2>2. CASE k \in 1 .. m
    BY <1>1, <1>3, <2>2 DEF RetainedOf
  <2> QED BY <1>1, <1>3, <2>1, <2>2
<1>5. ASSUME NEW l \in 1 .. n + 1, s[l] \in set
      PROVE  s[l] \in ToSet(t)
  <2>1. CASE l = n + 1
    BY <1>1, <1>3, <2>1 DEF ToSet
  <2>2. CASE l \in 1 .. n
    <3>1. PICK k \in 1 .. m : r[k] = s[l]
      BY <1>1, <1>5, <2>2 DEF RetainedOf, ToSet
    <3> QED BY <1>1, <1>3, <3>1 DEF ToSet
  <2> QED BY <1>1, <2>1, <2>2
<1>6. ASSUME NEW k \in DOMAIN t, NEW l \in DOMAIN t, k < l
      PROVE  \E i, j \in 1 .. n + 1 : i < j /\ s[i] = t[k] /\ s[j] = t[l]
  <2>0. (l \in 1 .. m \/ l = m + 1) /\ k \in 1 .. m + 1
    BY <1>1, <1>3
  <2>1. k \in 1 .. m
    BY <1>1, <1>6, <2>0
  <2>2. CASE l = m + 1
    <3>1. PICK i \in 1 .. n : r[k] = s[i]
      BY <1>1, <2>1 DEF RetainedOf
    <3> QED BY <1>1, <1>3, <2>1, <2>2, <3>1
  <2>3. CASE l \in 1 .. m
    <3>1. PICK i \in 1 .. n, j \in 1 .. n : i < j /\ s[i] = r[k] /\ s[j] = r[l]
      BY <1>1, <1>6, <2>1, <2>3 DEF RetainedOf
    <3> QED BY <1>1, <1>3, <2>1, <2>3, <3>1
  <2> QED BY <2>0, <2>2, <2>3
<1>7. RetainedOf(s, set, n + 1, t)
  BY <1>4, <1>5, <1>6 DEF RetainedOf
<1> QED BY <1>7 DEF t

\* Retained keeps the entries of the set, all of them and in their order.
LEMMA RetainedKeeps ==
  ASSUME NEW A, NEW s \in Seq(A), NEW set
  PROVE  /\ Retained(s, set) \in Seq(A)
         /\ ToSet(Retained(s, set)) = ToSet(s) \cap set
         /\ Sorted(Retained(s, set), s)
<1> DEFINE F == CHOOSE f : Retains(s, set, Len(s), f)
           T == {n \in Nat : n <= Len(s) =>
                   F[n] \in Seq(A) /\ RetainedOf(s, set, n, F[n])}
<1>1. Retained(s, set) = F[Len(s)]
  BY DEF Retained, Retains
<1>2. Retains(s, set, Len(s), F)
  BY RetainedDefined
<1> HIDE DEF F
<1>3. Len(s) \in Nat /\ DOMAIN s = 1 .. Len(s)
  OBVIOUS
<1>4. /\ F[0] = <<>>
      /\ \A n \in Nat : n + 1 <= Len(s) =>
           F[n + 1] = IF s[n + 1] \in set THEN Append(F[n], s[n + 1]) ELSE F[n]
  <2>1. 0 \in 0 .. Len(s)
    BY <1>3
  <2>2. \A n \in Nat : n + 1 <= Len(s) =>
          n + 1 \in 0 .. Len(s) /\ n + 1 # 0 /\ (n + 1) - 1 = n
    BY <1>3
  <2>3. \A m \in 0 .. Len(s) : F[m] = IF m = 0 THEN <<>>
                                      ELSE IF s[m] \in set THEN Append(F[m - 1], s[m])
                                      ELSE F[m - 1]
    BY <1>2 DEF Retains
  <2> QED BY <2>1, <2>2, <2>3
<1>5. 0 \in T
  <2>1. <<>> \in Seq(A) /\ RetainedOf(s, set, 0, <<>>)
    BY DEF RetainedOf
  <2> QED BY <1>4, <2>1
<1>6. ASSUME NEW n \in Nat, n \in T PROVE n + 1 \in T
  <2>1. SUFFICES ASSUME n + 1 <= Len(s)
                 PROVE  F[n + 1] \in Seq(A) /\ RetainedOf(s, set, n + 1, F[n + 1])
    OBVIOUS
  <2>2. F[n] \in Seq(A) /\ RetainedOf(s, set, n, F[n])
    BY <1>3, <1>6, <2>1
  <2>3. s[n + 1] \in A
    BY <1>3, <2>1
  <2>4. CASE s[n + 1] \in set
    <3>1. RetainedOf(s, set, n + 1, Append(F[n], s[n + 1]))
      <4> DEFINE r == F[n]
      <4>1. r \in Seq(A) /\ RetainedOf(s, set, n, r)
        BY <2>2
      <4> HIDE DEF r
      <4>2. RetainedOf(s, set, n + 1, Append(r, s[n + 1]))
        BY <2>1, <2>4, <4>1, RetainedGrows
      <4> QED BY <4>2 DEF r
    <3>2. F[n + 1] = Append(F[n], s[n + 1])
      BY <1>4, <2>1, <2>4
    <3>3. Append(F[n], s[n + 1]) \in Seq(A)
      BY <2>2, <2>3
    <3> QED BY <3>1, <3>2, <3>3
  <2>5. CASE s[n + 1] \notin set
    <3>1. \A l \in 1 .. n + 1 : l \in 1 .. n \/ l = n + 1
      OBVIOUS
    <3>2. \A l \in 1 .. n : l \in 1 .. n + 1
      OBVIOUS
    <3>3. F[n + 1] = F[n]
      BY <1>4, <2>1, <2>5
    <3> QED BY <2>2, <2>5, <3>1, <3>2, <3>3 DEF RetainedOf
  <2> QED BY <2>4, <2>5
<1> DEFINE r == F[Len(s)]
<1>7. r \in Seq(A) /\ RetainedOf(s, set, Len(s), r)
  <2> HIDE DEF T, r
  <2>1. Len(s) \in T
    BY <1>3, <1>5, <1>6, SetInduction
  <2> USE DEF T, r
  <2> QED BY <1>3, <2>1
<1> HIDE DEF r
<1>8. ToSet(r) = ToSet(s) \cap set
  <2>1. ASSUME NEW x \in ToSet(r) PROVE x \in ToSet(s) /\ x \in set
    <3>1. PICK k \in DOMAIN r : r[k] = x
      BY DEF ToSet
    <3>2. PICK l \in 1 .. Len(s) : r[k] = s[l] /\ s[l] \in set
      BY <1>7, <3>1 DEF RetainedOf
    <3> QED BY <1>3, <3>1, <3>2 DEF ToSet
  <2>2. ASSUME NEW x \in ToSet(s), x \in set PROVE x \in ToSet(r)
    <3>1. PICK l \in 1 .. Len(s) : s[l] = x
      BY <1>3 DEF ToSet
    <3> QED BY <1>7, <2>2, <3>1 DEF RetainedOf
  <2> QED BY <2>1, <2>2
<1>9. Sorted(r, s)
  <2>1. SUFFICES ASSUME NEW k \in DOMAIN r, NEW l \in DOMAIN r, k < l
                 PROVE  Comes(s, r[k], r[l])
    BY DEF Sorted
  <2>2. PICK i \in 1 .. Len(s), j \in 1 .. Len(s) : i < j /\ s[i] = r[k] /\ s[j] = r[l]
    BY <1>7, <2>1 DEF RetainedOf
  <2> QED BY <1>3, <2>2 DEF Comes
<1> QED BY <1>1, <1>7, <1>8, <1>9 DEF r

-----------------------------------------------------------------------------
(***************************************************************************)
(* The list and its pages, in one state.                                   *)
(***************************************************************************)
StoreOK ==
  /\ order \in Seq(Ids) /\ Once(order)
  /\ DOMAIN completions = ToSet(order)

\* a is listed before b.
Before(a, b, direction) ==
  IF direction = "asc" THEN Comes(order, a, b) ELSE Comes(order, b, a)

LEMMA BeforeIsAnOrder ==
  ASSUME StoreOK, NEW direction
  PROVE  /\ \A a, b : Before(a, b, direction) => a # b /\ ~Before(b, a, direction)
         /\ \A a, b, c : Before(a, b, direction) /\ Before(b, c, direction)
                           => Before(a, c, direction)
<1>1. /\ \A a, b : Comes(order, a, b) => a # b /\ ~Comes(order, b, a)
      /\ \A a, b, c : Comes(order, a, b) /\ Comes(order, b, c) => Comes(order, a, c)
  BY ComesIsAnOrder DEF StoreOK
<1> QED BY <1>1 DEF Before

\* Before is what Precedes says by positions.
LEMMA BeforePrecedes ==
  ASSUME StoreOK, NEW direction, NEW a, NEW b, Before(a, b, direction)
  PROVE  Precedes(a, b, direction)
<1>1. Len(order) \in Nat /\ DOMAIN order = 1 .. Len(order)
  BY DEF StoreOK
<1>2. ASSUME NEW k \in DOMAIN order PROVE Position(order[k]) = k
  <2>1. order[Position(order[k])] = order[k] /\ Position(order[k]) \in DOMAIN order
    BY DEF Position
  <2> QED BY <2>1 DEF StoreOK, Once
<1>3. \A c, d : Comes(order, c, d) => Position(c) < Position(d)
  BY <1>2 DEF Comes
<1> QED BY <1>3 DEF Before, Precedes

LEMMA ListedFacts ==
  ASSUME StoreOK, NEW direction, NEW filter
  PROVE  /\ Listed(direction, filter) \in Seq(Ids)
         /\ ToSet(Listed(direction, filter)) = Passing(filter)
         /\ \A k, l \in DOMAIN Listed(direction, filter) : k < l =>
              Before(Listed(direction, filter)[k], Listed(direction, filter)[l], direction)
<1> DEFINE d == Directed(direction)
           list == Listed(direction, filter)
<1>1. /\ d \in Seq(Ids) /\ ToSet(d) = ToSet(order)
      /\ \A a, b : Comes(d, a, b) <=> Before(a, b, direction)
  <2>1. /\ Reverse(order) \in Seq(Ids) /\ ToSet(Reverse(order)) = ToSet(order)
        /\ \A a, b : Comes(Reverse(order), a, b) <=> Comes(order, b, a)
    BY ReverseReverses DEF StoreOK
  <2> QED BY <2>1 DEF Directed, Before, StoreOK
<1> HIDE DEF d
<1>2. /\ Retained(d, Passing(filter)) \in Seq(Ids)
      /\ ToSet(Retained(d, Passing(filter))) = ToSet(d) \cap Passing(filter)
      /\ Sorted(Retained(d, Passing(filter)), d)
  BY <1>1, RetainedKeeps
<1>3. list = Retained(d, Passing(filter))
  BY DEF Listed, d
<1> HIDE DEF list
<1>4. Passing(filter) \subseteq ToSet(order)
  BY DEF Passing
<1>5. list \in Seq(Ids) /\ ToSet(list) = Passing(filter)
  BY <1>1, <1>2, <1>3, <1>4
<1>6. \A k, l \in DOMAIN list : k < l => Before(list[k], list[l], direction)
  BY <1>1, <1>2, <1>3 DEF Sorted
<1> QED BY <1>5, <1>6 DEF list

\* What is in a sequence behind its n-th element.
Beyond(s, n) == SubSeq(s, n + 1, Len(s))

\* What ReadPage gives a pager with this cursor, and whether there is more.
PageOf(query, after) ==
  LET fetched == List(query.direction, query.filter, after, query.limit + 1)
  IN IF Len(fetched) > query.limit THEN SubSeq(fetched, 1, query.limit) ELSE fetched

MoreThan(query, after) ==
  Len(List(query.direction, query.filter, after, query.limit + 1)) > query.limit

\* A page is in order, starts behind the cursor if that is listed, and leaves
\* out only what comes behind its end.
PageFollows(query, after, page, more) ==
  /\ page \in Seq(Passing(query.filter))
  /\ \A k, l \in DOMAIN page : k < l => Before(page[k], page[l], query.direction)
  /\ after \in Passing(query.filter) =>
       \A k \in DOMAIN page : Before(after, page[k], query.direction)
  /\ \A e \in Passing(query.filter) :
       after \notin Passing(query.filter) \/ Before(after, e, query.direction) =>
         \/ e \in ToSet(page)
         \/ more /\ \A k \in DOMAIN page : Before(page[k], e, query.direction)

LEMMA PagesFollow ==
  ASSUME StoreOK, NEW query \in Queries,
         NEW after
  PROVE  PageFollows(query, after, PageOf(query, after), MoreThan(query, after))
<1> DEFINE direction == query.direction
           limit == query.limit
           passing == Passing(query.filter)
           list == Listed(direction, query.filter)
           rest == AfterCursor(list, after)
           page == PageOf(query, after)
           more == MoreThan(query, after)
<1>1. limit \in Nat
  BY RequestAssumption
<1>2. /\ list \in Seq(Ids) /\ ToSet(list) = Passing(query.filter)
      /\ \A k, l \in DOMAIN list : k < l => Before(list[k], list[l], direction)
  BY ListedFacts
<1>3. /\ \A a, b : Before(a, b, direction) => a # b /\ ~Before(b, a, direction)
  BY BeforeIsAnOrder
<1>4. Len(list) \in Nat /\ DOMAIN list = 1 .. Len(list)
  BY <1>2
\* The rest starts behind some place of the list.
<1>5. PICK n \in 0 .. Len(list) :
        /\ rest = Beyond(list, n)
        /\ after \notin passing => n = 0
        /\ after \in passing => n # 0 /\ list[n] = after
  <2> HIDE DEF list
  <2> DEFINE at == {k \in DOMAIN list : list[k] = after}
  <2>1. CASE after \notin passing
    <3>1. at = {}
      BY <1>2, <2>1 DEF ToSet
    <3>2. rest = list
      BY <3>1 DEF AfterCursor
    <3>3. Beyond(list, 0) = list
      BY <1>2, <1>4 DEF Beyond
    <3> QED BY <1>4, <2>1, <3>2, <3>3
  <2>2. CASE after \in passing
    <3>1. at # {}
      BY <1>2, <2>2 DEF ToSet
    <3>2. PICK n \in at : n = CHOOSE k \in at : TRUE
      BY <3>1
    <3>3. rest = Beyond(list, n)
      BY <3>1, <3>2 DEF AfterCursor, Beyond
    <3>4. n \in 1 .. Len(list) /\ list[n] = after
      BY <1>4, <3>2
    <3> HIDE DEF rest, at
    <3>5. n \in 0 .. Len(list) /\ n # 0
      BY <1>4, <3>4
    <3> QED BY <2>2, <3>3, <3>4, <3>5
  <2> QED BY <2>1, <2>2
<1> DEFINE size == Len(list) - n
<1>6. /\ size \in Nat /\ Len(rest) = size /\ rest \in Seq(Ids)
      /\ \A k \in 1 .. size : n + k \in 1 .. Len(list) /\ rest[k] = list[n + k]
  <2> HIDE DEF list, rest
  <2>1. /\ n + 1 \in 1 .. Len(list) + 1 /\ (Len(list) - (n + 1)) + 1 = size
        /\ \A k \in 1 .. size : n + k \in 1 .. Len(list) /\ ((n + 1) + k) - 1 = n + k
    BY <1>4
  <2>2. rest = SubSeq(list, n + 1, Len(list))
    BY <1>5 DEF Beyond
  <2>3. /\ rest \in Seq(Ids)
        /\ Len(rest) = IF n + 1 <= Len(list) THEN (Len(list) - (n + 1)) + 1 ELSE 0
        /\ \A k \in 1 .. (Len(list) - (n + 1)) + 1 : rest[k] = list[((n + 1) + k) - 1]
    BY <1>2, <1>4, <2>1, <2>2, SubSeqProperties
  <2>4. size \in Nat /\ Len(rest) = size
    <3> DEFINE ll == Len(list)
               lr == Len(rest)
    <3>1. ll \in Nat /\ n \in 0 .. ll
      BY <1>4
    <3>2. lr = IF n + 1 <= ll THEN (ll - (n + 1)) + 1 ELSE 0
      BY <2>3
    <3>3. size = ll - n
      OBVIOUS
    <3> HIDE DEF ll, lr, size
    <3>4. size \in Nat /\ lr = size
      BY <3>1, <3>2, <3>3
    <3> QED BY <3>4 DEF lr
  <2> HIDE DEF size
  <2> QED BY <2>1, <2>3, <2>4
\* The page is the start of it.
<1> DEFINE length == IF more THEN limit ELSE size
<1>7. /\ more <=> size > limit
      /\ page = SubSeq(rest, 1, length)
  <2> DEFINE fetched == List(direction, query.filter, after, limit + 1)
  <2>1. fetched = IF Len(rest) <= limit + 1 THEN rest ELSE SubSeq(rest, 1, limit + 1)
    BY <1>1 DEF List
  <2>2. page = IF Len(fetched) > limit THEN SubSeq(fetched, 1, limit) ELSE fetched
    BY DEF PageOf
  <2>3. more <=> Len(fetched) > limit
    BY DEF MoreThan
  <2> HIDE DEF list, rest, fetched, page, more, size, limit
  <2>4. CASE size <= limit + 1
    <3>1. fetched = rest
      BY <1>6, <2>1, <2>4
    <3>2. rest = SubSeq(rest, 1, size)
      BY <1>6
    <3> QED BY <1>1, <1>6, <2>2, <2>3, <3>1, <3>2
  <2>5. CASE size > limit + 1
    <3>1. fetched = SubSeq(rest, 1, limit + 1)
      BY <1>1, <1>6, <2>1, <2>5
    <3>2. Len(fetched) = limit + 1
      BY <1>1, <1>6, <2>5, <3>1, SubSeqProperties
    <3>3. SubSeq(fetched, 1, limit) = SubSeq(rest, 1, limit)
      BY <1>1, <1>6, <2>5, <3>1
    <3> QED BY <1>1, <1>6, <2>2, <2>3, <2>5, <3>2, <3>3
  <2> QED BY <1>1, <1>6, <2>4, <2>5
<1>8. /\ length \in 0 .. size /\ page \in Seq(Ids) /\ Len(page) = length
      /\ \A k \in 1 .. length : n + k \in 1 .. Len(list) /\ page[k] = list[n + k]
      /\ ~more => length = size
  <2> HIDE DEF list, rest, page, more, size, limit
  <2>1. length \in 0 .. size
    BY <1>1, <1>6, <1>7
  <2>2. page \in Seq(Ids) /\ Len(page) = length /\ \A k \in 1 .. length : page[k] = rest[k]
    <3> HIDE DEF length
    <3> QED BY <1>6, <1>7, <2>1, SubSeqProperties
  <2>3. \A k \in 1 .. length : k \in 1 .. size
    BY <1>6, <2>1
  <2> QED BY <1>6, <2>1, <2>2, <2>3
<1> HIDE DEF list, rest, page, more, size, length
<1>9. page \in Seq(Passing(query.filter))
  <2>1. \A k \in 1 .. Len(page) : page[k] \in Passing(query.filter)
    BY <1>2, <1>4, <1>8 DEF ToSet
  <2> QED BY <1>8, <2>1
<1>10. \A k, l \in DOMAIN page : k < l => Before(page[k], page[l], direction)
  <2>1. SUFFICES ASSUME NEW k \in 1 .. length, NEW l \in 1 .. length, k < l
                 PROVE  Before(page[k], page[l], direction)
    BY <1>8
  <2>2. n + k < n + l
    BY <1>6, <1>8, <2>1
  <2> QED BY <1>2, <1>4, <1>8, <2>2
<1>11. ASSUME after \in passing, NEW k \in DOMAIN page PROVE Before(after, page[k], direction)
  <2>1. k \in 1 .. length
    BY <1>8
  <2>2. n \in 1 .. Len(list) /\ n < n + k /\ list[n] = after
    BY <1>4, <1>5, <1>8, <1>11, <2>1
  <2> QED BY <1>2, <1>4, <1>8, <2>1, <2>2
<1>12. ASSUME NEW e \in Passing(query.filter),
              after \notin passing \/ Before(after, e, direction), e \notin ToSet(page)
       PROVE  more /\ \A k \in DOMAIN page : Before(page[k], e, direction)
  <2>1. PICK l \in 1 .. Len(list) : list[l] = e
    BY <1>2, <1>4 DEF ToSet
  <2>2. l > n
    <3>1. SUFFICES ASSUME l <= n PROVE FALSE
      BY <1>4
    <3>2. after \in passing /\ list[n] = after /\ n \in 1 .. Len(list)
      BY <1>4, <1>5, <3>1
    <3>3. l = n \/ l < n
      BY <1>4, <3>1
    <3>4. e = after \/ Before(e, after, direction)
      BY <1>2, <1>4, <2>1, <3>2, <3>3
    <3> QED BY <1>3, <1>12, <3>2, <3>4
  <2>3. l - n \in 1 .. size /\ n + (l - n) = l
    BY <1>4, <2>2 DEF size
  <2>4. ASSUME l - n <= length PROVE FALSE
    <3>1. l - n \in 1 .. length
      BY <1>8, <2>3, <2>4
    <3>2. page[l - n] = e
      BY <1>8, <2>1, <2>3, <3>1
    <3> QED BY <1>8, <1>12, <3>1, <3>2 DEF ToSet
  <2>5. more
    BY <1>6, <1>8, <2>3, <2>4
  <2>6. ASSUME NEW k \in DOMAIN page PROVE Before(page[k], e, direction)
    <3>1. k \in 1 .. length
      BY <1>8
    <3>2. n + k < l
      BY <1>4, <1>6, <1>8, <2>3, <2>4, <3>1
    <3> QED BY <1>2, <1>4, <1>8, <2>1, <3>1, <3>2
  <2> QED BY <2>5, <2>6
<1>13. PageFollows(query, after, page, more)
  BY <1>9, <1>10, <1>11, <1>12 DEF PageFollows
<1> QED BY <1>13 DEF page, more

-----------------------------------------------------------------------------
(***************************************************************************)
(* The invariant.                                                          *)
(***************************************************************************)
PagerOK ==
  pager \in [Pagers -> [state : {"idle", "paging", "done"}, query : Queries \cup {None},
                        after : Ids \cup {None}, seen : Seq(Ids), start : SUBSET Ids,
                        touched : SUBSET Ids, lost : BOOLEAN]]

\* What a pager that asked query has been told by the time its cursor is at
\* after, if the entries in touched are left out of account: in order, nothing
\* behind the cursor, and all that was listed from the start and is not behind
\* the cursor.
Told(query, after, seen, start, touched) ==
  /\ after = None => seen = <<>>
  /\ after # None => after \in Passing(query.filter)
  /\ \A a \in ToSet(seen) \ touched : a = after \/ Before(a, after, query.direction)
  /\ \A i, j \in DOMAIN seen : i < j /\ seen[i] \notin touched /\ seen[j] \notin touched =>
       Before(seen[i], seen[j], query.direction)
  /\ \A e \in start \ touched :
       /\ e \in Passing(query.filter)
       /\ e \in ToSet(seen) \/ after = None \/ Before(after, e, query.direction)

PagersAreTold ==
  \A p \in Pagers :
    /\ pager[p].state = "idle" => pager[p].seen = <<>>
    /\ pager[p].state # "idle" => pager[p].query \in Queries
    /\ pager[p].state # "idle" /\ ~pager[p].lost =>
         Told(pager[p].query, pager[p].after, pager[p].seen, pager[p].start,
              pager[p].touched)

Paging == StoreOK /\ PagerOK /\ PagersAreTold /\ PagesTellAll

LEMMA InitPaging == Init => Paging
<1> SUFFICES ASSUME Init PROVE Paging
  OBVIOUS
<1> USE DEF Init, CompletionInit, Idle
<1>1. StoreOK
  <2>1. order = <<>> /\ completions = <<>>
    OBVIOUS
  <2>2. ToSet(<<>>) = {} /\ DOMAIN <<>> = {} /\ Once(<<>>) /\ <<>> \in Seq(Ids)
    BY DEF ToSet, Once
  <2> QED BY <2>1, <2>2 DEF StoreOK
<1>2. PagerOK
  BY DEF PagerOK
<1>3. PagersAreTold /\ PagesTellAll
  BY DEF PagersAreTold, PagesTellAll
<1> QED BY <1>1, <1>2, <1>3 DEF Paging

(***************************************************************************)
(* The requests of others.                                                 *)
(***************************************************************************)
\* The list stays as it is but for the entries in T, and who pages is told of
\* them.
Spares(T) ==
  /\ \A a, b : a \notin T /\ b \notin T /\ Comes(order, a, b) => Comes(order', a, b)
  /\ \A filter : \A a \in Passing(filter) : a \notin T => a \in Passing(filter)'

Tells(T) ==
  /\ pager' \in [Pagers -> [state : {"idle", "paging", "done"}, query : Queries \cup {None},
                            after : Ids \cup {None}, seen : Seq(Ids), start : SUBSET Ids,
                            touched : SUBSET Ids, lost : BOOLEAN]]
  /\ \A p \in Pagers :
       /\ pager'[p].state = pager[p].state /\ pager'[p].query = pager[p].query
       /\ pager'[p].after = pager[p].after /\ pager'[p].seen = pager[p].seen
       /\ pager'[p].start = pager[p].start
       /\ pager[p].state # "idle" =>
            /\ pager'[p].touched = pager[p].touched \cup T
            /\ pager'[p].lost = (pager[p].lost \/ pager[p].after \in T)

LEMMA TouchTells ==
  ASSUME PagerOK, NEW id \in Ids, Touch(id)
  PROVE  Tells({id})
<1>1. ASSUME NEW p \in Pagers, pager[p].state = "idle"
      PROVE  pager'[p] = pager[p]
  BY <1>1 DEF Touch
<1>2. ASSUME NEW p \in Pagers, pager[p].state # "idle"
      PROVE  pager'[p] = [pager[p] EXCEPT !.touched = @ \cup {id},
                                          !.lost = @ \/ pager[p].after = id]
  BY <1>2 DEF Touch
<1> DEFINE PagerState ==
             [state : {"idle", "paging", "done"}, query : Queries \cup {None},
              after : Ids \cup {None}, seen : Seq(Ids), start : SUBSET Ids,
              touched : SUBSET Ids, lost : BOOLEAN]
<1>3. \A p \in Pagers : pager[p] \in PagerState
  BY DEF PagerOK
<1>4. ASSUME NEW p \in Pagers, pager[p].state # "idle"
      PROVE  /\ pager'[p] \in PagerState
             /\ pager'[p].state = pager[p].state /\ pager'[p].query = pager[p].query
             /\ pager'[p].after = pager[p].after /\ pager'[p].seen = pager[p].seen
             /\ pager'[p].start = pager[p].start
             /\ pager'[p].touched = pager[p].touched \cup {id}
             /\ pager'[p].lost = (pager[p].lost \/ pager[p].after \in {id})
  <2> DEFINE lost == pager[p].lost \/ pager[p].after = id
             touched == pager[p].touched \cup {id}
  <2>1. lost \in BOOLEAN /\ lost = (pager[p].lost \/ pager[p].after \in {id})
    OBVIOUS
  <2>2. touched \in SUBSET Ids
    BY <1>3
  <2>3. pager'[p] = [pager[p] EXCEPT !.touched = touched, !.lost = lost]
    BY <1>2, <1>4
  <2> HIDE DEF lost, touched
  <2>4. pager[p] \in PagerState
    BY <1>3
  <2>5. /\ pager'[p] \in PagerState
        /\ pager'[p].state = pager[p].state /\ pager'[p].query = pager[p].query
        /\ pager'[p].after = pager[p].after /\ pager'[p].seen = pager[p].seen
        /\ pager'[p].start = pager[p].start
        /\ pager'[p].touched = touched
        /\ pager'[p].lost = lost
    BY <2>1, <2>2, <2>3, <2>4
  <2> QED BY <2>1, <2>5 DEF touched
<1>5. pager' \in [Pagers -> PagerState]
  <2>1. pager' = [p \in Pagers |-> pager'[p]]
    BY DEF Touch
  <2>2. \A p \in Pagers : pager'[p] \in PagerState
    BY <1>1, <1>3, <1>4
  <2> QED BY <2>1, <2>2
<1> QED BY <1>1, <1>4, <1>5 DEF Tells

LEMMA UntouchedTells ==
  ASSUME PagerOK, UNCHANGED pager
  PROVE  Tells({})
BY DEF PagerOK, Tells

LEMMA CreateSpares ==
  ASSUME Paging, NEW r \in Requests, CreateCompletion(r)
  PROVE  StoreOK' /\ \E T \in SUBSET Ids : Spares(T) /\ Tells(T)
<1> DEFINE id == CompletionId(r)
<1>1. id \in Ids
  BY DEF Ids
<1> HIDE DEF id
<1>2. order \in Seq(Ids) /\ Once(order) /\ DOMAIN completions = ToSet(order)
  BY DEF Paging, StoreOK
<1>3. CASE ~r.store
  <2>1. UNCHANGED storeVars /\ UNCHANGED pager
    BY <1>3 DEF CreateCompletion
  <2>2. order' = order /\ completions' = completions
    BY <2>1 DEF storeVars
  <2>3. StoreOK' /\ Spares({})
    BY <1>2, <2>2 DEF StoreOK, Spares, Passing
  <2>4. Tells({})
    BY <2>1, UntouchedTells DEF Paging
  <2> QED BY <2>3, <2>4
<1>4. CASE r.store
  <2>1. /\ order' = IF id \in ToSet(order) THEN order ELSE Append(order, id)
        /\ completions' = [i \in ToSet(order) \cup {id} |->
                             IF i = id THEN Completion(r) ELSE completions[i]]
    BY <1>4 DEF CreateCompletion, SaveCompletion, Present, id
  <2>2. /\ order' \in Seq(Ids) /\ Once(order') /\ ToSet(order') = ToSet(order) \cup {id}
        /\ \A a, b : Comes(order, a, b) => Comes(order', a, b)
    <3>1. CASE id \in ToSet(order)
      BY <1>2, <2>1, <3>1
    <3>2. CASE id \notin ToSet(order)
      BY <1>1, <1>2, <2>1, <3>2, AppendOrders
    <3> QED BY <3>1, <3>2
  <2>3. StoreOK'
    BY <2>1, <2>2 DEF StoreOK
  <2>4. \A a \in ToSet(order) : a # id => completions'[a] = completions[a]
    BY <2>1
  <2>5. completions'[id].metadata = r.metadata
    BY <2>1 DEF Completion
  <2>6. CASE id \in ToSet(order) /\ completions[id].metadata # r.metadata
    <3>1. Touch(id)
      BY <1>4, <2>6 DEF CreateCompletion, Present, id
    <3>2. Tells({id})
      BY <1>1, <3>1, TouchTells DEF Paging
    <3>3. Spares({id})
      BY <2>2, <2>4 DEF Spares, Passing
    <3> QED BY <1>1, <2>3, <3>2, <3>3
  <2>7. CASE ~(id \in ToSet(order) /\ completions[id].metadata # r.metadata)
    <3>1. UNCHANGED pager
      BY <1>4, <2>7 DEF CreateCompletion, Present, id
    <3>2. Tells({})
      BY <3>1, UntouchedTells DEF Paging
    <3>3. \A a \in ToSet(order) : completions'[a].metadata = completions[a].metadata
      BY <2>4, <2>5, <2>7
    <3>4. Spares({})
      BY <2>2, <3>3 DEF Spares, Passing
    <3> QED BY <2>3, <3>2, <3>4
  <2> QED BY <2>6, <2>7
<1> QED BY <1>3, <1>4

LEMMA UpdateSpares ==
  ASSUME Paging, NEW id \in ToSet(order), UpdateCompletion(id)
  PROVE  StoreOK' /\ \E T \in SUBSET Ids : Spares(T) /\ Tells(T)
<1>1. order \in Seq(Ids) /\ Once(order) /\ DOMAIN completions = ToSet(order)
  BY DEF Paging, StoreOK
<1>2. id \in Ids
  BY <1>1 DEF ToSet
<1>3. PICK metadata \in Updates : UpdateMetadata(id, metadata)
  BY DEF UpdateCompletion
<1>4. /\ order' = order /\ DOMAIN completions' = DOMAIN completions
      /\ \A a \in ToSet(order) : a # id => completions'[a] = completions[a]
  BY <1>1, <1>3 DEF UpdateMetadata
<1>5. StoreOK'
  BY <1>1, <1>4 DEF StoreOK
<1>6. Spares({id})
  BY <1>4 DEF Spares, Passing
<1>7. Tells({id})
  BY <1>2, TouchTells DEF UpdateCompletion, Paging
<1> QED BY <1>2, <1>5, <1>6, <1>7

LEMMA DeleteSpares ==
  ASSUME Paging, NEW id \in ToSet(order), DeleteCompletion(id)
  PROVE  StoreOK' /\ \E T \in SUBSET Ids : Spares(T) /\ Tells(T)
<1>1. order \in Seq(Ids) /\ Once(order) /\ DOMAIN completions = ToSet(order)
  BY DEF Paging, StoreOK
<1>2. id \in Ids
  BY <1>1 DEF ToSet
<1> DEFINE at == Position(id)
<1>3. at \in DOMAIN order /\ order[at] = id
  BY DEF Position, ToSet
<1>4. /\ order' = RemoveAt(order, at)
      /\ completions' = [i \in ToSet(order) \ {id} |-> completions[i]]
  BY DEF DeleteCompletion, RemoveCompletion
<1> HIDE DEF at
<1>5. /\ RemoveAt(order, at) \in Seq(Ids) /\ Once(RemoveAt(order, at))
      /\ ToSet(RemoveAt(order, at)) = ToSet(order) \ {order[at]}
      /\ \A a, b : a # order[at] /\ b # order[at] /\ Comes(order, a, b)
                     => Comes(RemoveAt(order, at), a, b)
  BY <1>1, <1>3, RemoveOrders
<1>6. StoreOK'
  BY <1>3, <1>4, <1>5 DEF StoreOK
<1>7. Spares({id})
  BY <1>3, <1>4, <1>5 DEF Spares, Passing
<1>8. Tells({id})
  BY <1>2, TouchTells DEF DeleteCompletion, Paging
<1> QED BY <1>2, <1>6, <1>7, <1>8

\* What a pager was told it was still told, as long as its cursor is spared.
LEMMA SparedStaysTold ==
  ASSUME StoreOK, NEW T, Spares(T),
         NEW query, NEW after, NEW seen, NEW start, NEW touched,
         Told(query, after, seen, start, touched), after \notin T
  PROVE  Told(query, after, seen, start, touched \cup T)'
<1>1. \A a, b : a \notin T /\ b \notin T /\ Before(a, b, query.direction)
                  => Before(a, b, query.direction)'
  BY DEF Before, Spares
<1>2. \A a \in Passing(query.filter) : a \notin T => a \in Passing(query.filter)'
  BY DEF Spares
<1> QED BY <1>1, <1>2 DEF Told

\* A step of another client.
LEMMA OthersKeepPaging ==
  ASSUME Paging, StoreOK', NEW T \in SUBSET Ids, Spares(T), Tells(T)
  PROVE  Paging'
<1>1. PagerOK'
  BY DEF Tells, PagerOK
<1>2. ASSUME NEW p \in Pagers
      PROVE  /\ pager'[p].state = "idle" => pager'[p].seen = <<>>
             /\ pager'[p].state # "idle" => pager'[p].query \in Queries
             /\ pager'[p].state = "done" /\ ~pager'[p].lost =>
                  pager'[p].start \ pager'[p].touched \subseteq ToSet(pager'[p].seen)
  BY DEF Paging, PagersAreTold, PagesTellAll, Tells
<1>3. ASSUME NEW p \in Pagers, pager'[p].state # "idle", ~pager'[p].lost
      PROVE  Told(pager[p].query, pager[p].after, pager[p].seen, pager[p].start,
                  pager[p].touched)'
  <2>1. pager[p].state # "idle" /\ ~pager[p].lost /\ pager[p].after \notin T
    BY <1>3 DEF Tells
  <2>2. PICK query, after, seen, start, touched :
          /\ query = pager[p].query /\ after = pager[p].after /\ seen = pager[p].seen
          /\ start = pager[p].start /\ touched = pager[p].touched
    OBVIOUS
  <2>3. /\ query = pager'[p].query /\ after = pager'[p].after /\ seen = pager'[p].seen
        /\ start = pager'[p].start /\ touched \cup T = pager'[p].touched
    BY <1>3, <2>1, <2>2 DEF Tells
  <2>4. Told(query, after, seen, start, touched) /\ after \notin T
    BY <2>1, <2>2 DEF Paging, PagersAreTold
  <2>5. Told(query, after, seen, start, touched \cup T)'
    BY <2>4, SparedStaysTold DEF Paging
  <2> QED BY <2>3, <2>5 DEF Told
<1> QED BY <1>1, <1>2, <1>3 DEF Paging, PagersAreTold, PagesTellAll

(***************************************************************************)
(* The requests of pagers.                                                 *)
(***************************************************************************)
LEMMA PageIsTold ==
  ASSUME StoreOK, NEW query, NEW after \in Ids \cup {None}, NEW seen \in Seq(Ids),
         NEW start, NEW touched, Told(query, after, seen, start, touched),
         NEW page \in Seq(Ids), NEW more, PageFollows(query, after, page, more)
  PROVE  /\ Told(query, IF page = <<>> THEN after ELSE Last(page), seen \o page,
                 start, touched)
         /\ ~more => start \ touched \subseteq ToSet(seen \o page)
<1> DEFINE direction == query.direction
           passing == Passing(query.filter)
           n == Len(seen)
           m == Len(page)
           end == IF page = <<>> THEN after ELSE Last(page)
           both == seen \o page
<1>1. /\ n \in Nat /\ DOMAIN seen = 1 .. n
      /\ m \in Nat /\ DOMAIN page = 1 .. m /\ (page = <<>> <=> m = 0)
  OBVIOUS
<1>2. /\ both \in Seq(Ids) /\ DOMAIN both = 1 .. n + m
      /\ \A k \in 1 .. n : both[k] = seen[k]
      /\ \A k \in 1 .. m : both[n + k] = page[k]
  BY ConcatPlaces
<1>3. \A k \in 1 .. n + m : k \in 1 .. n \/ \E l \in 1 .. m : k = n + l
  <2>1. ASSUME NEW k \in 1 .. n + m, k \notin 1 .. n PROVE k - n \in 1 .. m /\ k = n + (k - n)
    BY <1>1, <2>1
  <2> QED BY <2>1
<1>4. /\ \A k \in 1 .. n : k \in 1 .. n + m
      /\ \A k \in 1 .. m : n + k \in 1 .. n + m
      /\ \A k \in 1 .. m : k = m \/ k < m
      /\ \A k, l \in 1 .. m : n + k < n + l => k < l
      /\ \A k \in 1 .. n : \A l \in 1 .. m : ~(n + l < k)
      /\ m # 0 => m \in 1 .. m
  <2>1. n \in Nat /\ m \in Nat
    BY <1>1
  <2> HIDE DEF n, m
  <2>2. \A k, l \in 1 .. m : n + k < n + l => k < l
    BY <2>1
  <2>3. \A k \in 1 .. n : \A l \in 1 .. m : ~(n + l < k)
    BY <2>1
  <2>4. /\ \A k \in 1 .. n : k \in 1 .. n + m
        /\ \A k \in 1 .. m : n + k \in 1 .. n + m
    BY <2>1
  <2>5. /\ \A k \in 1 .. m : k = m \/ k < m
        /\ m # 0 => m \in 1 .. m
    BY <2>1
  <2> QED BY <2>2, <2>3, <2>4, <2>5
<1>5. /\ \A a, b : Before(a, b, direction) => a # b /\ ~Before(b, a, direction)
      /\ \A a, b, c : Before(a, b, direction) /\ Before(b, c, direction)
                        => Before(a, c, direction)
  BY BeforeIsAnOrder
<1>6. end = IF m = 0 THEN after ELSE page[m]
  BY <1>1 DEF Last
<1>7. None \notin passing
  BY IdsAssumption DEF Passing, StoreOK, ToSet
<1> HIDE DEF direction, passing, n, m, end, both
<1>8. /\ after = None => seen = <<>>
      /\ after # None => after \in passing
      /\ \A a \in ToSet(seen) \ touched : a = after \/ Before(a, after, direction)
      /\ \A i, j \in 1 .. n : i < j /\ seen[i] \notin touched /\ seen[j] \notin touched =>
           Before(seen[i], seen[j], direction)
      /\ \A e \in start \ touched :
           /\ e \in passing
           /\ e \in ToSet(seen) \/ after = None \/ Before(after, e, direction)
  BY <1>1 DEF Told, direction, passing
<1>9. /\ \A k \in 1 .. m : page[k] \in passing
      /\ \A k, l \in 1 .. m : k < l => Before(page[k], page[l], direction)
      /\ after # None => \A k \in 1 .. m : Before(after, page[k], direction)
      /\ \A e \in passing : after = None \/ Before(after, e, direction) =>
           e \in ToSet(page) \/ (more /\ \A k \in 1 .. m : Before(page[k], e, direction))
  <2>1. \A k \in 1 .. m : page[k] \in passing
    BY <1>1 DEF PageFollows, passing
  <2> QED BY <1>1, <1>7, <1>8, <2>1 DEF PageFollows, direction, passing
<1>10. ToSet(both) = ToSet(seen) \cup ToSet(page)
  <2>1. \A k \in 1 .. n + m : both[k] \in ToSet(seen) \cup ToSet(page)
    BY <1>1, <1>2, <1>3 DEF ToSet
  <2>2. \A k \in 1 .. n : seen[k] \in ToSet(both)
    BY <1>2, <1>4 DEF ToSet
  <2>3. \A k \in 1 .. m : page[k] \in ToSet(both)
    BY <1>2, <1>4 DEF ToSet
  <2>4. /\ ToSet(both) = {both[k] : k \in 1 .. n + m}
        /\ ToSet(seen) = {seen[k] : k \in 1 .. n} /\ ToSet(page) = {page[k] : k \in 1 .. m}
    BY <1>1, <1>2 DEF ToSet
  <2> QED BY <2>1, <2>2, <2>3, <2>4
\* The end of the page is behind all that was seen before and in it.
<1>11. ASSUME NEW a \in ToSet(seen) \ touched, NEW k \in 1 .. m
       PROVE  Before(a, page[k], direction)
  <2>1. after # None
    BY <1>8, <1>11 DEF ToSet
  <2> QED BY <1>5, <1>8, <1>9, <2>1
<1>12. \A a \in ToSet(both) \ touched : a = end \/ Before(a, end, direction)
  <2>1. CASE m = 0
    <3>1. ToSet(page) = {}
      BY <1>1, <2>1 DEF ToSet
    <3> QED BY <1>6, <1>8, <1>10, <2>1, <3>1
  <2>2. CASE m # 0
    <3>1. ASSUME NEW a \in ToSet(page) PROVE a = page[m] \/ Before(a, page[m], direction)
      <4>1. PICK k \in 1 .. m : page[k] = a
        BY <1>1 DEF ToSet
      <4> QED BY <1>4, <1>9, <2>2, <4>1
    <3> QED BY <1>4, <1>6, <1>10, <1>11, <2>2, <3>1
  <2> QED BY <2>1, <2>2
<1>13. ASSUME NEW i \in 1 .. n + m, NEW j \in 1 .. n + m, i < j,
              both[i] \notin touched, both[j] \notin touched
       PROVE  Before(both[i], both[j], direction)
  <2>1. CASE i \in 1 .. n /\ j \in 1 .. n
    BY <1>2, <1>8, <1>13, <2>1
  <2>2. ASSUME i \in 1 .. n, NEW l \in 1 .. m, j = n + l
        PROVE  Before(both[i], both[j], direction)
    <3>1. both[i] = seen[i] /\ both[j] = page[l] /\ seen[i] \in ToSet(seen)
      BY <1>1, <1>2, <2>2 DEF ToSet
    <3> QED BY <1>11, <1>13, <3>1
  <2>3. ASSUME NEW k \in 1 .. m, i = n + k, NEW l \in 1 .. m, j = n + l
        PROVE  Before(both[i], both[j], direction)
    BY <1>2, <1>4, <1>9, <1>13, <2>3
  <2>4. ASSUME NEW k \in 1 .. m, i = n + k, j \in 1 .. n
        PROVE  FALSE
    BY <1>4, <1>13, <2>4
  <2> QED BY <1>3, <2>1, <2>2, <2>3, <2>4
<1>14. ASSUME NEW e \in start \ touched
       PROVE  /\ e \in passing
              /\ \/ e \in ToSet(both)
                 \/ more /\ (end = None \/ Before(end, e, direction))
  <2>1. e \in passing /\ (e \in ToSet(seen) \/ after = None \/ Before(after, e, direction))
    BY <1>8
  <2>2. CASE e \in ToSet(seen)
    BY <1>10, <2>1, <2>2
  <2>3. CASE e \notin ToSet(seen)
    <3>1. CASE e \in ToSet(page)
      BY <1>10, <2>1, <3>1
    <3>2. CASE e \notin ToSet(page)
      <4>1. more /\ \A k \in 1 .. m : Before(page[k], e, direction)
        BY <1>9, <2>1, <2>3, <3>2
      <4> QED BY <1>4, <1>6, <2>1, <2>3, <4>1
    <3> QED BY <3>1, <3>2
  <2> QED BY <2>2, <2>3
<1>15. /\ end = None => both = <<>>
       /\ end # None => end \in passing
  <2>1. CASE m = 0
    <3>1. both = seen
      BY <1>1, <2>1 DEF both
    <3> QED BY <1>6, <1>8, <2>1, <3>1
  <2>2. CASE m # 0
    BY <1>4, <1>6, <1>7, <1>9, <2>2
  <2> QED BY <2>1, <2>2
<1>16. Told(query, end, both, start, touched)
  BY <1>2, <1>12, <1>13, <1>14, <1>15 DEF Told, direction, passing
<1>17. ~more => start \ touched \subseteq ToSet(both)
  BY <1>14
<1> QED BY <1>16, <1>17 DEF end, both

LEMMA BeginKeepsPaging ==
  ASSUME Paging, NEW p \in Pagers, BeginPaging(p)
  PROVE  Paging'
<1>1. PICK query \in Queries :
        pager' = [pager EXCEPT ![p] =
                    [Idle EXCEPT !.state = "paging", !.query = query,
                                 !.start = ToSet(Listed(query.direction, query.filter))]]
  BY DEF BeginPaging
<1>2. order' = order /\ completions' = completions
  BY DEF BeginPaging, storeVars
<1> DEFINE started == [state |-> "paging", query |-> query, after |-> None, seen |-> <<>>,
                       start |-> Passing(query.filter), touched |-> {}, lost |-> FALSE]
<1>3. ToSet(Listed(query.direction, query.filter)) = Passing(query.filter)
  BY ListedFacts DEF Paging
<1>4. /\ pager'[p] = started /\ \A q \in Pagers : q # p => pager'[q] = pager[q]
      /\ pager' = [pager EXCEPT ![p] = started]
  <2>1. [Idle EXCEPT !.state = "paging", !.query = query,
                     !.start = Passing(query.filter)] = started
    <3> DEFINE passing == Passing(query.filter)
    <3> HIDE DEF passing
    <3>1. PICK idle : idle = Idle
      OBVIOUS
    <3>2. idle \in [state : {"idle"}, query : {None}, after : {None}, seen : {<<>>},
                    start : {{}}, touched : {{}}, lost : {FALSE}]
      BY <3>1 DEF Idle
    <3>3. [idle EXCEPT !.state = "paging", !.query = query, !.start = passing]
            = [state |-> "paging", query |-> query, after |-> None, seen |-> <<>>,
               start |-> passing, touched |-> {}, lost |-> FALSE]
      <4> DEFINE begun == [idle EXCEPT !.state = "paging", !.query = query,
                                       !.start = passing]
      <4>1. begun \in [state : {"paging"}, query : {query}, after : {None}, seen : {<<>>},
                       start : {passing}, touched : {{}}, lost : {FALSE}]
        BY <3>2
      <4> HIDE DEF begun
      <4>2. begun = [state |-> "paging", query |-> query, after |-> None, seen |-> <<>>,
                     start |-> passing, touched |-> {}, lost |-> FALSE]
        BY <4>1
      <4> QED BY <4>2 DEF begun
    <3> QED BY <3>1, <3>3 DEF passing
  <2>2. pager' = [pager EXCEPT ![p] = started]
    BY <1>1, <1>3, <2>1
  <2> HIDE DEF started
  <2> QED BY <2>2 DEF Paging, PagerOK
<1>5. StoreOK'
  BY <1>2 DEF Paging, StoreOK
<1>6. Passing(query.filter) \subseteq Ids
  BY DEF Passing, Paging, StoreOK, ToSet
<1>7. PagerOK'
  <2>1. started \in [state : {"idle", "paging", "done"}, query : Queries \cup {None},
                     after : Ids \cup {None}, seen : Seq(Ids), start : SUBSET Ids,
                     touched : SUBSET Ids, lost : BOOLEAN]
    BY <1>6
  <2> QED BY <1>4, <2>1 DEF Paging, PagerOK
<1>8. Told(query, None, <<>>, Passing(query.filter), {})
  BY DEF Told, ToSet
<1>9. \A q, a, s, b, t : Told(q, a, s, b, t) => Told(q, a, s, b, t)'
  BY <1>2 DEF Told, Before, Passing
<1>10. PagersAreTold' /\ PagesTellAll'
  <2>1. SUFFICES ASSUME NEW q \in Pagers
                 PROVE  /\ pager'[q].state = "idle" => pager'[q].seen = <<>>
                        /\ pager'[q].state # "idle" => pager'[q].query \in Queries
                        /\ pager'[q].state # "idle" /\ ~pager'[q].lost =>
                             Told(pager[q].query, pager[q].after, pager[q].seen,
                                  pager[q].start, pager[q].touched)'
                        /\ pager'[q].state = "done" /\ ~pager'[q].lost =>
                             pager'[q].start \ pager'[q].touched
                               \subseteq ToSet(pager'[q].seen)
    BY DEF PagersAreTold, PagesTellAll
  <2>2. CASE q = p
    <3>1. Told(query, None, <<>>, Passing(query.filter), {})'
      BY <1>2, <1>8 DEF Told, Before, Passing
    <3> QED BY <1>2, <1>4, <2>2, <3>1 DEF Told, Before, Passing
  <2>3. CASE q # p
    BY <1>2, <1>4, <2>3 DEF Paging, PagersAreTold, PagesTellAll, Told, Before, Passing
  <2> QED BY <2>2, <2>3
<1> QED BY <1>5, <1>7, <1>10 DEF Paging

LEMMA ReadKeepsPaging ==
  ASSUME Paging, NEW p \in Pagers, ReadPage(p)
  PROVE  Paging'
<1> DEFINE query == pager[p].query
           after == pager[p].after
           seen == pager[p].seen
           start == pager[p].start
           touched == pager[p].touched
           page == PageOf(query, after)
           more == MoreThan(query, after)
           end == IF page = <<>> THEN after ELSE Last(page)
           both == seen \o page
<1>1. /\ pager[p].state = "paging" /\ UNCHANGED storeVars
      /\ pager' = [pager EXCEPT ![p] =
                     [pager[p] EXCEPT !.state = IF more THEN "paging" ELSE "done",
                                      !.seen = both, !.after = end]]
  <2>1. pager[p].state = "paging" /\ UNCHANGED storeVars
    BY DEF ReadPage
  <2>2. pager' = [pager EXCEPT ![p] =
                    [pager[p] EXCEPT !.state = IF more THEN "paging" ELSE "done",
                                     !.seen = both, !.after = end]]
    BY DEF ReadPage, PageOf, MoreThan
  <2> QED BY <2>1, <2>2
<1>2. order' = order /\ completions' = completions
  BY <1>1 DEF storeVars
<1>3. /\ query \in Queries /\ after \in Ids \cup {None} /\ seen \in Seq(Ids)
      /\ start \in SUBSET Ids /\ touched \in SUBSET Ids
  BY <1>1 DEF Paging, PagersAreTold, PagerOK
<1> HIDE DEF query, after, seen, start, touched
<1>4. PageFollows(query, after, page, more)
  BY <1>3, PagesFollow DEF Paging
<1>5. page \in Seq(Ids)
  <2>1. Passing(query.filter) \subseteq Ids
    BY DEF Passing, Paging, StoreOK, ToSet
  <2>2. page \in Seq(Passing(query.filter))
    BY <1>4 DEF PageFollows
  <2> QED BY <2>1, <2>2
<1>6. end \in Ids \cup {None} /\ both \in Seq(Ids)
  <2> HIDE DEF page
  <2>1. page # <<>> => Last(page) \in Ids
    BY <1>5 DEF Last
  <2> QED BY <1>3, <1>5, <2>1
<1> HIDE DEF page, more
<1>7. ASSUME ~pager[p].lost
      PROVE  /\ Told(query, end, both, start, touched)
             /\ ~more => start \ touched \subseteq ToSet(both)
  <2>1. Told(query, after, seen, start, touched)
    BY <1>1, <1>7 DEF Paging, PagersAreTold, query, after, seen, start, touched
  <2>2. StoreOK
    BY DEF Paging
  <2>3. PICK pg, mr : pg = page /\ mr = more
    OBVIOUS
  <2>4. pg \in Seq(Ids) /\ PageFollows(query, after, pg, mr)
    BY <1>4, <1>5, <2>3
  <2>5. /\ Told(query, IF pg = <<>> THEN after ELSE Last(pg), seen \o pg, start, touched)
        /\ ~mr => start \ touched \subseteq ToSet(seen \o pg)
    BY <1>3, <2>1, <2>2, <2>4, PageIsTold
  <2> QED BY <2>3, <2>5
<1> HIDE DEF end, both
<1>8. /\ pager'[p].state = IF more THEN "paging" ELSE "done"
      /\ pager'[p].query = query /\ pager'[p].after = end /\ pager'[p].seen = both
      /\ pager'[p].start = start /\ pager'[p].touched = touched
      /\ pager'[p].lost = pager[p].lost
  BY <1>1 DEF Paging, PagerOK, query, start, touched
<1>9. \A q \in Pagers : q # p => pager'[q] = pager[q]
  BY <1>1 DEF Paging, PagerOK
<1>10. StoreOK'
  BY <1>2 DEF Paging, StoreOK
<1>11. PagerOK'
  <2> DEFINE state == IF more THEN "paging" ELSE "done"
             PagerState ==
               [state : {"idle", "paging", "done"}, query : Queries \cup {None},
                after : Ids \cup {None}, seen : Seq(Ids), start : SUBSET Ids,
                touched : SUBSET Ids, lost : BOOLEAN]
  <2>1. state \in {"idle", "paging", "done"}
    OBVIOUS
  <2>2. pager[p] \in PagerState /\ pager \in [Pagers -> PagerState]
    BY DEF Paging, PagerOK
  <2>3. pager' = [pager EXCEPT ![p] =
                    [pager[p] EXCEPT !.state = state, !.seen = both, !.after = end]]
    BY <1>1
  <2> HIDE DEF state
  <2>4. [pager[p] EXCEPT !.state = state, !.seen = both, !.after = end] \in PagerState
    BY <1>6, <2>1, <2>2
  <2> HIDE DEF PagerState
  <2>5. pager' \in [Pagers -> PagerState]
    BY <2>2, <2>3, <2>4
  <2> QED BY <2>5 DEF PagerOK, PagerState
<1>12. PagersAreTold' /\ PagesTellAll'
  <2>1. SUFFICES ASSUME NEW q \in Pagers
                 PROVE  /\ pager'[q].state = "idle" => pager'[q].seen = <<>>
                        /\ pager'[q].state # "idle" => pager'[q].query \in Queries
                        /\ pager'[q].state # "idle" /\ ~pager'[q].lost =>
                             Told(pager[q].query, pager[q].after, pager[q].seen,
                                  pager[q].start, pager[q].touched)'
                        /\ pager'[q].state = "done" /\ ~pager'[q].lost =>
                             pager'[q].start \ pager'[q].touched
                               \subseteq ToSet(pager'[q].seen)
    BY DEF PagersAreTold, PagesTellAll
  <2>2. CASE q = p
    <3>1. PICK a, b, c, d, e : a = query /\ b = end /\ c = both /\ d = start /\ e = touched
      OBVIOUS
    <3>2. ~pager[p].lost => Told(a, b, c, d, e)
      BY <1>7, <3>1
    <3>3. ~pager[p].lost => Told(a, b, c, d, e)'
      BY <1>2, <3>2 DEF Told, Before, Passing
    <3>4. ~pager'[p].lost =>
            Told(pager[p].query, pager[p].after, pager[p].seen, pager[p].start,
                 pager[p].touched)'
      BY <1>8, <3>1, <3>3 DEF Told, Before, Passing
    <3> QED BY <1>3, <1>7, <1>8, <2>2, <3>4
  <2>3. CASE q # p
    BY <1>2, <1>9, <2>3 DEF Paging, PagersAreTold, PagesTellAll, Told, Before, Passing
  <2> QED BY <2>2, <2>3
<1> QED BY <1>10, <1>11, <1>12 DEF Paging

-----------------------------------------------------------------------------
(***************************************************************************)
(* The theorems.                                                           *)
(***************************************************************************)
LEMMA StepKeepsPaging ==
  ASSUME Paging, [Next]_vars
  PROVE  Paging'
<1>1. CASE UNCHANGED vars
  <2>1. order' = order /\ completions' = completions /\ pager' = pager
    BY <1>1 DEF vars, storeVars
  <2> QED BY <2>1 DEF Paging, StoreOK, PagerOK, PagersAreTold, PagesTellAll, Told,
                      Before, Passing
<1>2. ASSUME NEW r \in Requests, CreateCompletion(r) PROVE Paging'
  BY <1>2, CreateSpares, OthersKeepPaging
<1>3. ASSUME NEW id \in ToSet(order), UpdateCompletion(id) PROVE Paging'
  BY <1>3, UpdateSpares, OthersKeepPaging
<1>4. ASSUME NEW id \in ToSet(order), DeleteCompletion(id) PROVE Paging'
  BY <1>4, DeleteSpares, OthersKeepPaging
<1>5. ASSUME NEW p \in Pagers, BeginPaging(p) PROVE Paging'
  BY <1>5, BeginKeepsPaging
<1>6. ASSUME NEW p \in Pagers, ReadPage(p) PROVE Paging'
  BY <1>6, ReadKeepsPaging
<1> QED BY <1>1, <1>2, <1>3, <1>4, <1>5, <1>6 DEF Next

THEOREM AlwaysPaging == Spec => []Paging
<1>1. Init => Paging
  BY InitPaging
<1>2. Paging /\ [Next]_vars => Paging'
  BY StepKeepsPaging
<1> QED BY <1>1, <1>2, PTL DEF Spec

\* While its cursor is left alone, a pager is told the entries it was told of
\* in the order of the list and none twice, whatever create, update and delete
\* requests come between its pages.
THEOREM PagesFollowLists == Spec => []PagesFollowTheList
<1>1. ASSUME Paging PROVE PagesFollowTheList
  <2> SUFFICES ASSUME NEW p \in Pagers, ~pager[p].lost,
                      NEW i \in DOMAIN pager[p].seen, NEW j \in DOMAIN pager[p].seen, i < j,
                      {pager[p].seen[i], pager[p].seen[j]} \cap pager[p].touched = {}
               PROVE  Precedes(pager[p].seen[i], pager[p].seen[j], pager[p].query.direction)
    BY DEF PagesFollowTheList
  <2>1. pager[p].state # "idle"
    <3>1. SUFFICES ASSUME pager[p].state = "idle" PROVE FALSE
      OBVIOUS
    <3>2. pager[p].seen = <<>>
      BY <1>1, <3>1 DEF Paging, PagersAreTold
    <3> QED BY <3>2
  <2>2. Told(pager[p].query, pager[p].after, pager[p].seen, pager[p].start,
             pager[p].touched)
    BY <1>1, <2>1 DEF Paging, PagersAreTold
  <2>3. Before(pager[p].seen[i], pager[p].seen[j], pager[p].query.direction)
    BY <2>2 DEF Told
  <2> QED BY <1>1, <2>3, BeforePrecedes DEF Paging
<1> QED BY <1>1, AlwaysPaging, PTL

\* A pager that was told that there is no more was told of every entry that
\* was listed when it began and not touched since, while its cursor was left
\* alone.
THEOREM AllPagesAreTold == Spec => []PagesTellAll
<1>1. Paging => PagesTellAll
  BY DEF Paging
<1> QED BY <1>1, AlwaysPaging, PTL

-----------------------------------------------------------------------------
(***************************************************************************)
(* Live mode: the budget, that permits are neither lost nor made, and what *)
(* the dataset keeps.                                                      *)
(***************************************************************************)
\* Of two numbers neither is more than their sum.
LEMMA PartIsBounded ==
  ASSUME NEW part \in Nat, NEW rest \in Nat, NEW whole \in Nat,
         part + rest = whole
  PROVE  part \in 0 .. whole
OBVIOUS

\* One call that changes its stage changes the number of calls in any set of
\* stages by what it enters and leaves.
LEMMA OneMoves ==
  ASSUME pc \in [Calls -> {"idle", "waiting"} \cup Holding \cup Answers],
         NEW c \in Calls, NEW stage, NEW stages,
         pc' = [pc EXCEPT ![c] = stage]
  PROVE  /\ Cardinality(InStage(stages)) \in Nat
         /\ Cardinality(InStage(stages))' \in Nat
         /\ Cardinality(InStage(stages))'
              = IF pc[c] \in stages
                THEN IF stage \in stages THEN Cardinality(InStage(stages))
                     ELSE Cardinality(InStage(stages)) - 1
                ELSE IF stage \in stages THEN Cardinality(InStage(stages)) + 1
                     ELSE Cardinality(InStage(stages))
<1> DEFINE S == InStage(stages)
<1>1. IsFiniteSet(S) /\ Cardinality(S) \in Nat
  <2>1. S \subseteq Calls
    BY DEF InStage
  <2> QED BY <2>1, LiveAssumption, FS_Subset, FS_CardinalityType
<1>2. InStage(stages)' = IF stage \in stages THEN S \cup {c} ELSE S \ {c}
  BY DEF InStage
<1>3. c \in S <=> pc[c] \in stages
  BY DEF InStage
<1>4. Cardinality(InStage(stages))' = Cardinality(InStage(stages)')
  OBVIOUS
<1>5. /\ Cardinality(S \cup {c})
           = IF c \in S THEN Cardinality(S) ELSE Cardinality(S) + 1
      /\ Cardinality(S \ {c})
           = IF c \in S THEN Cardinality(S) - 1 ELSE Cardinality(S)
  BY <1>1, FS_AddElement, FS_RemoveElement
<1>6. Cardinality(InStage(stages))' \in Nat
  <2>1. IsFiniteSet(S \cup {c}) /\ IsFiniteSet(S \ {c})
    BY <1>1, FS_AddElement, FS_RemoveElement
  <2> QED BY <1>2, <1>4, <2>1, FS_CardinalityType
<1> HIDE DEF S
<1> QED BY <1>1, <1>2, <1>3, <1>4, <1>5, <1>6 DEF S

-----------------------------------------------------------------------------
\* What was called and what waits to call is within what was taken of the
\* budget: a caller passes from the second to the first and never back.
Budgeted ==
  upstream + Cardinality(InStage({"waiting"}))
    <= IF spent < MaxRequests THEN spent ELSE MaxRequests

\* The types of what is counted.
CountsTyped ==
  /\ spent \in Nat
  /\ permits \in Nat
  /\ upstream \in Nat
  /\ pc \in [Calls -> {"idle", "waiting"} \cup Holding \cup Answers]

Accounted == CountsTyped /\ Budgeted /\ PermitsAddUp

\* How an action of a call moves it and what it does to the counters.
Moves(c, stage) ==
  /\ pc' = [pc EXCEPT ![c] = stage]
  /\ \/ /\ pc[c] = "idle" /\ stage \in {"waiting", "exhausted"}
        /\ stage = "waiting" => spent < MaxRequests
        /\ spent' = spent + 1
        /\ upstream' = upstream /\ permits' = permits
     \/ /\ pc[c] = "waiting" /\ stage = "calling" /\ permits > 0
        /\ upstream' = upstream + 1 /\ permits' = permits - 1
        /\ spent' = spent
     \/ /\ pc[c] = "waiting" /\ stage \in Answers
        /\ spent' = spent /\ upstream' = upstream /\ permits' = permits
     \/ /\ pc[c] \in Holding /\ stage \in Answers
        /\ permits' = permits + 1
        /\ spent' = spent /\ upstream' = upstream
     \/ /\ pc[c] \in Holding /\ stage \in Holding
        /\ spent' = spent /\ upstream' = upstream /\ permits' = permits

LEMMA EveryStepMoves ==
  ASSUME CountsTyped, NEW c \in Calls, Take(c) \/ Serve(c) \/ Disconnect(c)
  PROVE  \E stage : Moves(c, stage)
<1> USE DEF Moves, Holding, Recorders, Answers, Goto, Leave, process
<1>1. CASE Take(c)
  <2>1. CASE spent >= MaxRequests
    <3>1. Moves(c, "exhausted")
      BY <1>1, <2>1 DEF Take
    <3> QED BY <3>1
  <2>2. CASE ~(spent >= MaxRequests)
    <3>1. Moves(c, "waiting")
      BY <1>1, <2>2, LiveAssumption DEF Take, CountsTyped
    <3> QED BY <3>1
  <2> QED BY <2>1, <2>2
<1>2. CASE Acquire(c)
  <2>1. Moves(c, "calling")
    BY <1>2 DEF Acquire
  <2> QED BY <2>1
<1>3. CASE Unconvertible(c)
  <2>1. Moves(c, "failed")
    BY <1>3 DEF Unconvertible
  <2> QED BY <2>1
<1>4. CASE Return(c)
  <2>1. \/ \E a \in {"failed", "empty", "ok"} : Moves(c, a)
        \/ Moves(c, "read")
    BY <1>4 DEF Return
  <2> QED BY <2>1
<1>5. CASE Timeout(c)
  <2>1. Moves(c, "timeout")
    BY <1>5 DEF Timeout
  <2> QED BY <2>1
<1>6. CASE Disconnect(c)
  <2>1. Moves(c, "dropped")
    BY <1>6 DEF Disconnect
  <2> QED BY <2>1
<1>7. CASE ReadRows(c)
  <2>1. Moves(c, "unrecorded") \/ Moves(c, "create")
    BY <1>7 DEF ReadRows
  <2> QED BY <2>1
<1>8. CASE CreateFile(c)
  <2>1. Moves(c, "write")
    BY <1>8 DEF CreateFile
  <2> QED BY <2>1
<1>9. CASE CloseFile(c)
  <2>1. Moves(c, "ok")
    BY <1>9 DEF CloseFile
  <2> QED BY <2>1
<1> QED BY <1>1, <1>2, <1>3, <1>4, <1>5, <1>6, <1>7, <1>8, <1>9 DEF Serve

LEMMA NextCountsTyped == CountsTyped /\ [LiveNext]_liveVars => CountsTyped'
<1> SUFFICES ASSUME CountsTyped, [LiveNext]_liveVars PROVE CountsTyped'
  OBVIOUS
<1> USE DEF CountsTyped
<1>1. ASSUME NEW c \in Calls, Take(c) \/ Serve(c) \/ Disconnect(c)
      PROVE  CountsTyped'
  <2>1. PICK stage : Moves(c, stage)
    BY <1>1, EveryStepMoves
  <2>2. stage \in {"idle", "waiting"} \cup Holding \cup Answers
    BY <2>1 DEF Moves, Answers, Holding
  <2>3. spent' \in Nat /\ permits' \in Nat /\ upstream' \in Nat
    BY <2>1 DEF Moves
  <2>4. pc' = [pc EXCEPT ![c] = stage]
    BY <2>1 DEF Moves
  <2> QED BY <2>2, <2>3, <2>4
<1>2. CASE Crash
  <2>1. spent' = 0 /\ permits' = MaxConcurrent /\ upstream' = 0
    BY <1>2 DEF Crash
  <2>2. pc' \in [Calls -> {"idle", "waiting"} \cup Holding \cup Answers]
    BY <1>2 DEF Crash, Answers
  <2> QED BY <2>1, <2>2, LiveAssumption
<1>3. CASE UNCHANGED liveVars
  BY <1>3 DEF liveVars, process
<1> QED BY <1>1, <1>2, <1>3 DEF LiveNext

LEMMA NextAccounted == Accounted /\ [LiveNext]_liveVars => Accounted'
<1> SUFFICES ASSUME Accounted, [LiveNext]_liveVars PROVE Accounted'
  OBVIOUS
<1> DEFINE W == Cardinality(InStage({"waiting"}))
           H == Cardinality(InStage(Holding))
<1>1. CountsTyped'
  BY NextCountsTyped DEF Accounted
<1>2. ASSUME NEW c \in Calls, Take(c) \/ Serve(c) \/ Disconnect(c)
      PROVE  Budgeted' /\ PermitsAddUp'
  <2>1. PICK stage : Moves(c, stage)
    BY <1>2, EveryStepMoves DEF Accounted
  <2>2. /\ pc \in [Calls -> {"idle", "waiting"} \cup Holding \cup Answers]
        /\ pc' = [pc EXCEPT ![c] = stage]
    BY <2>1 DEF Accounted, CountsTyped, Moves
  <2>3. /\ W \in Nat
        /\ W' = IF pc[c] \in {"waiting"}
                THEN IF stage \in {"waiting"} THEN W ELSE W - 1
                ELSE IF stage \in {"waiting"} THEN W + 1 ELSE W
    BY ONLY <2>2, c \in Calls, OneMoves
  <2>4. /\ H \in Nat
        /\ H' = IF pc[c] \in Holding
                THEN IF stage \in Holding THEN H ELSE H - 1
                ELSE IF stage \in Holding THEN H + 1 ELSE H
    <3> HIDE DEF W
    <3>1. Cardinality(InStage(Holding))' = Cardinality(InStage(Holding)')
      OBVIOUS
    <3> QED BY ONLY <2>2, <3>1, c \in Calls, OneMoves
  <2>A. Cardinality(InStage(Holding))' \in Nat
    BY ONLY <2>2, c \in Calls, OneMoves
  <2>5. /\ spent \in Nat /\ permits \in Nat /\ upstream \in Nat
        /\ MaxRequests \in Nat /\ MaxConcurrent \in Nat
    BY LiveAssumption DEF Accounted, CountsTyped
  <2>6. /\ upstream + W <= IF spent < MaxRequests THEN spent ELSE MaxRequests
        /\ permits + H = MaxConcurrent
    BY DEF Accounted, Budgeted, PermitsAddUp
  <2> HIDE DEF W, H
  <2>7. upstream' + W' <= IF spent' < MaxRequests THEN spent' ELSE MaxRequests
    BY <2>1, <2>3, <2>5, <2>6 DEF Moves, Holding, Recorders, Answers
  <2>8. permits' + H' = MaxConcurrent
    BY <2>1, <2>4, <2>5, <2>6 DEF Moves, Holding, Recorders, Answers
  <2>9. permits' \in 0 .. MaxConcurrent
    <3>1. PICK h \in Nat : permits' + h = MaxConcurrent
      BY <2>8, <2>A DEF H
    <3>2. permits' \in Nat
      BY <1>1 DEF CountsTyped
    <3>3. MaxConcurrent \in Nat
      BY LiveAssumption
    <3> QED BY <3>1, <3>2, <3>3, PartIsBounded
  <2> QED BY <2>7, <2>8, <2>9 DEF W, H, Budgeted, PermitsAddUp
<1>3. CASE Crash
  <2>1. InStage({"waiting"})' = {} /\ InStage(Holding)' = {}
    BY <1>3 DEF Crash, InStage, Holding, Recorders, Answers
  <2>2. /\ Cardinality(InStage({"waiting"}))' = 0
        /\ Cardinality(InStage(Holding))' = 0
    BY <2>1, FS_EmptySet
  <2>3. spent' = 0 /\ permits' = MaxConcurrent /\ upstream' = 0
    BY <1>3 DEF Crash
  <2>4. Budgeted'
    BY ONLY <2>2, <2>3, LiveAssumption DEF Budgeted
  <2>5. PermitsAddUp'
    BY ONLY <2>2, <2>3, LiveAssumption DEF PermitsAddUp
  <2> QED BY <1>1, <2>4, <2>5 DEF Accounted
<1>4. CASE UNCHANGED liveVars
  <2>1. /\ spent' = spent /\ permits' = permits /\ upstream' = upstream
        /\ pc' = pc
    BY <1>4 DEF liveVars, process
  <2>2. /\ InStage({"waiting"})' = InStage({"waiting"})
        /\ InStage(Holding)' = InStage(Holding)
    BY <2>1 DEF InStage
  <2>3. /\ Cardinality(InStage({"waiting"}))' = Cardinality(InStage({"waiting"}))
        /\ Cardinality(InStage(Holding))' = Cardinality(InStage(Holding))
    BY <2>2
  <2>4. Budgeted'
    BY ONLY <2>1, <2>3, Accounted DEF Accounted, Budgeted
  <2>5. PermitsAddUp'
    BY ONLY <2>1, <2>3, Accounted DEF Accounted, PermitsAddUp
  <2> QED BY <1>1, <2>4, <2>5 DEF Accounted
<1> QED BY <1>1, <1>2, <1>3, <1>4 DEF LiveNext, Accounted

LEMMA AlwaysAccounted == LiveSpec => []Accounted
<1>1. LiveInit => Accounted
  <2> SUFFICES ASSUME LiveInit PROVE Accounted
    OBVIOUS
  <2>1. InStage({"waiting"}) = {} /\ InStage(Holding) = {}
    BY DEF LiveInit, InStage, Holding, Recorders
  <2>2. CountsTyped
    BY LiveAssumption DEF LiveInit, CountsTyped
  <2>3. /\ Cardinality(InStage({"waiting"})) = 0
        /\ Cardinality(InStage(Holding)) = 0
    BY <2>1, FS_EmptySet
  <2>4. spent = 0 /\ permits = MaxConcurrent /\ upstream = 0
    BY DEF LiveInit
  <2>5. Budgeted
    BY ONLY <2>3, <2>4, LiveAssumption DEF Budgeted
  <2>6. PermitsAddUp
    BY ONLY <2>3, <2>4, LiveAssumption DEF PermitsAddUp
  <2> QED BY <2>2, <2>5, <2>6 DEF Accounted
<1> QED BY <1>1, NextAccounted, PTL DEF LiveSpec

\* However requests overlap, fail, time out, leave or are refused, a process
\* makes no more calls than its budget.
THEOREM BudgetIsKept == LiveSpec => []BudgetHolds
<1>1. Accounted => BudgetHolds
  <2> SUFFICES ASSUME Accounted PROVE BudgetHolds
    OBVIOUS
  <2>1. InStage({"waiting"}) \subseteq Calls
    BY DEF InStage
  <2>2. Cardinality(InStage({"waiting"})) \in Nat
    BY <2>1, LiveAssumption, FS_Subset, FS_CardinalityType
  <2> QED BY <2>2, LiveAssumption DEF Accounted, CountsTyped, Budgeted, BudgetHolds
<1> QED BY <1>1, AlwaysAccounted, PTL

\* No way out of a call loses a permit or gives one back twice.
THEOREM PermitsAreKept == LiveSpec => []PermitsAddUp
<1>1. Accounted => PermitsAddUp
  BY DEF Accounted
<1> QED BY <1>1, AlwaysAccounted, PTL

-----------------------------------------------------------------------------
(***************************************************************************)
(* The dataset.                                                            *)
(***************************************************************************)
\* These rows are the calls that were answered, each once.
Recorded(r) ==
  /\ r \in Seq(Calls)
  /\ Range(r) = InStage({"ok"})
  /\ IsInjective(r)

\* Undisturbed, one recording at a time has read the file, and what it read
\* is what the file holds or held when it was truncated.
Undisturbed ==
  /\ mixed = {}
  /\ \A c, d \in Calls :
       pc[c] \in {"create", "write"} /\ pc[d] \in {"create", "write"} => c = d
  /\ (\A c \in Calls : pc[c] # "write") => Recorded(file)
  /\ \A c \in Calls : pc[c] = "create" => rows[c] = file
  /\ \A c \in Calls : pc[c] = "write" => Recorded(rows[c])

RowsKept ==
  /\ pc \in [Calls -> {"idle", "waiting"} \cup Holding \cup Answers]
  /\ rows \in [Calls -> Seq(Calls)]
  /\ file \in Seq(Calls) \cup {Torn}
  /\ recording /\ ~disturbed => Undisturbed

\* A call that was not answered before is, and its row added at the end.
LEMMA RecordOneMore ==
  ASSUME NEW c \in Calls, NEW r, Recorded(r), pc[c] # "ok",
         InStage({"ok"})' = InStage({"ok"}) \cup {c}
  PROVE  Recorded(Append(r, c))'
<1>1. r \in Seq(Calls) /\ Range(r) = InStage({"ok"}) /\ IsInjective(r)
  BY DEF Recorded
<1>2. /\ Append(r, c) \in Seq(Calls)
      /\ Len(Append(r, c)) = Len(r) + 1
      /\ \A i \in 1 .. Len(r) : Append(r, c)[i] = r[i]
      /\ Append(r, c)[Len(r) + 1] = c
      /\ Len(r) \in Nat
      /\ DOMAIN r = 1 .. Len(r)
      /\ DOMAIN Append(r, c) = 1 .. Len(r) + 1
  BY <1>1, AppendProperties, LenProperties
<1>3. \A i \in 1 .. Len(r) : r[i] # c
  BY <1>1, <1>2 DEF Range, InStage
<1>4. Range(Append(r, c)) = Range(r) \cup {c}
  <2>1. \A i \in 1 .. Len(r) + 1 : i \in 1 .. Len(r) \/ i = Len(r) + 1
    BY <1>2
  <2>2. Len(r) + 1 \in 1 .. Len(r) + 1 /\ 1 .. Len(r) \subseteq 1 .. Len(r) + 1
    BY <1>2
  <2>3. \A x : x \in Range(Append(r, c)) <=> x \in Range(r) \cup {c}
    BY <1>2, <2>1, <2>2 DEF Range
  <2> QED BY <2>3
<1>5. IsInjective(Append(r, c))
  <2> SUFFICES ASSUME NEW i \in 1 .. Len(r) + 1, NEW j \in 1 .. Len(r) + 1,
                      Append(r, c)[i] = Append(r, c)[j]
               PROVE  i = j
    BY <1>2 DEF IsInjective
  <2>1. /\ i \in 1 .. Len(r) \/ i = Len(r) + 1
        /\ j \in 1 .. Len(r) \/ j = Len(r) + 1
    BY <1>2
  <2> QED BY <1>1, <1>2, <1>3, <2>1 DEF IsInjective
<1> QED BY <1>1, <1>2, <1>4, <1>5 DEF Recorded

\* What leaves the answered calls alone leaves rows recorded.
LEMMA RecordedStays ==
  ASSUME InStage({"ok"})' = InStage({"ok"})
  PROVE  \A r : Recorded(r) => Recorded(r)'
BY DEF Recorded

\* A step of a call outside of its recording, or that of another recording
\* that fails, disturbs none.
LEMMA ElsewhereKeepsRows ==
  ASSUME RowsKept, NEW c \in Calls, NEW stage,
         pc' = [pc EXCEPT ![c] = stage],
         pc[c] \notin {"create", "write"},
         stage \in {"idle", "waiting"} \cup Holding \cup Answers,
         stage \notin {"create", "write"},
         recording => pc[c] # "ok" /\ stage # "ok",
         UNCHANGED <<file, rows, mixed, disturbed, recording>>
  PROVE  RowsKept'
<1>1. /\ pc' \in [Calls -> {"idle", "waiting"} \cup Holding \cup Answers]
      /\ rows' \in [Calls -> Seq(Calls)] /\ file' \in Seq(Calls) \cup {Torn}
  BY DEF RowsKept
<1>2. ASSUME recording, ~disturbed PROVE Undisturbed'
  <2>1. Undisturbed /\ InStage({"ok"})' = InStage({"ok"})
    BY <1>2 DEF RowsKept, InStage
  <2>2. \A d \in Calls : /\ pc'[d] \in {"create", "write"} <=> pc[d] \in {"create", "write"}
                         /\ pc'[d] = "write" <=> pc[d] = "write"
                         /\ pc'[d] = "create" <=> pc[d] = "create"
    BY DEF RowsKept
  <2>3. \A r : Recorded(r) => Recorded(r)'
    BY <2>1, RecordedStays
  <2>4. /\ (\A d \in Calls : pc'[d] # "write") => Recorded(file)'
        /\ \A d \in Calls : pc'[d] = "write" => Recorded(rows[d])'
    BY <2>1, <2>2, <2>3 DEF Undisturbed
  <2> QED BY <2>1, <2>2, <2>4 DEF Undisturbed
<1> QED BY <1>1, <1>2 DEF RowsKept

LEMMA NextRowsKept == RowsKept /\ [LiveNext]_liveVars => RowsKept'
<1> SUFFICES ASSUME RowsKept, [LiveNext]_liveVars PROVE RowsKept'
  OBVIOUS
<1> USE DEF Goto, Leave, process, disk, Holding, Recorders, Answers
<1>1. ASSUME NEW c \in Calls,
             \/ Take(c) \/ Acquire(c) \/ Unconvertible(c) \/ Return(c)
             \/ Timeout(c) \/ Disconnect(c)
      PROVE  RowsKept'
  <2>1. UNCHANGED <<file, rows, mixed, disturbed, recording>>
    BY <1>1 DEF Take, Acquire, Unconvertible, Return, Timeout, Disconnect
  <2>2. PICK stage : /\ pc' = [pc EXCEPT ![c] = stage]
                     /\ pc[c] \in {"idle", "waiting", "calling"}
                     /\ stage \in {"waiting", "calling", "read"} \cup Answers
                     /\ stage = "ok" => ~recording
    BY <1>1 DEF Take, Acquire, Unconvertible, Return, Timeout, Disconnect
  <2> QED BY <2>1, <2>2, ElsewhereKeepsRows
<1>2. ASSUME NEW c \in Calls, ReadRows(c) PROVE RowsKept'
  <2>1. CASE file = Torn
    <3>1. UNCHANGED <<file, rows, mixed, disturbed, recording>>
      BY <1>2, <2>1 DEF ReadRows
    <3>2. pc[c] = "read" /\ pc' = [pc EXCEPT ![c] = "unrecorded"]
      BY <1>2, <2>1 DEF ReadRows
    <3> QED BY <3>1, <3>2, ElsewhereKeepsRows
  <2>2. CASE file # Torn
    <3>1. /\ pc[c] = "read" /\ pc' = [pc EXCEPT ![c] = "create"]
          /\ rows' = [rows EXCEPT ![c] = file] /\ file \in Seq(Calls)
          /\ UNCHANGED <<file, mixed, recording>>
      BY <1>2, <2>2 DEF ReadRows, RowsKept
    <3>2. /\ pc' \in [Calls -> {"idle", "waiting"} \cup Holding \cup Answers]
          /\ rows' \in [Calls -> Seq(Calls)] /\ file' \in Seq(Calls) \cup {Torn}
      BY <3>1 DEF RowsKept
    <3>3. ASSUME recording, ~disturbed' PROVE Undisturbed'
      <4>1. /\ Undisturbed
            /\ \A d \in Calls : d # c => pc[d] \notin {"create", "write"}
        BY <1>2, <2>2, <3>3 DEF ReadRows, RowsKept, Others, InStage
      <4>2. /\ InStage({"ok"})' = InStage({"ok"})
            /\ \A d \in Calls : pc'[d] \in {"create", "write"} <=> d = c
            /\ pc'[c] = "create" /\ pc[c] = "read"
            /\ rows'[c] = file
        BY <3>1, <4>1 DEF InStage, RowsKept
      <4>3. Recorded(file) /\ \A r : Recorded(r) => Recorded(r)'
        BY <4>1, <4>2, RecordedStays DEF Undisturbed
      <4>4. Recorded(file)'
        BY <3>1, <4>3
      <4> QED BY <3>1, <4>1, <4>2, <4>4 DEF Undisturbed
    <3> QED BY <3>1, <3>2, <3>3 DEF RowsKept
  <2> QED BY <2>1, <2>2
<1>3. ASSUME NEW c \in Calls, CreateFile(c) PROVE RowsKept'
  <2>1. /\ pc[c] = "create" /\ pc' = [pc EXCEPT ![c] = "write"]
        /\ file' = Torn
        /\ UNCHANGED <<rows, disturbed, recording>>
    BY <1>3 DEF CreateFile
  <2>2. /\ pc' \in [Calls -> {"idle", "waiting"} \cup Holding \cup Answers]
        /\ rows' \in [Calls -> Seq(Calls)] /\ file' \in Seq(Calls) \cup {Torn}
    BY <2>1 DEF RowsKept
  <2>3. ASSUME recording, ~disturbed PROVE Undisturbed'
    <3>1. /\ Undisturbed
          /\ \A d \in Calls : d # c => pc[d] \notin {"create", "write"}
      BY <2>1, <2>3 DEF RowsKept, Undisturbed
    <3>2. mixed' = {}
      BY <1>3, <3>1 DEF CreateFile, Others, InStage, Undisturbed
    <3>3. /\ InStage({"ok"})' = InStage({"ok"})
          /\ \A d \in Calls : pc'[d] \in {"create", "write"} <=> d = c
          /\ pc'[c] = "write" /\ rows'[c] = file
          /\ \A d \in Calls : pc[d] # "write"
      BY <2>1, <3>1 DEF InStage, RowsKept, Undisturbed
    <3>4. Recorded(file) /\ \A r : Recorded(r) => Recorded(r)'
      BY <3>1, <3>3, RecordedStays DEF Undisturbed
    <3>5. Recorded(rows[c])'
      BY <2>1, <3>3, <3>4
    <3> QED BY <3>2, <3>3, <3>5 DEF Undisturbed
  <2> QED BY <2>1, <2>2, <2>3 DEF RowsKept
<1>4. ASSUME NEW c \in Calls, CloseFile(c) PROVE RowsKept'
  <2>1. /\ pc[c] = "write" /\ pc' = [pc EXCEPT ![c] = "ok"]
        /\ file' = Append(rows[c], c) \/ (c \in mixed /\ file' = Torn)
        /\ UNCHANGED <<rows, mixed, disturbed, recording>>
    BY <1>4 DEF CloseFile
  <2>2. /\ pc' \in [Calls -> {"idle", "waiting"} \cup Holding \cup Answers]
        /\ rows' \in [Calls -> Seq(Calls)] /\ file' \in Seq(Calls) \cup {Torn}
    <3>1. rows[c] \in Seq(Calls)
      BY DEF RowsKept
    <3>2. Append(rows[c], c) \in Seq(Calls)
      BY <3>1, AppendProperties
    <3> QED BY <2>1, <3>2 DEF RowsKept
  <2>3. ASSUME recording, ~disturbed PROVE Undisturbed'
    <3>1. /\ Undisturbed /\ mixed = {}
          /\ \A d \in Calls : d # c => pc[d] \notin {"create", "write"}
      BY <2>1, <2>3 DEF RowsKept, Undisturbed
    <3>2. /\ InStage({"ok"})' = InStage({"ok"}) \cup {c}
          /\ \A d \in Calls : pc'[d] \notin {"create", "write"}
      BY <2>1, <3>1 DEF InStage, RowsKept
    <3>3. PICK r : r = rows[c]
      OBVIOUS
    <3>4. Recorded(r)
      BY <2>1, <3>1, <3>3 DEF Undisturbed
    <3>5. Recorded(Append(r, c))'
      BY <2>1, <3>2, <3>4, RecordOneMore
    <3>6. file' = Append(r, c)
      BY <2>1, <3>1, <3>3
    <3>7. Recorded(file)'
      BY <3>5, <3>6
    <3> QED BY <2>1, <3>1, <3>2, <3>7 DEF Undisturbed
  <2> QED BY <2>1, <2>2, <2>3 DEF RowsKept
<1>5. CASE Crash
  <2>1. /\ pc' = [c \in Calls |-> IF pc[c] \in {"idle"} \cup Answers THEN pc[c]
                                  ELSE "lost"]
        /\ disturbed' = (disturbed \/ InStage({"write"}) # {})
        /\ UNCHANGED <<file, rows, mixed, recording>>
    BY <1>5 DEF Crash
  <2>2. /\ pc' \in [Calls -> {"idle", "waiting"} \cup Holding \cup Answers]
        /\ rows' \in [Calls -> Seq(Calls)] /\ file' \in Seq(Calls) \cup {Torn}
    BY <2>1 DEF RowsKept
  <2>3. ASSUME recording, ~disturbed' PROVE Undisturbed'
    <3>1. /\ Undisturbed
          /\ \A d \in Calls : pc[d] # "write"
      BY <2>1, <2>3 DEF RowsKept, InStage
    <3>2. /\ InStage({"ok"})' = InStage({"ok"})
          /\ \A d \in Calls : pc'[d] \notin {"create", "write"}
      BY <2>1 DEF InStage
    <3>3. Recorded(file) /\ \A r : Recorded(r) => Recorded(r)'
      BY <3>1, <3>2, RecordedStays DEF Undisturbed
    <3>4. Recorded(file)'
      BY <2>1, <3>3
    <3> QED BY <2>1, <3>1, <3>2, <3>4 DEF Undisturbed
  <2> QED BY <2>1, <2>2, <2>3 DEF RowsKept
<1>6. CASE UNCHANGED liveVars
  BY <1>6 DEF liveVars, RowsKept, Undisturbed, Recorded, InStage
<1> QED BY <1>1, <1>2, <1>3, <1>4, <1>5, <1>6 DEF LiveNext, Serve

\* Recordings that neither overlap nor are cut off lose nothing, however many
\* there are and whatever becomes of the other calls: the file holds every
\* completion that was answered, each once (append_dataset_rows).
THEOREM RowsAreKept == LiveSpec => []UndisturbedRowsKept
<1>1. LiveInit => RowsKept
  <2> SUFFICES ASSUME LiveInit PROVE RowsKept
    OBVIOUS
  <2>1. InStage({"ok"}) = {}
    BY DEF LiveInit, InStage
  <2>2. Recorded(<<>>)
    BY <2>1 DEF Recorded, Range, IsInjective
  <2> QED BY <2>2 DEF LiveInit, RowsKept, Undisturbed
<1>2. RowsKept => UndisturbedRowsKept
  <2> SUFFICES ASSUME RowsKept, recording, ~disturbed, InStage({"write"}) = {}
               PROVE  /\ file # Torn
                      /\ Range(file) = InStage({"ok"})
                      /\ IsInjective(file)
    BY DEF UndisturbedRowsKept
  <2>1. Recorded(file)
    BY DEF RowsKept, Undisturbed, InStage
  <2> QED BY <2>1, LiveAssumption DEF Recorded
<1> QED BY <1>1, <1>2, NextRowsKept, PTL DEF LiveSpec
=============================================================================
