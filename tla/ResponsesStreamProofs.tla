------------------------ MODULE ResponsesStreamProofs ------------------------
(***************************************************************************)
(* The events of a streamed response, for any output and any fault: how    *)
(* the schedule nests, what a client has of it at each suspension, and     *)
(* where a fault cuts it.                                                  *)
(***************************************************************************)
EXTENDS ResponsesStream, DataFacts, FiniteSetTheorems, SequenceTheorems, TLAPS

(***************************************************************************)
(* The places of a schedule.  The events of item i are, in order, its      *)
(* opening (part 0), the events of its parts 1 .. PartsOf, and its closing *)
(* (part PartsOf + 1).                                                     *)
(***************************************************************************)
PartsOf(output, i) == Len(output[i].parts)

Rows(output, i) ==
  [p \in DOMAIN output[i].parts |-> PartEvents(output[i].kind, i, p, output[i].parts[p])]

\* How many events a part of an item is told in.
Width(output, i, p) == IF p \in 1 .. PartsOf(output, i) THEN output[i].parts[p] + 3 ELSE 1

\* The q-th event of a part that is told in d deltas.
PartEventAt(kind, i, p, d, q) ==
  IF q = 1 THEN Event("part.added", kind, i, p, 0)
  ELSE IF q <= d + 1 THEN Event("delta", kind, i, p, q - 1)
  ELSE IF q = d + 2 THEN Event("text.done", kind, i, p, d)
  ELSE Event("part.done", kind, i, p, 0)

EventAt(output, i, p, q) ==
  IF p = 0 THEN Event("item.added", output[i].kind, i, 0, 0)
  ELSE IF p = PartsOf(output, i) + 1 THEN Event("item.done", output[i].kind, i, 0, 0)
  ELSE PartEventAt(output[i].kind, i, p, output[i].parts[p], q)

LEMMA EventIsEvent ==
  ASSUME NEW type \in EventTypes, NEW kind \in {"response", "reasoning", "message"},
         NEW i \in Nat, NEW p \in Nat, NEW d \in Nat
  PROVE  Event(type, kind, i, p, d) \in Events
BY DEF Event, Events

LEMMA PartEventsPlaces ==
  ASSUME NEW kind \in {"reasoning", "message"}, NEW i \in Nat, NEW p \in Nat, NEW d \in Nat
  PROVE  LET e == PartEvents(kind, i, p, d)
         IN /\ e \in Seq(Events) /\ Len(e) = d + 3
            /\ \A q \in 1 .. d + 3 : e[q] = PartEventAt(kind, i, p, d, q)
<1> DEFINE first == <<Event("part.added", kind, i, p, 0)>>
           deltas == [k \in 1 .. d |-> Event("delta", kind, i, p, k)]
           last == <<Event("text.done", kind, i, p, d), Event("part.done", kind, i, p, 0)>>
<1>1. /\ Len(first) = 1
      /\ first[1] = Event("part.added", kind, i, p, 0)
  OBVIOUS
<1>2. /\ Len(deltas) = d
      /\ \A k \in 1 .. d : deltas[k] = Event("delta", kind, i, p, k)
  OBVIOUS
<1>3. /\ Len(last) = 2
      /\ last[1] = Event("text.done", kind, i, p, d)
      /\ last[2] = Event("part.done", kind, i, p, 0)
  OBVIOUS
<1>a. first \in Seq(Events) /\ deltas \in Seq(Events)
  <2>1. Event("part.added", kind, i, p, 0) \in Events
    BY EventIsEvent DEF EventTypes
  <2>2. \A k \in 1 .. d : Event("delta", kind, i, p, k) \in Events
    BY EventIsEvent DEF EventTypes
  <2> QED BY <2>1, <2>2
<1>b. last \in Seq(Events)
  <2>1. /\ Event("text.done", kind, i, p, d) \in Events
        /\ Event("part.done", kind, i, p, 0) \in Events
    BY EventIsEvent DEF EventTypes
  <2> QED BY <2>1
<1>4. PartEvents(kind, i, p, d) = (first \o deltas) \o last
  <2>1. PartEvents(kind, i, p, d) = first \o deltas \o last
    BY DEF PartEvents
  <2> QED BY <2>1
<1> HIDE DEF first, deltas, last
<1> DEFINE both == first \o deltas
           all == both \o last
<1>5. /\ both \in Seq(Events) /\ Len(both) = Len(first) + Len(deltas)
      /\ \A k \in 1 .. Len(first) : both[k] = first[k]
      /\ \A k \in 1 .. Len(deltas) : both[Len(first) + k] = deltas[k]
  BY <1>a, ConcatPlaces
<1>c. both \in Seq(Events)
  BY <1>5
<1> HIDE DEF both
<1>6. /\ all \in Seq(Events) /\ Len(all) = Len(both) + Len(last)
      /\ \A k \in 1 .. Len(both) : all[k] = both[k]
      /\ \A k \in 1 .. Len(last) : all[Len(both) + k] = last[k]
  BY <1>b, <1>c, ConcatPlaces
<1> HIDE DEF all
<1>d. Len(both) = 1 + d
  BY <1>1, <1>2, <1>5
<1>7. all[1] = Event("part.added", kind, i, p, 0)
  <2>1. 1 \in 1 .. Len(both) /\ 1 \in 1 .. Len(first)
    BY <1>1, <1>d
  <2> QED BY <1>1, <1>5, <1>6, <2>1
<1>8. \A k \in 1 .. d : all[k + 1] = Event("delta", kind, i, p, k)
  <2> SUFFICES ASSUME NEW k \in 1 .. d PROVE all[k + 1] = Event("delta", kind, i, p, k)
    OBVIOUS
  <2>1. 1 + k \in 1 .. 1 + d /\ 1 + k = k + 1
    OBVIOUS
  <2> QED BY <1>1, <1>2, <1>5, <1>6, <1>d, <2>1
<1>9. /\ all[d + 2] = Event("text.done", kind, i, p, d)
      /\ all[d + 3] = Event("part.done", kind, i, p, 0)
  <2>1. (1 + d) + 1 = d + 2 /\ (1 + d) + 2 = d + 3
    OBVIOUS
  <2>2. all[(1 + d) + 1] = last[1] /\ all[(1 + d) + 2] = last[2]
    BY <1>3, <1>6, <1>d
  <2> QED BY <1>3, <2>1, <2>2
<1>10. \A q \in 1 .. d + 3 : all[q] = PartEventAt(kind, i, p, d, q)
  <2> SUFFICES ASSUME NEW q \in 1 .. d + 3
               PROVE  all[q] = PartEventAt(kind, i, p, d, q)
    OBVIOUS
  <2>1. CASE q = 1
    BY <1>7, <2>1 DEF PartEventAt
  <2>2. CASE q # 1 /\ q <= d + 1
    <3>1. q - 1 \in 1 .. d /\ (q - 1) + 1 = q
      BY <2>2
    <3> QED BY <1>8, <2>2, <3>1 DEF PartEventAt
  <2>3. CASE q = d + 2
    BY <1>9, <2>3 DEF PartEventAt
  <2>4. CASE q = d + 3
    BY <1>9, <2>4 DEF PartEventAt
  <2> QED BY <2>1, <2>2, <2>3, <2>4
<1>11. Len(all) = d + 3
  BY <1>3, <1>6, <1>d
<1> QED BY <1>4, <1>6, <1>10, <1>11 DEF both, all

\* Where an event is among those of its item: pt[p] events of parts 1 .. p.
ItemPos(pt, p, q) == IF p = 0 THEN 1 ELSE 1 + pt[p - 1] + q

ItemPlaces(output, i, pt) ==
  LET e == ItemEvents(output, i)
      n == PartsOf(output, i)
  IN /\ e \in Seq(Events)
     /\ pt \in [0 .. n -> Nat] /\ pt[0] = 0
     /\ \A p \in 1 .. n : pt[p] = pt[p - 1] + Width(output, i, p)
     /\ \A p, r \in 0 .. n : p <= r => pt[p] <= pt[r]
     /\ Len(e) = pt[n] + 2
     /\ \A p \in 0 .. n + 1 : \A q \in 1 .. Width(output, i, p) :
          e[ItemPos(pt, p, q)] = EventAt(output, i, p, q)
     /\ \A k \in 1 .. Len(e) : \E p \in 0 .. n + 1 : \E q \in 1 .. Width(output, i, p) :
          k = ItemPos(pt, p, q)

LEMMA OutputShape ==
  ASSUME NEW output \in Seq(OutputItems), NEW i \in 1 .. Len(output)
  PROVE  /\ output[i].kind \in {"reasoning", "message"}
         /\ output[i].parts \in Seq(Nat)
         /\ PartsOf(output, i) \in Nat
         /\ DOMAIN output[i].parts = 1 .. PartsOf(output, i)
         /\ \A p \in 1 .. PartsOf(output, i) : output[i].parts[p] \in Nat
         /\ \A p \in 0 .. PartsOf(output, i) + 1 : Width(output, i, p) \in Nat
<1>1. output[i] \in OutputItems
  OBVIOUS
<1>2. /\ output[i].kind \in {"reasoning", "message"}
      /\ output[i].parts \in Seq(Nat)
  BY <1>1 DEF OutputItems
<1> QED BY <1>2 DEF PartsOf, Width

\* The events of the parts of an item.
LEMMA RowsPlaces ==
  ASSUME NEW output \in Seq(OutputItems), NEW i \in 1 .. Len(output)
  PROVE  LET rows == Rows(output, i)
         IN /\ rows \in Seq(Seq(Events)) /\ Len(rows) = PartsOf(output, i)
            /\ \A p \in 1 .. PartsOf(output, i) :
                 /\ Len(rows[p]) = Width(output, i, p)
                 /\ \A q \in 1 .. Width(output, i, p) :
                      rows[p][q] = EventAt(output, i, p, q)
<1> DEFINE n == PartsOf(output, i)
           kind == output[i].kind
           parts == output[i].parts
           row(p) == PartEvents(kind, i, p, parts[p])
<1>1. /\ kind \in {"reasoning", "message"} /\ n \in Nat
      /\ DOMAIN parts = 1 .. n
      /\ \A p \in 1 .. n : parts[p] \in Nat
  BY OutputShape
<1>2. ASSUME NEW p \in 1 .. n
      PROVE  /\ row(p) \in Seq(Events) /\ Len(row(p)) = Width(output, i, p)
             /\ \A q \in 1 .. Width(output, i, p) : row(p)[q] = EventAt(output, i, p, q)
  <2>1. /\ parts[p] \in Nat /\ i \in Nat /\ p \in Nat /\ p # 0 /\ p # n + 1
        /\ Width(output, i, p) = parts[p] + 3
    BY <1>1 DEF Width
  <2> HIDE DEF parts, kind, n
  <2>2. /\ row(p) \in Seq(Events) /\ Len(row(p)) = parts[p] + 3
        /\ \A q \in 1 .. parts[p] + 3 : row(p)[q] = PartEventAt(kind, i, p, parts[p], q)
    <3>1. PICK d \in Nat : d = parts[p]
      BY <2>1
    <3>2. /\ PartEvents(kind, i, p, d) \in Seq(Events)
          /\ Len(PartEvents(kind, i, p, d)) = d + 3
          /\ \A q \in 1 .. d + 3 :
               PartEvents(kind, i, p, d)[q] = PartEventAt(kind, i, p, d, q)
      <4>1. kind \in {"reasoning", "message"} /\ i \in Nat /\ p \in Nat /\ d \in Nat
        BY <1>1, <2>1, <3>1
      <4> QED BY ONLY <4>1, PartEventsPlaces
    <3> QED BY <3>1, <3>2 DEF row
  <2>3. \A q : EventAt(output, i, p, q) = PartEventAt(kind, i, p, parts[p], q)
    BY <2>1 DEF EventAt, n, kind, parts
  <2> HIDE DEF row
  <2> QED BY <2>1, <2>2, <2>3
<1>3. Rows(output, i) = [p \in 1 .. n |-> row(p)]
  BY <1>1 DEF Rows
<1> HIDE DEF row, n, parts, kind
<1>4. /\ Rows(output, i) \in Seq(Seq(Events)) /\ Len(Rows(output, i)) = n
      /\ \A p \in 1 .. n : Rows(output, i)[p] = row(p)
  BY <1>1, <1>2, <1>3
<1> QED BY <1>2, <1>4 DEF n

LEMMA ItemEventsPlaces ==
  ASSUME NEW output \in Seq(OutputItems), NEW i \in 1 .. Len(output)
  PROVE  \E pt : ItemPlaces(output, i, pt)
<1> DEFINE n == PartsOf(output, i)
           rows == Rows(output, i)
           middle == FlattenSeq(rows)
           first == <<Event("item.added", output[i].kind, i, 0, 0)>>
           last == <<Event("item.done", output[i].kind, i, 0, 0)>>
           all == first \o middle \o last
<1>1. /\ output[i].kind \in {"reasoning", "message"} /\ n \in Nat /\ i \in Nat
      /\ \A p \in 0 .. n + 1 : Width(output, i, p) \in Nat
  BY OutputShape
<1>2. /\ rows \in Seq(Seq(Events)) /\ Len(rows) = n
      /\ \A p \in 1 .. n :
           /\ Len(rows[p]) = Width(output, i, p)
           /\ \A q \in 1 .. Width(output, i, p) : rows[p][q] = EventAt(output, i, p, q)
  BY RowsPlaces
<1>3. ItemEvents(output, i) = all
  BY DEF ItemEvents, Rows
<1>4. first \in Seq(Events) /\ last \in Seq(Events)
  <2>1. /\ Event("item.added", output[i].kind, i, 0, 0) \in Events
        /\ Event("item.done", output[i].kind, i, 0, 0) \in Events
    BY <1>1, EventIsEvent DEF EventTypes
  <2> QED BY <2>1
<1>5. /\ Len(first) = 1 /\ first[1] = EventAt(output, i, 0, 1)
      /\ Len(last) = 1 /\ last[1] = EventAt(output, i, n + 1, 1)
  BY <1>1 DEF EventAt
<1>6. rows \in Seq(Seq(Events))
  BY <1>2
<1> HIDE DEF n, rows, first, last
<1>7. /\ middle \in Seq(Events)
      /\ \E at : /\ Offsets(rows, at)
                 /\ Len(middle) = at[Len(rows)]
                 /\ \A p \in 1 .. Len(rows) : \A q \in 1 .. Len(rows[p]) :
                      middle[at[p - 1] + q] = rows[p][q]
  BY <1>6, FlattenPlaces
<1>8. PICK pt : /\ Offsets(rows, pt)
                /\ Len(middle) = pt[Len(rows)]
                /\ \A p \in 1 .. Len(rows) : \A q \in 1 .. Len(rows[p]) :
                     middle[pt[p - 1] + q] = rows[p][q]
  BY <1>7
<1>a. middle \in Seq(Events)
  BY <1>7
<1>d. Offsets(rows, pt)
  BY <1>8
<1>b. \A p, r \in 0 .. Len(rows) : p <= r => pt[p] <= pt[r]
  BY ONLY <1>6, <1>d, OffsetsGrow
<1>c. \A k \in 1 .. pt[Len(rows)] :
        \E p \in 1 .. Len(rows) : \E q \in 1 .. Len(rows[p]) : k = pt[p - 1] + q
  <2>1. Covers(rows, pt)
    BY ONLY <1>6, <1>d, OffsetsCover
  <2> QED BY <2>1 DEF Covers
<1> HIDE DEF middle
<1>9. /\ all \in Seq(Events)
      /\ Len(all) = Len(first) + Len(middle) + Len(last)
      /\ \A k \in 1 .. Len(first) : all[k] = first[k]
      /\ \A k \in 1 .. Len(middle) : all[Len(first) + k] = middle[k]
      /\ \A k \in 1 .. Len(last) : all[Len(first) + Len(middle) + k] = last[k]
  BY <1>4, <1>a, ThreePlaces
<1> HIDE DEF all
<1>10. /\ pt \in [0 .. n -> Nat] /\ pt[0] = 0
       /\ \A p \in 1 .. n : pt[p] = pt[p - 1] + Width(output, i, p)
       /\ Len(middle) = pt[n] /\ pt[n] \in Nat
  BY <1>1, <1>2, <1>8 DEF Offsets
<1>11. Len(all) = pt[n] + 2
  BY <1>5, <1>9, <1>10
<1>12. ASSUME NEW p \in 0 .. n + 1, NEW q \in 1 .. Width(output, i, p)
       PROVE  all[ItemPos(pt, p, q)] = EventAt(output, i, p, q)
  <2>1. CASE p = 0
    <3>1. q = 1 /\ ItemPos(pt, p, q) = 1
      BY <1>1, <2>1 DEF Width, ItemPos, n
    <3>2. all[1] = first[1]
      BY <1>5, <1>9
    <3> QED BY <1>5, <2>1, <3>1, <3>2
  <2>2. CASE p \in 1 .. n
    <3>1. /\ pt[p - 1] \in Nat /\ pt[p] \in Nat /\ pt[p] <= pt[n]
          /\ pt[p] = pt[p - 1] + Width(output, i, p) /\ q \in Nat
      BY <1>1, <1>2, <1>b, <1>10, <2>2
    <3>6. q \in Nat /\ 1 <= q /\ q <= Width(output, i, p) /\ Width(output, i, p) \in Nat
      BY <1>1
    <3>2. pt[p - 1] + q \in 1 .. Len(middle)
      BY <1>10, <3>1, <3>6
    <3>3. ItemPos(pt, p, q) = 1 + (pt[p - 1] + q)
      BY <2>2, <3>1 DEF ItemPos
    <3>4. all[1 + (pt[p - 1] + q)] = middle[pt[p - 1] + q]
      BY <1>5, <1>9, <3>2
    <3>5. middle[pt[p - 1] + q] = EventAt(output, i, p, q)
      BY <1>2, <1>8, <2>2
    <3> QED BY <3>3, <3>4, <3>5
  <2>3. CASE p = n + 1
    <3>1. q = 1 /\ p # 0 /\ p - 1 = n
      BY <1>1, <2>3 DEF Width, n
    <3>2. ItemPos(pt, p, q) = 1 + pt[n] + 1
      BY <3>1 DEF ItemPos
    <3>3. all[1 + pt[n] + 1] = last[1]
      BY <1>5, <1>9, <1>10
    <3> QED BY <1>5, <2>3, <3>1, <3>2, <3>3
  <2> QED BY <1>1, <2>1, <2>2, <2>3
<1>13. ASSUME NEW k \in 1 .. Len(all)
       PROVE  \E p \in 0 .. n + 1 : \E q \in 1 .. Width(output, i, p) :
                k = ItemPos(pt, p, q)
  <2>1. CASE k = 1
    <3>1. 0 \in 0 .. n + 1 /\ 1 \in 1 .. Width(output, i, 0) /\ ItemPos(pt, 0, 1) = 1
      BY <1>1 DEF Width, ItemPos
    <3> QED BY <2>1, <3>1
  <2>2. CASE k \in 2 .. pt[n] + 1
    <3>1. k - 1 \in 1 .. pt[Len(rows)]
      BY <1>2, <1>10, <2>2
    <3>2. PICK p \in 1 .. Len(rows) : \E q \in 1 .. Len(rows[p]) : k - 1 = pt[p - 1] + q
      BY <1>c, <3>1
    <3>3. PICK q \in 1 .. Len(rows[p]) : k - 1 = pt[p - 1] + q
      BY <3>2
    <3>4. p \in 1 .. n /\ p \in 0 .. n + 1 /\ q \in 1 .. Width(output, i, p)
      BY <1>1, <1>2, <3>2, <3>3
    <3>5. pt[p - 1] \in Nat
      BY <1>1, <1>10, <3>4
    <3>6. k = ItemPos(pt, p, q)
      <4>1. p # 0 /\ k \in Int /\ q \in Int
        BY <1>1, <1>10, <2>2, <3>4
      <4>2. k = 1 + pt[p - 1] + q
        BY <3>3, <3>5, <4>1
      <4> QED BY <4>1, <4>2 DEF ItemPos
    <3> QED BY <3>4, <3>6
  <2>3. CASE k = pt[n] + 2
    <3>1. /\ n + 1 \in 0 .. n + 1 /\ 1 \in 1 .. Width(output, i, n + 1)
          /\ (n + 1) - 1 = n /\ n + 1 # 0
      BY <1>1 DEF Width, n
    <3>2. ItemPos(pt, n + 1, 1) = pt[n] + 2
      BY <1>10, <3>1 DEF ItemPos
    <3> QED BY <2>3, <3>1, <3>2
  <2> QED BY <1>10, <1>11, <2>1, <2>2, <2>3
<1>14. \A p, r \in 0 .. n : p <= r => pt[p] <= pt[r]
  BY <1>2, <1>b
<1> QED BY <1>3, <1>9, <1>10, <1>11, <1>12, <1>13, <1>14 DEF ItemPlaces, n

(***************************************************************************)
(* The whole schedule.                                                     *)
(***************************************************************************)
\* Where an event is in the schedule: at[i] events of items 1 .. i.
Pos(at, pts, i, p, q) == 2 + at[i - 1] + ItemPos(pts[i], p, q)

\* The events of a schedule that has len of them.
Middle(output, at, pts, len) ==
  /\ \A i \in 1 .. Len(output) : \A p \in 0 .. PartsOf(output, i) + 1 :
       \A q \in 1 .. Width(output, i, p) : Pos(at, pts, i, p, q) \in 3 .. len - 1
  /\ \A k \in 3 .. len - 1 :
       \E i \in 1 .. Len(output) : \E p \in 0 .. PartsOf(output, i) + 1 :
         \E q \in 1 .. Width(output, i, p) : k = Pos(at, pts, i, p, q)

\* Items and the parts of an item are told one after the other.
InOrder(output, at, pts) ==
  /\ \A i, j \in 1 .. Len(output) : i < j =>
       \A p \in 0 .. PartsOf(output, i) + 1 : \A q \in 1 .. Width(output, i, p) :
       \A r \in 0 .. PartsOf(output, j) + 1 : \A t \in 1 .. Width(output, j, r) :
         Pos(at, pts, i, p, q) < Pos(at, pts, j, r, t)
  /\ \A i \in 1 .. Len(output) : \A p, r \in 0 .. PartsOf(output, i) + 1 : p < r =>
       \A q \in 1 .. Width(output, i, p) : \A t \in 1 .. Width(output, i, r) :
         Pos(at, pts, i, p, q) < Pos(at, pts, i, r, t)
  /\ \A i \in 1 .. Len(output) : \A p \in 0 .. PartsOf(output, i) + 1 :
       \A q \in 1 .. Width(output, i, p) :
         Pos(at, pts, i, p, q) = Pos(at, pts, i, p, 1) + (q - 1)

\* The offsets of the items and of their parts.
Layout(output, at, pts) ==
  /\ at \in [0 .. Len(output) -> Nat] /\ at[0] = 0
  /\ \A i \in 1 .. Len(output) : /\ ItemPlaces(output, i, pts[i])
                                /\ at[i] = at[i - 1] + Len(ItemEvents(output, i))
  /\ \A i, j \in 0 .. Len(output) : i <= j => at[i] <= at[j]

LEMMA ItemPosInRange ==
  ASSUME NEW output \in Seq(OutputItems), NEW i \in 1 .. Len(output),
         NEW pt, ItemPlaces(output, i, pt),
         NEW p \in 0 .. PartsOf(output, i) + 1, NEW q \in 1 .. Width(output, i, p)
  PROVE  ItemPos(pt, p, q) \in 1 .. Len(ItemEvents(output, i))
<1> DEFINE n == PartsOf(output, i)
<1>1. n \in Nat /\ \A r \in 0 .. n + 1 : Width(output, i, r) \in Nat
  BY OutputShape
<1>2. /\ pt \in [0 .. n -> Nat]
      /\ \A r \in 1 .. n : pt[r] = pt[r - 1] + Width(output, i, r)
      /\ \A r, t \in 0 .. n : r <= t => pt[r] <= pt[t]
      /\ Len(ItemEvents(output, i)) = pt[n] + 2
  BY DEF ItemPlaces
<1>3. p \in 0 .. n + 1 /\ q \in Nat /\ 1 <= q /\ q <= Width(output, i, p)
      /\ Width(output, i, p) \in Nat /\ pt[n] \in Nat
  BY <1>1, <1>2
<1>4. CASE p = 0
  BY <1>2, <1>3, <1>4 DEF ItemPos
<1>5. CASE p \in 1 .. n
  <2> HIDE DEF n
  <2>1. p - 1 \in 0 .. n /\ p \in 0 .. n /\ n \in 0 .. n /\ p <= n /\ p # 0
    BY <1>1, <1>5
  <2>2. pt[p - 1] \in Nat /\ pt[p] \in Nat
    BY <1>2, <2>1
  <2>3. pt[p] <= pt[n]
    BY <1>2, <2>1
  <2>4. pt[p] = pt[p - 1] + Width(output, i, p)
    BY <1>2, <1>5
  <2>5. pt[p - 1] + q <= pt[n]
    BY <1>3, <2>2, <2>3, <2>4
  <2>6. ItemPos(pt, p, q) = 1 + pt[p - 1] + q
    BY <2>1 DEF ItemPos
  <2>7. 1 + pt[p - 1] + q \in 1 .. pt[n] + 2
    BY <1>3, <2>2, <2>5
  <2> QED BY <1>2, <2>6, <2>7
<1>6. CASE p = n + 1
  <2>1. p # 0 /\ p - 1 = n /\ q = 1
    BY <1>1, <1>3, <1>6 DEF Width
  <2> HIDE DEF n
  <2> QED BY <1>2, <1>3, <2>1 DEF ItemPos
<1> QED BY <1>1, <1>3, <1>4, <1>5, <1>6

LEMMA ItemPosOrdered ==
  ASSUME NEW output \in Seq(OutputItems), NEW i \in 1 .. Len(output),
         NEW pt, ItemPlaces(output, i, pt),
         NEW p \in 0 .. PartsOf(output, i) + 1, NEW r \in 0 .. PartsOf(output, i) + 1,
         p < r,
         NEW q \in 1 .. Width(output, i, p), NEW t \in 1 .. Width(output, i, r)
  PROVE  ItemPos(pt, p, q) < ItemPos(pt, r, t)
<1> DEFINE n == PartsOf(output, i)
<1>1. n \in Nat /\ \A m \in 0 .. n + 1 : Width(output, i, m) \in Nat
  BY OutputShape
<1>2. /\ pt \in [0 .. n -> Nat]
      /\ \A m \in 1 .. n : pt[m] = pt[m - 1] + Width(output, i, m)
      /\ \A l, m \in 0 .. n : l <= m => pt[l] <= pt[m]
  BY DEF ItemPlaces
<1>3. /\ p \in 0 .. n /\ r \in 1 .. n + 1 /\ r - 1 \in 0 .. n /\ p <= r - 1 /\ r # 0
      /\ t \in Nat /\ 1 <= t
      /\ q \in Nat /\ 1 <= q /\ q <= Width(output, i, p) /\ Width(output, i, p) \in Nat
  BY <1>1
<1>4. ItemPos(pt, r, t) = 1 + pt[r - 1] + t /\ pt[r - 1] \in Nat
  BY <1>2, <1>3 DEF ItemPos
<1>5. CASE p = 0
  <2>1. ItemPos(pt, p, q) = 1
    BY <1>5 DEF ItemPos
  <2> HIDE DEF n
  <2> QED BY <1>3, <1>4, <2>1
<1>6. CASE p # 0
  <2> HIDE DEF n
  <2>1. p - 1 \in 0 .. n /\ p \in 1 .. n
    BY <1>1, <1>3, <1>6
  <2>2. pt[p - 1] \in Nat /\ pt[p] \in Nat
    BY <1>2, <1>3, <2>1
  <2>3. pt[p] <= pt[r - 1]
    BY <1>2, <1>3
  <2>4. pt[p] = pt[p - 1] + Width(output, i, p)
    BY <1>2, <2>1
  <2>5. pt[p - 1] + q <= pt[r - 1]
    BY <1>3, <1>4, <2>2, <2>3, <2>4
  <2>6. ItemPos(pt, p, q) = 1 + pt[p - 1] + q
    BY <1>6 DEF ItemPos
  <2>7. 1 + pt[p - 1] + q < 1 + pt[r - 1] + t
    <3>1. q \in Nat /\ t \in Nat /\ 1 <= t /\ pt[p - 1] \in Nat /\ pt[r - 1] \in Nat
      BY <1>3, <1>4, <2>2
    <3> QED BY ONLY <2>5, <3>1
  <2> QED BY <1>4, <2>6, <2>7
<1> QED BY <1>5, <1>6

\* Any two items are apart, and so are any two parts of one.
LEMMA LayoutInOrder ==
  ASSUME NEW output \in Seq(OutputItems), NEW at, NEW pts, Layout(output, at, pts)
  PROVE  InOrder(output, at, pts)
<1>0. /\ at \in [0 .. Len(output) -> Nat] /\ Len(output) \in Nat
      /\ \A i \in 1 .. Len(output) : /\ ItemPlaces(output, i, pts[i])
                                    /\ at[i] = at[i - 1] + Len(ItemEvents(output, i))
      /\ \A i, j \in 0 .. Len(output) : i <= j => at[i] <= at[j]
  BY DEF Layout
<1>a. ASSUME NEW i \in 1 .. Len(output) PROVE at[i - 1] \in Nat /\ at[i] \in Nat
  <2>1. i - 1 \in 0 .. Len(output) /\ i \in 0 .. Len(output)
    BY <1>0
  <2> QED BY <1>0, <2>1
<1>1. ASSUME NEW i \in 1 .. Len(output), NEW p \in 0 .. PartsOf(output, i) + 1,
             NEW q \in 1 .. Width(output, i, p)
      PROVE  /\ Pos(at, pts, i, p, q) \in Nat
             /\ 2 + at[i - 1] < Pos(at, pts, i, p, q)
             /\ Pos(at, pts, i, p, q) <= 2 + at[i]
  <2>1. ItemPos(pts[i], p, q) \in 1 .. Len(ItemEvents(output, i))
    BY <1>0, ItemPosInRange
  <2>2. at[i - 1] \in Nat /\ at[i] \in Nat
    BY <1>a
  <2>3. at[i] = at[i - 1] + Len(ItemEvents(output, i))
    BY <1>0
  <2>4. ItemEvents(output, i) \in Seq(Events)
    BY <1>0 DEF ItemPlaces
  <2>5. Len(ItemEvents(output, i)) \in Nat
    BY <2>4
  <2> DEFINE l == Len(ItemEvents(output, i))
             m == ItemPos(pts[i], p, q)
             x == at[i - 1]
             y == at[i]
             z == Pos(at, pts, i, p, q)
  <2>6. z = 2 + x + m
    BY DEF Pos
  <2>7. m \in 1 .. l /\ l \in Nat /\ y = x + l /\ x \in Nat /\ y \in Nat
    BY <2>1, <2>2, <2>3, <2>5
  <2>8. z \in Nat /\ 2 + x < z /\ z <= 2 + y
    <3> HIDE DEF l, m, x, y, z
    <3> QED BY <2>6, <2>7
  <2> QED BY <2>8
<1>2. ASSUME NEW i \in 1 .. Len(output), NEW j \in 1 .. Len(output), i < j,
             NEW p \in 0 .. PartsOf(output, i) + 1, NEW q \in 1 .. Width(output, i, p),
             NEW r \in 0 .. PartsOf(output, j) + 1, NEW t \in 1 .. Width(output, j, r)
      PROVE  Pos(at, pts, i, p, q) < Pos(at, pts, j, r, t)
  <2>1. i \in 0 .. Len(output) /\ j - 1 \in 0 .. Len(output) /\ i <= j - 1
    BY <1>0, <1>2
  <2>2. at[i] <= at[j - 1] /\ at[i] \in Nat /\ at[j - 1] \in Nat
    BY <1>0, <2>1
  <2>3. Pos(at, pts, i, p, q) \in Nat /\ Pos(at, pts, i, p, q) <= 2 + at[i]
    BY <1>1
  <2>4. Pos(at, pts, j, r, t) \in Nat /\ 2 + at[j - 1] < Pos(at, pts, j, r, t)
    BY <1>1
  <2> QED BY ONLY <2>2, <2>3, <2>4
<1>3. ASSUME NEW i \in 1 .. Len(output),
             NEW p \in 0 .. PartsOf(output, i) + 1, NEW r \in 0 .. PartsOf(output, i) + 1,
             p < r,
             NEW q \in 1 .. Width(output, i, p), NEW t \in 1 .. Width(output, i, r)
      PROVE  Pos(at, pts, i, p, q) < Pos(at, pts, i, r, t)
  <2>1. ItemPlaces(output, i, pts[i])
    BY <1>0
  <2>2. ItemPos(pts[i], p, q) < ItemPos(pts[i], r, t)
    BY <1>3, <2>1, ItemPosOrdered
  <2>3. /\ ItemPos(pts[i], p, q) \in 1 .. Len(ItemEvents(output, i))
        /\ ItemPos(pts[i], r, t) \in 1 .. Len(ItemEvents(output, i))
    BY <2>1, ItemPosInRange
  <2>4. ItemPos(pts[i], p, q) \in Nat /\ ItemPos(pts[i], r, t) \in Nat
    BY <2>3
  <2>5. at[i - 1] \in Nat
    BY <1>a
  <2> QED BY ONLY <2>2, <2>4, <2>5 DEF Pos
<1>4. ASSUME NEW i \in 1 .. Len(output), NEW p \in 0 .. PartsOf(output, i) + 1,
             NEW q \in 1 .. Width(output, i, p)
      PROVE  Pos(at, pts, i, p, q) = Pos(at, pts, i, p, 1) + (q - 1)
  <2>1. PartsOf(output, i) \in Nat /\ Width(output, i, p) \in Nat
    BY OutputShape
  <2>4. at[i - 1] \in Nat
    BY <1>a
  <2>2. CASE p = 0
    <3>1. q = 1
      BY <2>2 DEF Width
    <3>2. Pos(at, pts, i, p, 1) \in Nat
      BY <2>2, <2>4 DEF Pos, ItemPos
    <3> QED BY <3>1, <3>2
  <2>3. CASE p # 0
    <3>1. p - 1 \in 0 .. PartsOf(output, i)
      BY <2>1, <2>3
    <3>2. pts[i] \in [0 .. PartsOf(output, i) -> Nat]
      BY <1>0 DEF ItemPlaces
    <3>3. pts[i][p - 1] \in Nat /\ q \in Nat
      BY <2>1, <3>1, <3>2
    <3> DEFINE x == at[i - 1]
               y == pts[i][p - 1]
    <3>4. /\ Pos(at, pts, i, p, q) = 2 + x + (1 + y + q)
          /\ Pos(at, pts, i, p, 1) = 2 + x + (1 + y + 1)
      BY <2>3 DEF Pos, ItemPos
    <3>5. x \in Nat /\ y \in Nat /\ q \in Nat
      BY <2>4, <3>3
    <3>6. 2 + x + (1 + y + q) = 2 + x + (1 + y + 1) + (q - 1)
      <4> HIDE DEF x, y
      <4> QED BY ONLY <3>5
    <3> QED BY <3>4, <3>6
  <2> QED BY <2>2, <2>3
<1>5. \A i, j \in 1 .. Len(output) : i < j =>
        \A p \in 0 .. PartsOf(output, i) + 1 : \A q \in 1 .. Width(output, i, p) :
        \A r \in 0 .. PartsOf(output, j) + 1 : \A t \in 1 .. Width(output, j, r) :
          Pos(at, pts, i, p, q) < Pos(at, pts, j, r, t)
  BY <1>2
<1>6. \A i \in 1 .. Len(output) : \A p, r \in 0 .. PartsOf(output, i) + 1 : p < r =>
        \A q \in 1 .. Width(output, i, p) : \A t \in 1 .. Width(output, i, r) :
          Pos(at, pts, i, p, q) < Pos(at, pts, i, r, t)
  BY <1>3
<1>7. \A i \in 1 .. Len(output) : \A p \in 0 .. PartsOf(output, i) + 1 :
        \A q \in 1 .. Width(output, i, p) :
          Pos(at, pts, i, p, q) = Pos(at, pts, i, p, 1) + (q - 1)
  BY <1>4
<1> QED BY <1>5, <1>6, <1>7 DEF InOrder

Items(output) == [item \in DOMAIN output |-> ItemEvents(output, item)]

\* The schedule, as it is put together from its items.
Unnumbered(output) ==
  <<Event("created", "response", 0, 0, 0), Event("in_progress", "response", 0, 0, 0)>>
    \o FlattenSeq(Items(output))
    \o <<Event("terminal", "response", 0, 0, 0)>>

\* What stands at each place of a schedule.
Scheduled(output, at, pts, ev) ==
  LET N == at[Len(output)] + 3
  IN /\ ev \in Seq(Events) /\ Len(ev) = N
     /\ ev[1] = Event("created", "response", 0, 0, 0)
     /\ ev[2] = Event("in_progress", "response", 0, 0, 0)
     /\ ev[N] = Event("terminal", "response", 0, 0, 0)
     /\ \A i \in 1 .. Len(output) : \A p \in 0 .. PartsOf(output, i) + 1 :
          \A q \in 1 .. Width(output, i, p) :
            ev[Pos(at, pts, i, p, q)] = EventAt(output, i, p, q)

LEMMA ItemsPlaces ==
  ASSUME NEW output \in Seq(OutputItems)
  PROVE  /\ Items(output) \in Seq(Seq(Events)) /\ Len(Items(output)) = Len(output)
         /\ \A i \in 1 .. Len(output) : Items(output)[i] = ItemEvents(output, i)
         /\ \E pts : \A i \in 1 .. Len(output) : ItemPlaces(output, i, pts[i])
<1> DEFINE pts == [i \in 1 .. Len(output) |-> CHOOSE pt : ItemPlaces(output, i, pt)]
<1>1. \A i \in 1 .. Len(output) : ItemPlaces(output, i, pts[i])
  <2> TAKE i \in 1 .. Len(output)
  <2>1. \E pt : ItemPlaces(output, i, pt)
    BY ItemEventsPlaces
  <2> QED BY <2>1
<1>2. \A i \in 1 .. Len(output) : ItemEvents(output, i) \in Seq(Events)
  BY <1>1 DEF ItemPlaces
<1>3. Items(output) = [i \in 1 .. Len(output) |-> ItemEvents(output, i)]
  BY DEF Items
<1> HIDE DEF pts
<1> QED BY <1>1, <1>2, <1>3

\* Item i's event with place m within it is the (at[i - 1] + m)-th of them all.
LEMMA ItemsLaidOut ==
  ASSUME NEW output \in Seq(OutputItems)
  PROVE  /\ FlattenSeq(Items(output)) \in Seq(Events)
         /\ \E at, pts :
              /\ Layout(output, at, pts)
              /\ Len(FlattenSeq(Items(output))) = at[Len(output)]
              /\ \A i \in 1 .. Len(output) : \A m \in 1 .. Len(ItemEvents(output, i)) :
                   FlattenSeq(Items(output))[at[i - 1] + m] = ItemEvents(output, i)[m]
              /\ \A k \in 1 .. at[Len(output)] :
                   \E i \in 1 .. Len(output) : \E m \in 1 .. Len(ItemEvents(output, i)) :
                     k = at[i - 1] + m
<1> DEFINE seqs == Items(output)
           flat == FlattenSeq(seqs)
<1>1. /\ Len(seqs) = Len(output)
      /\ \A i \in 1 .. Len(output) : seqs[i] = ItemEvents(output, i)
  BY ItemsPlaces
<1>2. PICK pts : \A i \in 1 .. Len(output) : ItemPlaces(output, i, pts[i])
  BY ItemsPlaces
<1>3. seqs \in Seq(Seq(Events))
  BY ItemsPlaces
<1> HIDE DEF seqs
<1>4. /\ flat \in Seq(Events)
      /\ \E at : /\ Offsets(seqs, at)
                 /\ Len(flat) = at[Len(seqs)]
                 /\ \A i \in 1 .. Len(seqs) : \A j \in 1 .. Len(seqs[i]) :
                      flat[at[i - 1] + j] = seqs[i][j]
  BY ONLY <1>3, FlattenPlaces
<1>5. PICK at : /\ Offsets(seqs, at)
                /\ Len(flat) = at[Len(seqs)]
                /\ \A i \in 1 .. Len(seqs) : \A j \in 1 .. Len(seqs[i]) :
                     flat[at[i - 1] + j] = seqs[i][j]
  BY <1>4
<1>6. Offsets(seqs, at)
  BY <1>5
<1>7. Covers(seqs, at)
  BY ONLY <1>3, <1>6, OffsetsCover
<1>8. \A i, l \in 0 .. Len(seqs) : i <= l => at[i] <= at[l]
  BY ONLY <1>3, <1>6, OffsetsGrow
<1>9. Layout(output, at, pts)
  BY <1>1, <1>2, <1>6, <1>8 DEF Layout, Offsets
<1>10. \A k \in 1 .. at[Len(output)] :
         \E i \in 1 .. Len(output) : \E m \in 1 .. Len(ItemEvents(output, i)) :
           k = at[i - 1] + m
  BY <1>1, <1>7 DEF Covers
<1>11. \A i \in 1 .. Len(output) : \A m \in 1 .. Len(ItemEvents(output, i)) :
         flat[at[i - 1] + m] = ItemEvents(output, i)[m]
  BY <1>1, <1>5
<1>12. Len(flat) = at[Len(output)] /\ flat \in Seq(Events)
  BY <1>1, <1>4, <1>5
<1> HIDE DEF flat
<1> QED BY <1>9, <1>10, <1>11, <1>12 DEF flat, seqs

LEMMA UnnumberedPlaces ==
  ASSUME NEW output \in Seq(OutputItems)
  PROVE  \E at, pts :
           /\ Layout(output, at, pts)
           /\ Scheduled(output, at, pts, Unnumbered(output))
           /\ Middle(output, at, pts, Len(Unnumbered(output)))
<1> DEFINE first == <<Event("created", "response", 0, 0, 0),
                      Event("in_progress", "response", 0, 0, 0)>>
           last == <<Event("terminal", "response", 0, 0, 0)>>
           flat == FlattenSeq(Items(output))
           all == first \o flat \o last
           n == Len(output)
<1>1. first \in Seq(Events) /\ last \in Seq(Events)
  <2>1. /\ Event("created", "response", 0, 0, 0) \in Events
        /\ Event("in_progress", "response", 0, 0, 0) \in Events
        /\ Event("terminal", "response", 0, 0, 0) \in Events
    BY EventIsEvent DEF EventTypes
  <2> QED BY <2>1
<1>2. /\ Len(first) = 2 /\ Len(last) = 1
      /\ first[1] = Event("created", "response", 0, 0, 0)
      /\ first[2] = Event("in_progress", "response", 0, 0, 0)
      /\ last[1] = Event("terminal", "response", 0, 0, 0)
  OBVIOUS
<1>3. PICK at, pts :
        /\ Layout(output, at, pts)
        /\ Len(flat) = at[n]
        /\ \A i \in 1 .. n : \A m \in 1 .. Len(ItemEvents(output, i)) :
             flat[at[i - 1] + m] = ItemEvents(output, i)[m]
        /\ \A k \in 1 .. at[n] :
             \E i \in 1 .. n : \E m \in 1 .. Len(ItemEvents(output, i)) : k = at[i - 1] + m
  BY ItemsLaidOut
<1>4. flat \in Seq(Events)
  BY ItemsLaidOut
<1>5. Unnumbered(output) = all
  BY DEF Unnumbered
<1> HIDE DEF first, last, flat
<1>6. /\ all \in Seq(Events)
      /\ Len(all) = Len(first) + Len(flat) + Len(last)
      /\ \A k \in 1 .. Len(first) : all[k] = first[k]
      /\ \A k \in 1 .. Len(flat) : all[Len(first) + k] = flat[k]
      /\ \A k \in 1 .. Len(last) : all[Len(first) + Len(flat) + k] = last[k]
  BY <1>1, <1>4, ThreePlaces
<1> HIDE DEF all
<1>7. /\ at \in [0 .. n -> Nat] /\ n \in Nat /\ at[n] \in Nat
      /\ \A i \in 1 .. n : ItemPlaces(output, i, pts[i])
      /\ \A i \in 1 .. n : at[i] = at[i - 1] + Len(ItemEvents(output, i))
      /\ \A i, j \in 0 .. n : i <= j => at[i] <= at[j]
  BY <1>3 DEF Layout
<1>8. Len(all) = at[n] + 3
  BY <1>2, <1>3, <1>6, <1>7
<1>9. /\ all[1] = Event("created", "response", 0, 0, 0)
      /\ all[2] = Event("in_progress", "response", 0, 0, 0)
  BY <1>2, <1>6
<1>10. all[at[n] + 3] = Event("terminal", "response", 0, 0, 0)
  <2>1. all[2 + at[n] + 1] = last[1]
    BY <1>2, <1>3, <1>6
  <2>2. 2 + at[n] + 1 = at[n] + 3
    BY <1>7
  <2> QED BY <1>2, <2>1, <2>2
\* The places of the items' events.
<1>11. ASSUME NEW i \in 1 .. n, NEW m \in 1 .. Len(ItemEvents(output, i))
       PROVE  /\ 2 + at[i - 1] + m \in 3 .. at[n] + 2
              /\ all[2 + at[i - 1] + m] = ItemEvents(output, i)[m]
  <2>1. ItemEvents(output, i) \in Seq(Events)
    BY <1>7 DEF ItemPlaces
  <2>2. /\ i - 1 \in 0 .. n /\ i \in 0 .. n /\ n \in 0 .. n /\ i <= n
    BY <1>7
  <2>3. at[i - 1] \in Nat /\ at[i] \in Nat /\ at[i] <= at[n]
    BY <1>7, <2>2
  <2> DEFINE l == Len(ItemEvents(output, i))
             x == at[i - 1]
             y == at[i]
             z == at[n]
  <2>4. /\ m \in 1 .. l /\ l \in Nat /\ x \in Nat /\ y \in Nat /\ z \in Nat
        /\ y = x + l /\ y <= z
    BY <1>7, <2>1, <2>3
  <2>5. x + m \in 1 .. z /\ 2 + x + m \in 3 .. z + 2 /\ 2 + (x + m) = 2 + x + m
    <3> HIDE DEF l, x, y, z
    <3> QED BY <2>4
  <2>6. all[2 + (at[i - 1] + m)] = flat[at[i - 1] + m]
    BY <1>2, <1>3, <1>6, <2>5
  <2>7. flat[at[i - 1] + m] = ItemEvents(output, i)[m]
    BY <1>3
  <2> QED BY <2>5, <2>6, <2>7
<1>12. ASSUME NEW i \in 1 .. n, NEW p \in 0 .. PartsOf(output, i) + 1,
              NEW q \in 1 .. Width(output, i, p)
       PROVE  /\ Pos(at, pts, i, p, q) \in 3 .. at[n] + 2
              /\ all[Pos(at, pts, i, p, q)] = EventAt(output, i, p, q)
  <2>1. ItemPlaces(output, i, pts[i])
    BY <1>7
  <2>2. ItemPos(pts[i], p, q) \in 1 .. Len(ItemEvents(output, i))
    BY <2>1, ItemPosInRange
  <2>3. ItemEvents(output, i)[ItemPos(pts[i], p, q)] = EventAt(output, i, p, q)
    BY <2>1 DEF ItemPlaces
  <2> QED BY <1>11, <2>2, <2>3 DEF Pos
<1>13. ASSUME NEW k \in 3 .. at[n] + 2
       PROVE  \E i \in 1 .. n : \E p \in 0 .. PartsOf(output, i) + 1 :
                \E q \in 1 .. Width(output, i, p) : k = Pos(at, pts, i, p, q)
  <2>1. k - 2 \in 1 .. at[n]
    BY <1>7
  <2>2. PICK i \in 1 .. n : \E m \in 1 .. Len(ItemEvents(output, i)) : k - 2 = at[i - 1] + m
    BY <1>3, <2>1
  <2>3. PICK m \in 1 .. Len(ItemEvents(output, i)) : k - 2 = at[i - 1] + m
    BY <2>2
  <2>4. PICK p \in 0 .. PartsOf(output, i) + 1 :
          \E q \in 1 .. Width(output, i, p) : m = ItemPos(pts[i], p, q)
    BY <1>7 DEF ItemPlaces
  <2>5. PICK q \in 1 .. Width(output, i, p) : m = ItemPos(pts[i], p, q)
    BY <2>4
  <2>6. k = Pos(at, pts, i, p, q)
    <3>1. i - 1 \in 0 .. n
      BY <1>7
    <3> DEFINE x == at[i - 1]
    <3>4. x \in Nat
      BY <1>7, <3>1
    <3>5. ItemEvents(output, i) \in Seq(Events)
      BY <1>7 DEF ItemPlaces
    <3>6. Len(ItemEvents(output, i)) \in Nat
      BY <3>5
    <3>7. m \in Int
      BY <3>6
    <3>8. k \in Int
      BY <1>7
    <3>2. x \in Nat /\ m \in Int /\ k \in Int /\ k - 2 = x + m
      BY <2>3, <3>4, <3>7, <3>8
    <3>3. k = 2 + x + m
      <4> HIDE DEF x
      <4> QED BY ONLY <3>2
    <3> QED BY <2>5, <3>3 DEF Pos
  <2> QED BY <2>6
<1>14. (at[n] + 3) - 1 = at[n] + 2
  BY <1>7
<1>15. Scheduled(output, at, pts, all)
  BY <1>6, <1>8, <1>9, <1>10, <1>12 DEF Scheduled
<1>16. Middle(output, at, pts, Len(all))
  BY <1>8, <1>12, <1>13, <1>14 DEF Middle
<1> QED BY <1>3, <1>5, <1>15, <1>16

LEMMA NumberedEvents ==
  ASSUME NEW events \in Seq(Events)
  PROVE  /\ Numbered(events) \in Seq(Events) /\ Len(Numbered(events)) = Len(events)
         /\ \A k \in 1 .. Len(events) :
              Numbered(events)[k] = [events[k] EXCEPT !.sequence_number = k - 1]
<1>1. ASSUME NEW k \in 1 .. Len(events)
      PROVE  [events[k] EXCEPT !.sequence_number = k - 1] \in Events
  <2>1. events[k] \in Events /\ k - 1 \in Nat
    OBVIOUS
  <2> QED BY <2>1 DEF Events
<1>2. Numbered(events)
        = [k \in 1 .. Len(events) |-> [events[k] EXCEPT !.sequence_number = k - 1]]
  BY DEF Numbered
<1> QED BY <1>1, <1>2

Place(output, i, p, q) ==
  /\ i \in 1 .. Len(output) /\ p \in 0 .. PartsOf(output, i) + 1
  /\ q \in 1 .. Width(output, i, p)

TypeAt(output, i, p, q) ==
  IF p = 0 THEN "item.added"
  ELSE IF p = PartsOf(output, i) + 1 THEN "item.done"
  ELSE IF q = 1 THEN "part.added"
  ELSE IF q <= output[i].parts[p] + 1 THEN "delta"
  ELSE IF q = output[i].parts[p] + 2 THEN "text.done" ELSE "part.done"

\* A delta's number, or how many there were once the text is done.
DeltaAt(output, i, p, q) ==
  IF q <= output[i].parts[p] + 1 THEN q - 1 ELSE output[i].parts[p]

\* A schedule: the opening, the events of the items in order, the end.
Laid(output, at, pts, ev) ==
  /\ InOrder(output, at, pts) /\ Middle(output, at, pts, Len(ev))
  /\ ev \in Seq(Events) /\ Len(ev) >= 3
  /\ \A k \in 1 .. Len(ev) : ev[k].sequence_number = k - 1
  /\ ev[1].type = "created" /\ ev[2].type = "in_progress" /\ ev[Len(ev)].type = "terminal"
  /\ ev[1].item = 0 /\ ev[2].item = 0 /\ ev[Len(ev)].item = 0
  /\ \A i, p, q : Place(output, i, p, q) =>
       LET e == ev[Pos(at, pts, i, p, q)]
       IN /\ e.type = TypeAt(output, i, p, q) /\ e.item = i
          /\ p \in 1 .. PartsOf(output, i) => e.part = p
          /\ e.type \in {"delta", "text.done"} => e.delta = DeltaAt(output, i, p, q)

LEMMA EventAtPlace ==
  ASSUME NEW output \in Seq(OutputItems), NEW i, NEW p, NEW q, Place(output, i, p, q)
  PROVE  LET e == EventAt(output, i, p, q)
         IN /\ e.type = TypeAt(output, i, p, q) /\ e.item = i
            /\ p \in 1 .. PartsOf(output, i) => e.part = p
            /\ e.type \in {"delta", "text.done"} => e.delta = DeltaAt(output, i, p, q)
<1>1. PartsOf(output, i) \in Nat /\ i \in Nat /\ p \in Nat
  BY OutputShape DEF Place
<1>2. CASE p = 0
  BY <1>1, <1>2 DEF EventAt, Event, TypeAt
<1>3. CASE p = PartsOf(output, i) + 1
  BY <1>1, <1>3 DEF EventAt, Event, TypeAt
<1>4. CASE p # 0 /\ p # PartsOf(output, i) + 1
  <2>1. PICK d \in Nat : d = output[i].parts[p]
    BY <1>1, <1>4, OutputShape DEF Place
  <2>2. q \in Nat /\ q <= d + 3 /\ q > 0
    BY <1>1, <1>4, <2>1 DEF Place, Width
  <2>3. EventAt(output, i, p, q) = PartEventAt(output[i].kind, i, p, d, q)
    BY <1>4, <2>1 DEF EventAt
  <2>4. /\ TypeAt(output, i, p, q) = IF q = 1 THEN "part.added"
                                     ELSE IF q <= d + 1 THEN "delta"
                                     ELSE IF q = d + 2 THEN "text.done" ELSE "part.done"
        /\ DeltaAt(output, i, p, q) = IF q <= d + 1 THEN q - 1 ELSE d
    BY <1>4, <2>1 DEF TypeAt, DeltaAt
  <2>5. CASE q = 1
    BY <2>3, <2>4, <2>5 DEF PartEventAt, Event
  <2>6. CASE q # 1 /\ q <= d + 1
    BY <2>3, <2>4, <2>6 DEF PartEventAt, Event
  <2>7. CASE q = d + 2
    <3>1. q # 1 /\ ~(q <= d + 1)
      BY <2>7
    <3> QED BY <2>3, <2>4, <2>7, <3>1 DEF PartEventAt, Event
  <2>8. CASE q = d + 3
    <3>1. q # 1 /\ ~(q <= d + 1) /\ q # d + 2
      BY <2>8
    <3> QED BY <2>3, <2>4, <2>8, <3>1 DEF PartEventAt, Event
  <2> QED BY <2>2, <2>5, <2>6, <2>7, <2>8
<1> QED BY <1>2, <1>3, <1>4

LEMMA ScheduleIsLaid ==
  ASSUME NEW output \in Seq(OutputItems)
  PROVE  \E at, pts : Laid(output, at, pts, ResponseSchedule(output))
<1> DEFINE plain == Unnumbered(output)
           ev == ResponseSchedule(output)
<1>1. PICK at, pts : /\ Layout(output, at, pts)
                     /\ Scheduled(output, at, pts, plain)
                     /\ Middle(output, at, pts, Len(plain))
  BY UnnumberedPlaces
<1>2. ev = Numbered(plain)
  BY DEF ResponseSchedule, Unnumbered, Items
<1> HIDE DEF plain
<1>3. /\ plain \in Seq(Events) /\ Len(plain) = at[Len(output)] + 3
      /\ plain[1] = Event("created", "response", 0, 0, 0)
      /\ plain[2] = Event("in_progress", "response", 0, 0, 0)
      /\ plain[at[Len(output)] + 3] = Event("terminal", "response", 0, 0, 0)
  BY <1>1 DEF Scheduled
<1>4. plain \in Seq(Events)
  BY <1>3
<1>5. /\ ev \in Seq(Events) /\ Len(ev) = Len(plain)
      /\ \A k \in 1 .. Len(plain) : ev[k] = [plain[k] EXCEPT !.sequence_number = k - 1]
  BY ONLY <1>2, <1>4, NumberedEvents
<1> HIDE DEF ev
<1>6. \A k \in 1 .. Len(ev) :
        /\ ev[k].sequence_number = k - 1 /\ ev[k].type = plain[k].type
        /\ ev[k].item = plain[k].item /\ ev[k].part = plain[k].part
        /\ ev[k].delta = plain[k].delta
  <2> SUFFICES ASSUME NEW k \in 1 .. Len(ev)
               PROVE  /\ ev[k].sequence_number = k - 1 /\ ev[k].type = plain[k].type
                      /\ ev[k].item = plain[k].item /\ ev[k].part = plain[k].part
                      /\ ev[k].delta = plain[k].delta
    OBVIOUS
  <2>1. plain[k] \in Events /\ ev[k] = [plain[k] EXCEPT !.sequence_number = k - 1]
    BY <1>4, <1>5
  <2> QED BY <2>1 DEF Events
<1>7. at[Len(output)] \in Nat
  BY <1>1 DEF Layout
<1>8. Len(ev) >= 3 /\ 1 \in 1 .. Len(ev) /\ 2 \in 1 .. Len(ev) /\ Len(ev) \in 1 .. Len(ev)
  BY <1>3, <1>5, <1>7
<1>9. /\ ev[1].type = "created" /\ ev[1].item = 0
      /\ ev[2].type = "in_progress" /\ ev[2].item = 0
      /\ ev[Len(ev)].type = "terminal" /\ ev[Len(ev)].item = 0
  <2>1. /\ plain[1].type = "created" /\ plain[1].item = 0
        /\ plain[2].type = "in_progress" /\ plain[2].item = 0
    BY <1>3 DEF Event
  <2>2. plain[Len(ev)].type = "terminal" /\ plain[Len(ev)].item = 0
    BY <1>3, <1>5 DEF Event
  <2>3. \A k \in 1 .. Len(ev) : ev[k].type = plain[k].type /\ ev[k].item = plain[k].item
    BY <1>6
  <2> QED BY <1>8, <2>1, <2>2, <2>3
<1>10. InOrder(output, at, pts)
  BY <1>1, LayoutInOrder
<1>11. Middle(output, at, pts, Len(ev))
  BY <1>1, <1>5
<1>12. ASSUME NEW i, NEW p, NEW q, Place(output, i, p, q)
       PROVE  LET e == ev[Pos(at, pts, i, p, q)]
              IN /\ e.type = TypeAt(output, i, p, q) /\ e.item = i
                 /\ p \in 1 .. PartsOf(output, i) => e.part = p
                 /\ e.type \in {"delta", "text.done"} => e.delta = DeltaAt(output, i, p, q)
  <2>1. Pos(at, pts, i, p, q) \in 3 .. Len(ev) - 1
    BY <1>11, <1>12 DEF Middle, Place
  <2>2. Pos(at, pts, i, p, q) \in 1 .. Len(ev)
    <3>1. Len(ev) \in Nat
      BY <1>5
    <3> QED BY <2>1, <3>1
  <2>3. plain[Pos(at, pts, i, p, q)] = EventAt(output, i, p, q)
    BY <1>1, <1>12 DEF Scheduled, Place
  <2> QED BY <1>6, <1>12, <2>2, <2>3, EventAtPlace
<1>13. ev \in Seq(Events) /\ \A k \in 1 .. Len(ev) : ev[k].sequence_number = k - 1
  BY <1>5, <1>6
<1>14. Laid(output, at, pts, ev)
  BY <1>8, <1>9, <1>10, <1>11, <1>12, <1>13 DEF Laid
<1> QED BY <1>14 DEF ev

\* A place is neither an end nor an error.
LEMMA PlaceTypes ==
  ASSUME NEW output \in Seq(OutputItems), NEW i, NEW p, NEW q
  PROVE  TypeAt(output, i, p, q) \in
           {"item.added", "part.added", "delta", "text.done", "part.done", "item.done"}
BY DEF TypeAt

LEMMA ScheduleShape ==
  ASSUME NEW p \in Plans
  PROVE  /\ p.events \in Seq(Events) /\ Len(p.events) \in Nat /\ Len(p.events) >= 3
         /\ \A k \in 1 .. Len(p.events) :
              /\ p.events[k].type # "error"
              /\ p.events[k].type = "terminal" <=> k = Len(p.events)
<1> DEFINE output == p.output
           ev == p.events
<1>1. output \in Seq(OutputItems) /\ ev = ResponseSchedule(output)
  BY PlanAssumption
<1> HIDE DEF output, ev
<1>2. PICK at, pts : Laid(output, at, pts, ev)
  BY <1>1, ScheduleIsLaid
<1>3. ev \in Seq(Events) /\ Len(ev) \in Nat /\ Len(ev) >= 3
  <2>1. ev \in Seq(Events) /\ Len(ev) >= 3
    BY <1>2 DEF Laid
  <2> QED BY <2>1
<1>4. ASSUME NEW k \in 1 .. Len(ev)
      PROVE  ev[k].type # "error" /\ (ev[k].type = "terminal" <=> k = Len(ev))
  <2>1. CASE k \in 3 .. Len(ev) - 1
    <3>1. PICK i \in 1 .. Len(output) : \E r \in 0 .. PartsOf(output, i) + 1 :
            \E q \in 1 .. Width(output, i, r) : k = Pos(at, pts, i, r, q)
      BY <1>2, <2>1 DEF Laid, Middle
    <3>2. PICK r, q : Place(output, i, r, q) /\ k = Pos(at, pts, i, r, q)
      BY <3>1 DEF Place
    <3>3. ev[k].type = TypeAt(output, i, r, q)
      BY <1>2, <3>2 DEF Laid
    <3>4. k # Len(ev)
      BY <1>3, <2>1
    <3> QED BY <1>1, <3>3, <3>4, PlaceTypes
  <2>2. CASE k \in {1, 2}
    <3>1. ev[k].type \in {"created", "in_progress"} /\ k # Len(ev)
      BY <1>2, <1>3, <2>2 DEF Laid
    <3> QED BY <3>1
  <2>3. CASE k = Len(ev)
    BY <1>2, <2>3 DEF Laid
  <2>4. k \in 3 .. Len(ev) - 1 \/ k \in {1, 2} \/ k = Len(ev)
    BY <1>3
  <2> QED BY <2>1, <2>2, <2>3, <2>4
<1> QED BY <1>3, <1>4 DEF ev

-----------------------------------------------------------------------------
(***************************************************************************)
(* The shape of what was sent, at each suspension, and where the fault     *)
(* stands to it.                                                           *)
(***************************************************************************)
Total(p) == Len(p.events)

\* The first n events are those of the schedule.
Tells(p, o, n) == \A k \in 1 .. n : o[k] = p.events[k]

Telling(p, o) == Len(o) <= Total(p) /\ Tells(p, o, Len(o))

\* ... and there is more to tell.
InLoop(p, o) == Telling(p, o) /\ Len(o) < Total(p)

\* A fault that fires and ends the stream did not strike at the first n heads.
Passed(p, fire, n) ==
  fire /\ p.fault.kind \in {"drop", "sse_error"} =>
    \A k \in 0 .. Total(p) - 1 : k < n => FaultTrigger(p) # k

\* The last event reports a failure, in the place of an event of the schedule,
\* where the fault is addressed.
Failed(p, o) ==
  /\ Len(o) \in 1 .. Total(p)
  /\ FaultTrigger(p) = Len(o) - 1
  /\ o[Len(o)] = ErrorEvent(Len(o) - 1)
  /\ Tells(p, o, Len(o) - 1)

Complete(p, o) == Telling(p, o) /\ Len(o) = Total(p)
CutOff(p, fire, o) ==
  /\ fire /\ p.fault.kind = "drop" /\ FaultTrigger(p) = Len(o)
  /\ InLoop(p, o)

Shape(p, where, fire, o) ==
  /\ where \in {"refused", "created", "ttft"} => o = <<>>
  /\ where \in {"stall", "gap"} => InLoop(p, o) /\ Passed(p, fire, Len(o) + 1)
  /\ where = "yield" => Telling(p, o) /\ Passed(p, fire, Len(o))
  /\ where = "error" => Failed(p, o)
  /\ where = "ended" => Complete(p, o) \/ Failed(p, o) \/ CutOff(p, fire, o)
  /\ where = "dropped" => Telling(p, o) \/ Failed(p, o)

Shaped ==
  \A s \in Streams :
    /\ pc[s] = "new" => out[s] = <<>>
    /\ plan[s] # None => Shape(plan[s], pc[s], fires[s], out[s])

LEMMA ErrorIsEvent ==
  ASSUME NEW n \in Nat
  PROVE  /\ ErrorEvent(n) \in Events /\ ErrorEvent(n).type = "error"
         /\ ErrorEvent(n).item = 0 /\ ErrorEvent(n).sequence_number = n
BY DEF ErrorEvent, Event, Events, EventTypes

LEMMA EmptyTells ==
  ASSUME NEW p \in Plans
  PROVE  InLoop(p, <<>>)
BY ScheduleShape DEF InLoop, Telling, Tells, Total

\* One more event of the schedule.
LEMMA TellOneMore ==
  ASSUME NEW p \in Plans, NEW o \in Seq(Events), InLoop(p, o)
  PROVE  LET o2 == Append(o, p.events[Len(o) + 1])
         IN  /\ p.events[Len(o) + 1] \in Events
             /\ o2 \in Seq(Events) /\ Len(o2) = Len(o) + 1 /\ Telling(p, o2)
<1> DEFINE w == p.events
<1>1. w \in Seq(Events) /\ Len(w) \in Nat
  BY ScheduleShape
<1>2. Len(o) \in Nat /\ Len(o) < Len(w) /\ \A k \in 1 .. Len(o) : o[k] = w[k]
  BY DEF InLoop, Telling, Tells, Total
<1> HIDE DEF w
<1>3. Len(o) + 1 \in 1 .. Len(w)
  BY <1>1, <1>2
<1>4. w[Len(o) + 1] \in Events
  BY <1>1, <1>3
<1>5. /\ Append(o, w[Len(o) + 1]) \in Seq(Events)
      /\ Len(Append(o, w[Len(o) + 1])) = Len(o) + 1
      /\ \A k \in 1 .. Len(o) : Append(o, w[Len(o) + 1])[k] = o[k]
      /\ Append(o, w[Len(o) + 1])[Len(o) + 1] = w[Len(o) + 1]
  BY <1>2, <1>4, AppendProperties
<1>6. \A k \in 1 .. Len(o) + 1 : Append(o, w[Len(o) + 1])[k] = w[k]
  <2> SUFFICES ASSUME NEW k \in 1 .. Len(o) + 1
               PROVE  Append(o, w[Len(o) + 1])[k] = w[k]
    OBVIOUS
  <2>1. k \in 1 .. Len(o) \/ k = Len(o) + 1
    BY <1>2
  <2> QED BY <1>2, <1>5, <2>1
<1> QED BY <1>1, <1>3, <1>4, <1>5, <1>6 DEF Telling, Tells, Total, w

\* A failure in the place of an event.
LEMMA TellFailure ==
  ASSUME NEW p \in Plans, NEW o \in Seq(Events), InLoop(p, o),
         FaultTrigger(p) = Len(o)
  PROVE  LET o2 == Append(o, ErrorEvent(Len(o)))
         IN  o2 \in Seq(Events) /\ Failed(p, o2)
<1>1. Len(o) \in Nat /\ Total(p) \in Nat /\ Len(o) < Total(p)
  BY ScheduleShape DEF InLoop, Total
<1> DEFINE e == ErrorEvent(Len(o))
<1>2. e \in Events
  BY <1>1, ErrorIsEvent
<1> HIDE DEF e
<1>3. /\ Append(o, e) \in Seq(Events) /\ Len(Append(o, e)) = Len(o) + 1
      /\ \A k \in 1 .. Len(o) : Append(o, e)[k] = o[k]
      /\ Append(o, e)[Len(o) + 1] = e
  BY <1>1, <1>2, AppendProperties
<1>4. \A k \in 1 .. Len(o) : o[k] = p.events[k]
  BY DEF InLoop, Telling, Tells
<1>5. (Len(o) + 1) - 1 = Len(o) /\ Len(o) + 1 \in 1 .. Total(p)
  BY <1>1
<1>6. Failed(p, Append(o, e))
  BY <1>3, <1>4, <1>5 DEF Failed, Tells, e
<1> QED BY <1>3, <1>6 DEF e

-----------------------------------------------------------------------------
(***************************************************************************)
(* What a poll does to its stream.                                         *)
(***************************************************************************)
LEMMA OutcomesAreBoolean ==
  ASSUME NEW fault
  PROVE  Outcomes(fault) \subseteq BOOLEAN
<1>1. CASE fault.kind = "none" \/ fault.rate = "never"
  BY <1>1 DEF Outcomes
<1>2. CASE ~(fault.kind = "none" \/ fault.rate = "never") /\ fault.rate = "always"
  BY <1>2 DEF Outcomes
<1>3. CASE ~(fault.kind = "none" \/ fault.rate = "never") /\ fault.rate # "always"
  BY <1>3 DEF Outcomes
<1> QED BY <1>1, <1>2, <1>3

\* A stream in a good shape at where, once it has sent o.
Good(p, where, fire, o) ==
  /\ where \in Started \cup {"ended"}
  /\ o \in Seq(Events)
  /\ Shape(p, where, fire, o)

\* s goes from its suspension to another, with at most one event more.
Moves(s, where, o) ==
  /\ pc' = [pc EXCEPT ![s] = where]
  /\ out' = [out EXCEPT ![s] = o]
  /\ \/ o = out[s]
     \/ where # "ended" /\ \E event \in Events : o = Append(out[s], event)

LEMMA YieldNextShape ==
  ASSUME NEW s \in Streams, NEW fire, plan[s] \in Plans,
         out \in [Streams -> Seq(Events)], InLoop(plan[s], out[s]),
         Passed(plan[s], fire, Len(out[s]) + 1),
         Yield(s, NextEvent(s), "yield")
  PROVE  \E where, o : Moves(s, where, o) /\ Good(plan[s], where, fire, o)
<1> DEFINE p == plan[s]
           o == out[s]
           o2 == Append(o, p.events[Len(o) + 1])
<1>1. p \in Plans /\ o \in Seq(Events) /\ InLoop(p, o) /\ Passed(p, fire, Len(o) + 1)
  OBVIOUS
<1>2. /\ p.events[Len(o) + 1] \in Events
      /\ o2 \in Seq(Events) /\ Len(o2) = Len(o) + 1 /\ Telling(p, o2)
  <2> HIDE DEF p, o
  <2> QED BY <1>1, TellOneMore
<1>3. Moves(s, "yield", o2)
  BY <1>2 DEF Yield, Moves, NextEvent
<1> HIDE DEF p, o, o2
<1>4. Good(p, "yield", fire, o2)
  BY <1>1, <1>2 DEF Good, Shape, Started
<1> QED BY <1>3, <1>4 DEF p

LEMMA PaceShape ==
  ASSUME NEW s \in Streams, NEW fire, plan[s] \in Plans,
         out \in [Streams -> Seq(Events)], InLoop(plan[s], out[s]),
         Passed(plan[s], fire, Len(out[s]) + 1), Pace(s)
  PROVE  \E where, o : Moves(s, where, o) /\ Good(plan[s], where, fire, o)
<1> DEFINE p == plan[s]
           o == out[s]
<1>1. /\ p \in Plans /\ o \in Seq(Events) /\ InLoop(p, o)
      /\ Passed(p, fire, Len(o) + 1)
  OBVIOUS
<1>2. CASE Suspend(s, "gap")
  <2>1. Moves(s, "gap", o)
    BY <1>2 DEF Suspend, Moves
  <2>2. Good(p, "gap", fire, o)
    BY <1>1 DEF Good, Shape, Started
  <2> QED BY <2>1, <2>2
<1>3. CASE Yield(s, NextEvent(s), "yield")
  BY <1>1, <1>3, YieldNextShape
<1> QED BY <1>2, <1>3 DEF Pace

LEMMA IterateShape ==
  ASSUME NEW s \in Streams, NEW fire \in BOOLEAN, plan[s] \in Plans,
         out \in [Streams -> Seq(Events)], InLoop(plan[s], out[s]),
         Passed(plan[s], fire, Len(out[s])), Iterate(s, fire)
  PROVE  \E where, o : Moves(s, where, o) /\ Good(plan[s], where, fire, o)
<1> DEFINE p == plan[s]
           o == out[s]
<1>1. /\ p \in Plans /\ o \in Seq(Events) /\ Len(o) \in Nat
      /\ InLoop(p, o) /\ Passed(p, fire, Len(o))
  OBVIOUS
<1> DEFINE strikes == fire /\ FaultTrigger(p) = Len(o)
<1>2. CASE strikes /\ p.fault.kind = "drop" /\ Finish(s)
  <2>1. Moves(s, "ended", o)
    BY <1>2 DEF Finish, Moves
  <2>2. Good(p, "ended", fire, o)
    BY <1>1, <1>2 DEF Good, Shape, CutOff
  <2> QED BY <2>1, <2>2
<1>3. CASE strikes /\ Yield(s, ErrorEvent(Len(o)), "error")
  <2>1. Moves(s, "error", Append(o, ErrorEvent(Len(o))))
    <3>1. ErrorEvent(Len(o)) \in Events
      BY <1>1, ErrorIsEvent
    <3> QED BY <1>3, <3>1 DEF Yield, Moves
  <2>2. Good(p, "error", fire, Append(o, ErrorEvent(Len(o))))
    <3>1. FaultTrigger(p) = Len(o)
      BY <1>3
    <3> HIDE DEF p, o
    <3> QED BY <1>1, <3>1, TellFailure DEF Good, Shape, Started
  <2> QED BY <2>1, <2>2
<1>4. CASE p.fault.kind = "stall" /\ Suspend(s, "stall")
  <2>1. Moves(s, "stall", o)
    BY <1>4 DEF Suspend, Moves
  <2>2. Good(p, "stall", fire, o)
    BY <1>1, <1>4 DEF Good, Shape, Started, Passed
  <2> QED BY <2>1, <2>2
<1>5. CASE ~(strikes /\ p.fault.kind \in {"drop", "sse_error", "stall"}) /\ Pace(s)
  <2>1. Passed(p, fire, Len(o) + 1)
    <3> SUFFICES ASSUME fire, p.fault.kind \in {"drop", "sse_error"},
                        NEW k \in 0 .. Total(p) - 1, k < Len(o) + 1
                 PROVE  FaultTrigger(p) # k
      BY DEF Passed
    <3>1. k < Len(o) \/ k = Len(o)
      BY <1>1
    <3> QED BY <1>1, <1>5, <3>1 DEF Passed
  <2> QED BY <1>5, <2>1, PaceShape
<1> QED BY <1>2, <1>3, <1>4, <1>5 DEF Iterate

\* The draw is kept from the first poll on.
Drawn(s) ==
  /\ fires'[s] \in BOOLEAN
  /\ fires' = [fires EXCEPT ![s] = fires'[s]]

LEMMA PollShape ==
  ASSUME TypeOK, Shaped, NEW s \in Streams, Poll(s)
  PROVE  /\ pc[s] \in Started \cup {"created"}
         /\ plan[s] \in Plans
         /\ UNCHANGED <<plan, metrics>>
         /\ Drawn(s)
         /\ \E where, o : Moves(s, where, o) /\ Good(plan[s], where, fires'[s], o)
<1> DEFINE P == plan[s]
           O == out[s]
<1>1. /\ out \in [Streams -> Seq(Events)] /\ fires \in [Streams -> BOOLEAN \cup {None}]
      /\ plan[s] \in Plans \cup {None} /\ (plan[s] = None) = (pc[s] = "new")
      /\ pc[s] \in Started => fires[s] \in BOOLEAN
  BY DEF TypeOK, Events
<1>2. pc[s] \in Started \cup {"created"}
  BY DEF Poll, Start, Wake, Resume, Started
<1>3. P \in Plans /\ O \in Seq(Events)
  <2>1. pc[s] # "new"
    BY <1>2 DEF Started
  <2> QED BY <1>1, <2>1
<1>4. Shape(P, pc[s], fires[s], O)
  BY <1>3, NoneAssumption DEF Shaped
<1>5. ASSUME NEW fire, pc[s] \in {"created", "ttft"}
      PROVE  InLoop(P, O) /\ Passed(P, fire, Len(O))
  <2>1. O = <<>> /\ Len(O) = 0
    BY <1>4, <1>5 DEF Shape
  <2>2. Total(P) \in Nat
    BY <1>3, ScheduleShape DEF Total
  <2>3. Passed(P, fire, 0)
    BY <2>2 DEF Passed
  <2> QED BY <1>3, <2>1, <2>3, EmptyTells
<1>6. CASE Start(s)
  <2>1. PICK fire \in Outcomes(plan[s].fault) :
          /\ fires' = [fires EXCEPT ![s] = fire]
          /\ IF plan[s].ttft THEN Suspend(s, "ttft") ELSE Iterate(s, fire)
    BY <1>6 DEF Start
  <2>2. fire \in BOOLEAN
    BY OutcomesAreBoolean
  <2>3. fires'[s] = fire /\ UNCHANGED <<plan, metrics>> /\ pc[s] = "created"
    BY <1>1, <1>6, <2>1 DEF Start
  <2>4. CASE Suspend(s, "ttft")
    <3>1. Moves(s, "ttft", O)
      BY <1>1, <2>4 DEF Suspend, Moves
    <3>2. Good(P, "ttft", fire, O)
      BY <1>3, <1>4, <2>3 DEF Good, Shape, Started
    <3> QED BY <1>2, <1>3, <2>1, <2>2, <2>3, <3>1, <3>2 DEF Drawn
  <2>5. CASE Iterate(s, fire)
    <3>1. \E where, o : Moves(s, where, o) /\ Good(plan[s], where, fire, o)
      BY <1>1, <1>3, <1>5, <2>2, <2>3, <2>5, IterateShape
    <3> QED BY <1>2, <1>3, <2>1, <2>2, <2>3, <3>1 DEF Drawn
  <2> QED BY <2>1, <2>4, <2>5
<1>7. CASE Wake(s) \/ Resume(s)
  <2>1. UNCHANGED <<plan, fires, metrics>> /\ pc[s] \in Started
    BY <1>7 DEF Wake, Resume, Started
  <2>2. fires[s] \in BOOLEAN
    BY <1>1, <2>1
  <2>3. Drawn(s) /\ fires'[s] = fires[s]
    BY <1>1, <2>1, <2>2 DEF Drawn
  <2>4. CASE pc[s] = "ttft" /\ Iterate(s, fires[s])
    <3>1. InLoop(P, O) /\ Passed(P, fires[s], Len(O))
      BY <1>5, <2>4
    <3> QED BY <1>1, <1>2, <1>3, <2>1, <2>2, <2>3, <2>4, <3>1, IterateShape
  <2>5. CASE pc[s] = "stall" /\ Pace(s)
    <3>1. InLoop(P, O) /\ Passed(P, fires[s], Len(O) + 1)
      BY <1>4, <2>5 DEF Shape
    <3> QED BY <1>1, <1>2, <1>3, <2>1, <2>3, <2>5, <3>1, PaceShape
  <2>6. CASE pc[s] = "gap" /\ Yield(s, NextEvent(s), "yield")
    <3>1. InLoop(P, O) /\ Passed(P, fires[s], Len(O) + 1)
      BY <1>4, <2>6 DEF Shape
    <3> QED BY <1>1, <1>2, <1>3, <2>1, <2>3, <2>6, <3>1, YieldNextShape
  <2>7. CASE pc[s] = "yield" /\ Len(O) < Len(P.events) /\ Iterate(s, fires[s])
    <3>1. InLoop(P, O) /\ Passed(P, fires[s], Len(O))
      BY <1>4, <2>7 DEF Shape, InLoop, Total
    <3> QED BY <1>1, <1>2, <1>3, <2>1, <2>2, <2>3, <2>7, <3>1, IterateShape
  <2>8. CASE pc[s] = "yield" /\ Len(O) = Len(P.events) /\ Finish(s)
    <3>1. Moves(s, "ended", O)
      BY <1>1, <2>8 DEF Finish, Moves
    <3>2. Good(P, "ended", fires[s], O)
      BY <1>3, <1>4, <2>8 DEF Good, Shape, Complete, Total
    <3> QED BY <1>2, <1>3, <2>1, <2>3, <3>1, <3>2
  <2>9. CASE pc[s] = "error" /\ Finish(s)
    <3>1. Moves(s, "ended", O)
      BY <1>1, <2>9 DEF Finish, Moves
    <3>2. Good(P, "ended", fires[s], O)
      BY <1>3, <1>4, <2>9 DEF Good, Shape
    <3> QED BY <1>2, <1>3, <2>1, <2>3, <3>1, <3>2
  <2> QED BY <1>7, <2>4, <2>5, <2>6, <2>7, <2>8, <2>9 DEF Wake, Resume
<1> QED BY <1>6, <1>7 DEF Poll

-----------------------------------------------------------------------------
(***************************************************************************)
(* Types and shapes.                                                       *)
(***************************************************************************)
Counters == [streams : Nat, cancelled : Nat, faults : Nat]

LEMMA CountingUp ==
  ASSUME NEW m \in Counters
  PROVE  /\ [m EXCEPT !.streams = @ + 1] \in Counters
         /\ [m EXCEPT !.cancelled = @ + 1] \in Counters
         /\ [m EXCEPT !.faults = @ + 1] \in Counters
BY DEF Counters

LEMMA InitShaped == Init => TypeOK /\ Shaped
<1> SUFFICES ASSUME Init PROVE TypeOK /\ Shaped
  OBVIOUS
<1>1. TypeOK
  BY DEF Init, TypeOK, Started
<1>2. Shaped
  BY DEF Init, Shaped
<1> QED BY <1>1, <1>2

LEMMA NextShaped == TypeOK /\ Shaped /\ [Next]_vars => TypeOK' /\ Shaped'
<1> SUFFICES ASSUME TypeOK, Shaped, [Next]_vars PROVE TypeOK' /\ Shaped'
  OBVIOUS
<1> USE NoneAssumption
<1>1. ASSUME NEW s \in Streams, HttpError(s) \/ OpenStream(s) \/ Conflict(s)
      PROVE  TypeOK' /\ Shaped'
  <2>1. PICK p \in Plans, where \in {"refused", "created"} :
          plan' = [plan EXCEPT ![s] = p] /\ pc' = [pc EXCEPT ![s] = where]
    BY <1>1 DEF HttpError, OpenStream, Conflict, Count
  <2>2. pc[s] = "new" /\ UNCHANGED <<fires, out>>
    BY <1>1 DEF HttpError, OpenStream, Conflict, Count
  <2>3. metrics' \in Counters
    BY <1>1, CountingUp DEF HttpError, OpenStream, Conflict, Count, TypeOK, Counters
  <2>4. /\ pc' \in [Streams -> {"new", "refused", "created", "ended", "dropped"} \cup Started]
        /\ plan' \in [Streams -> Plans \cup {None}]
        /\ \A u \in Streams : (plan'[u] = None) = (pc'[u] = "new")
    BY <2>1, <2>2 DEF TypeOK
  <2>5. \A u \in Streams :
          /\ pc'[u] \in Started \cup {"ended"} => fires'[u] \in BOOLEAN
          /\ pc'[u] \in {"new", "refused", "created"} => fires'[u] = None
    BY <2>1, <2>2 DEF TypeOK, Started
  <2>6. TypeOK'
    BY <2>2, <2>3, <2>4, <2>5 DEF TypeOK, Counters
  <2>7. Shaped'
    BY <2>1, <2>2 DEF TypeOK, Shaped, Shape
  <2> QED BY <2>6, <2>7
<1>2. ASSUME NEW s \in Streams, Poll(s) PROVE TypeOK' /\ Shaped'
  <2>1. /\ pc[s] \in Started \cup {"created"}
        /\ plan[s] \in Plans
        /\ UNCHANGED <<plan, metrics>>
        /\ Drawn(s)
    BY <1>2, PollShape
  <2>2. PICK where, o : Moves(s, where, o) /\ Good(plan[s], where, fires'[s], o)
    BY <1>2, PollShape
  <2>3. /\ where \in Started \cup {"ended"} /\ o \in Seq(Events)
        /\ Shape(plan[s], where, fires'[s], o)
    BY <2>2 DEF Good
  <2>4. TypeOK'
    BY <2>1, <2>2, <2>3 DEF TypeOK, Moves, Drawn, Started, Events
  <2>5. ASSUME NEW u \in Streams
        PROVE  /\ pc'[u] = "new" => out'[u] = <<>>
               /\ plan'[u] # None => Shape(plan'[u], pc'[u], fires'[u], out'[u])
    <3>1. CASE u = s
      <4>1. pc'[s] = where /\ out'[s] = o /\ plan' = plan
        BY <2>1, <2>2 DEF Moves, TypeOK
      <4> QED BY <2>3, <3>1, <4>1 DEF Started
    <3>2. CASE u # s
      <4>1. pc'[u] = pc[u] /\ out'[u] = out[u] /\ plan' = plan /\ fires'[u] = fires[u]
        BY <2>1, <2>2, <3>2 DEF Moves, TypeOK, Drawn
      <4> QED BY <4>1 DEF Shaped
    <3> QED BY <3>1, <3>2
  <2>6. Shaped'
    BY <2>5 DEF Shaped
  <2> QED BY <2>4, <2>6
<1>3. ASSUME NEW s \in Streams, Drop(s) PROVE TypeOK' /\ Shaped'
  <2>1. TypeOK'
    <3>1. metrics' \in Counters
      BY <1>3, CountingUp DEF Drop, TypeOK, Counters
    <3> QED BY <1>3, <3>1 DEF Drop, TypeOK, Started, Counters
  <2>2. ASSUME NEW u \in Streams
        PROVE  /\ pc'[u] = "new" => out'[u] = <<>>
               /\ plan'[u] # None => Shape(plan'[u], pc'[u], fires'[u], out'[u])
    <3>1. CASE u = s
      <4>1. /\ pc[s] \in Started \cup {"created"} /\ pc'[s] = "dropped"
            /\ UNCHANGED <<plan, fires, out>>
        BY <1>3 DEF Drop, TypeOK
      <4>2. plan[s] \in Plans /\ Shape(plan[s], pc[s], fires[s], out[s])
        <5>1. plan[s] # None
          BY <4>1 DEF TypeOK, Started
        <5> QED BY <5>1 DEF Shaped, TypeOK
      <4>3. out[s] = <<>> => Telling(plan[s], out[s])
        BY <4>2, EmptyTells DEF InLoop
      <4>4. Telling(plan[s], out[s]) \/ Failed(plan[s], out[s])
        BY <4>1, <4>2, <4>3 DEF Shape, InLoop, Started
      <4> QED BY <3>1, <4>1, <4>4 DEF Shape
    <3>2. CASE u # s
      <4>1. pc'[u] = pc[u] /\ UNCHANGED <<plan, fires, out>>
        BY <1>3, <3>2 DEF Drop, TypeOK
      <4> QED BY <4>1 DEF Shaped
    <3> QED BY <3>1, <3>2
  <2>3. Shaped'
    BY <2>2 DEF Shaped
  <2> QED BY <2>1, <2>3
<1>4. CASE UNCHANGED vars
  BY <1>4 DEF vars, TypeOK, Shaped
<1> QED BY <1>1, <1>2, <1>3, <1>4 DEF Next

\* TypeOK: at every suspension a stream has drawn, planned and sent what its
\* place in responses_sse_stream says, for any output and any faults.
THEOREM ResponsesTypeCorrect == Spec => []TypeOK
BY InitShaped, NextShaped, PTL DEF Spec

-----------------------------------------------------------------------------
(***************************************************************************)
(* Where faults strike.                                                    *)
(***************************************************************************)
\* The indices of events a fault may be addressed to, and how many of them it
\* passes over.
Places(p) == IF p.fault.stage = None THEN 0 .. Total(p) - 1 ELSE AtStage(p, p.fault.stage)
Skip(p) == AfterFrames(p.fault, IF p.fault.stage = None THEN 2 ELSE 0)

LEMMA PlacesFinite ==
  ASSUME NEW p \in Plans
  PROVE  /\ Places(p) \in SUBSET Nat /\ IsFiniteSet(Places(p))
         /\ Cardinality(Places(p)) \in Nat
         /\ Places(p) \subseteq 0 .. Total(p) - 1
         /\ Skip(p) \in Nat
<1>1. Total(p) \in Nat
  BY ScheduleShape DEF Total
<1>2. IsFiniteSet(0 .. Total(p) - 1)
  BY <1>1, FS_Interval
<1>3. Places(p) \subseteq 0 .. Total(p) - 1
  BY DEF Places, AtStage, Total
<1>4. IsFiniteSet(Places(p))
  BY <1>2, <1>3, FS_Subset
<1>5. Skip(p) \in Nat
  BY PlanAssumption DEF Skip, AfterFrames
<1> QED BY <1>1, <1>3, <1>4, <1>5, FS_CardinalityType

\* The first n naturals.
LEMMA BelowInterval ==
  ASSUME NEW N \in Nat, NEW n \in 0 .. N - 1
  PROVE  Cardinality(Below(0 .. N - 1, n)) = n
<1>1. Below(0 .. N - 1, n) = 0 .. n - 1
  BY DEF Below
<1>2. Cardinality(0 .. n - 1) = IF 0 > n - 1 THEN 0 ELSE n - 1 - 0 + 1
  BY FS_Interval
<1> QED BY <1>1, <1>2

\* The trigger, read forwards: an index that is reached is in the place the
\* fault is addressed to.
LEMMA TriggerInPlace ==
  ASSUME NEW p \in Plans, NEW n \in 0 .. Total(p) - 1, FaultTrigger(p) = n
  PROVE  n \in Places(p) /\ Cardinality(Below(Places(p), n)) = Skip(p)
<1>1. Total(p) \in Nat
  BY ScheduleShape DEF Total
<1>2. CASE p.fault.stage = None
  <2>1. n = Skip(p) /\ Places(p) = 0 .. Total(p) - 1
    BY <1>2 DEF FaultTrigger, Places, Skip
  <2> QED BY <1>1, <2>1, BelowInterval
<1>3. CASE p.fault.stage # None
  <2> DEFINE nth == {i \in Places(p) : Cardinality(Below(Places(p), i)) = Skip(p)}
  <2>1. FaultTrigger(p) = IF nth = {} THEN None ELSE CHOOSE i \in nth : TRUE
    BY <1>3 DEF FaultTrigger, Places, Skip, Below
  <2>2. n # None
    BY NoneAssumption
  <2>3. n \in nth
    <3> HIDE DEF nth
    <3> QED BY <2>1, <2>2
  <2> QED BY <2>3
<1> QED BY <1>2, <1>3

\* ... and one that is never reached has no place.
LEMMA TriggerMissing ==
  ASSUME NEW p \in Plans, \A k \in 0 .. Total(p) - 1 : FaultTrigger(p) # k
  PROVE  Cardinality(Places(p)) <= Skip(p)
<1>1. Total(p) \in Nat /\ Skip(p) \in Nat
  BY ScheduleShape, PlacesFinite DEF Total
<1>2. CASE p.fault.stage = None
  <2>1. FaultTrigger(p) = Skip(p) /\ Places(p) = 0 .. Total(p) - 1
    BY <1>2 DEF FaultTrigger, Places, Skip
  <2>2. Skip(p) >= Total(p)
    BY <1>1, <2>1
  <2>3. \A m \in Nat : Cardinality(0 .. m - 1) = m
    <3> SUFFICES ASSUME NEW m \in Nat PROVE Cardinality(0 .. m - 1) = m
      OBVIOUS
    <3>1. Cardinality(0 .. m - 1) = IF 0 > m - 1 THEN 0 ELSE m - 1 - 0 + 1
      BY FS_Interval
    <3> QED BY <3>1
  <2>4. Cardinality(0 .. Total(p) - 1) = Total(p)
    BY <1>1, <2>3
  <2> QED BY <1>1, <2>1, <2>2, <2>4
<1>3. CASE p.fault.stage # None
  <2> DEFINE nth == {i \in Places(p) : Cardinality(Below(Places(p), i)) = Skip(p)}
  <2>1. FaultTrigger(p) = IF nth = {} THEN None ELSE CHOOSE i \in nth : TRUE
    BY <1>3 DEF FaultTrigger, Places, Skip, Below
  <2>2. nth = {}
    <3> SUFFICES ASSUME nth # {} PROVE FALSE
      OBVIOUS
    <3>1. FaultTrigger(p) \in nth
      <4> HIDE DEF nth
      <4> QED BY <2>1
    <3>2. FaultTrigger(p) \in 0 .. Total(p) - 1
      BY <3>1, PlacesFinite
    <3> QED BY <3>2
  <2>3. ~(Skip(p) < Cardinality(Places(p)))
    BY <2>2, PlacesFinite, NthExists
  <2> QED BY <1>1, <2>3, PlacesFinite
<1> QED BY <1>2, <1>3

\* What each shape holds of the events that end a stream.
LEMMA EndsTold ==
  ASSUME NEW p \in Plans, NEW o \in Seq(Events)
  PROVE  /\ Telling(p, o) => Told(o, "error") = {}
         /\ InLoop(p, o) => Told(o, "terminal") = {}
         /\ Complete(p, o) => Told(o, "terminal") # {}
         /\ Failed(p, o) => Told(o, "error") = {Len(o)} /\ Told(o, "terminal") = {}
<1> DEFINE w == p.events
<1>1. /\ Len(w) \in Nat /\ Len(w) >= 3
      /\ \A k \in 1 .. Len(w) : w[k].type # "error" /\ (w[k].type = "terminal" <=> k = Len(w))
  BY ScheduleShape
<1>2. DOMAIN o = 1 .. Len(o) /\ Len(o) \in Nat
  OBVIOUS
<1>3. ASSUME NEW n \in Nat, n <= Len(w), Tells(p, o, n), NEW k \in 1 .. n
      PROVE  o[k].type # "error" /\ (o[k].type = "terminal" <=> k = Len(w))
  <2>1. o[k] = w[k] /\ k \in 1 .. Len(w)
    BY <1>1, <1>3 DEF Tells
  <2> QED BY <1>1, <2>1
<1>4. ASSUME Telling(p, o) PROVE Told(o, "error") = {}
  <2>1. \A k \in 1 .. Len(o) : o[k].type # "error"
    BY <1>2, <1>3, <1>4 DEF Telling, Total
  <2> QED BY <1>2, <2>1 DEF Told
<1>5. ASSUME InLoop(p, o) PROVE Told(o, "terminal") = {}
  <2>1. Len(o) < Len(w) /\ Len(o) <= Len(w) /\ Tells(p, o, Len(o))
    BY <1>5 DEF InLoop, Telling, Total
  <2>2. \A k \in 1 .. Len(o) : o[k].type # "terminal"
    BY <1>1, <1>2, <1>3, <2>1
  <2> QED BY <1>2, <2>2 DEF Told
<1>6. ASSUME Complete(p, o) PROVE Told(o, "terminal") # {}
  <2>1. Len(o) = Len(w) /\ Tells(p, o, Len(o))
    BY <1>6 DEF Complete, Telling, Total
  <2>2. Len(o) \in 1 .. Len(o) /\ o[Len(o)].type = "terminal"
    BY <1>1, <1>2, <1>3, <2>1
  <2> QED BY <1>2, <2>2 DEF Told
<1>7. ASSUME Failed(p, o) PROVE Told(o, "error") = {Len(o)} /\ Told(o, "terminal") = {}
  <2>1. Len(o) \in 1 .. Len(w) /\ o[Len(o)] = ErrorEvent(Len(o) - 1) /\ Tells(p, o, Len(o) - 1)
    BY <1>7 DEF Failed, Total
  <2>2. Len(o) - 1 \in Nat /\ Len(o) - 1 <= Len(w) /\ Len(o) - 1 < Len(w)
    BY <1>1, <2>1
  <2>3. o[Len(o)].type = "error"
    BY <2>1, <2>2, ErrorIsEvent
  <2>4. \A k \in 1 .. Len(o) - 1 : o[k].type # "error" /\ o[k].type # "terminal"
    BY <1>1, <1>3, <2>1, <2>2
  <2>5. \A k \in 1 .. Len(o) : k \in 1 .. Len(o) - 1 \/ k = Len(o)
    BY <2>2
  <2>6. Len(o) \in 1 .. Len(o)
    BY <1>2, <2>1
  <2> QED BY <1>2, <2>3, <2>4, <2>5, <2>6 DEF Told
<1> QED BY <1>4, <1>5, <1>6, <1>7

LEMMA FaultsFromShapes == TypeOK /\ Shaped => FaultsStrikeTheirStage
<1> SUFFICES ASSUME TypeOK, Shaped, NEW s \in Streams, plan[s] # None
             PROVE  /\ Struck(s) =>
                         /\ EventsBefore(s) \in Places(plan[s])
                         /\ Cardinality(Below(Places(plan[s]), EventsBefore(s))) = Skip(plan[s])
                    /\ /\ pc[s] \in Started /\ fires[s]
                       /\ plan[s].fault.kind \in {"drop", "sse_error"}
                       /\ Sent(s, "terminal") # {}
                       => Cardinality(Places(plan[s])) <= Skip(plan[s])
  BY DEF FaultsStrikeTheirStage, Places, Skip, Below, Total
<1> DEFINE p == plan[s]
           o == out[s]
           n == EventsBefore(s)
<1>1. /\ o \in Seq(Events) /\ p \in Plans /\ Shape(p, pc[s], fires[s], o)
  BY DEF TypeOK, Shaped
<1>2. /\ Telling(p, o) => Sent(s, "error") = {}
      /\ InLoop(p, o) => Sent(s, "terminal") = {}
      /\ Complete(p, o) => Sent(s, "terminal") # {}
      /\ Failed(p, o) => Sent(s, "error") = {Len(o)} /\ Sent(s, "terminal") = {}
  <2> HIDE DEF p, o
  <2>1. /\ Telling(p, o) => Told(o, "error") = {}
        /\ InLoop(p, o) => Told(o, "terminal") = {}
        /\ Complete(p, o) => Told(o, "terminal") # {}
        /\ Failed(p, o) => Told(o, "error") = {Len(o)} /\ Told(o, "terminal") = {}
    BY <1>1, EndsTold
  <2> QED BY <2>1 DEF Sent, o
<1>3. Len(o) \in Nat /\ Total(p) \in Nat
  <2> HIDE DEF p, o
  <2> QED BY <1>1, ScheduleShape DEF Total
<1>4. pc[s] # "new" /\ (Telling(p, o) \/ Failed(p, o))
  <2>1. pc[s] # "new" /\ pc[s] \in {"refused", "created", "ended", "dropped"} \cup Started
    BY DEF TypeOK
  <2>2. o = <<>> => Telling(p, o)
    BY <1>1, EmptyTells DEF InLoop
  <2> QED BY <1>1, <2>1, <2>2 DEF Shape, InLoop, Complete, CutOff, Started
<1>5. ASSUME Struck(s)
      PROVE  n \in Places(p) /\ Cardinality(Below(Places(p), n)) = Skip(p)
  <2>1. Failed(p, o) \/ CutOff(p, fires[s], o)
    <3>1. CASE Sent(s, "error") # {}
      BY <1>2, <1>4, <3>1
    <3>2. CASE pc[s] = "ended" /\ Sent(s, "terminal") = {}
      BY <1>1, <1>2, <3>2 DEF Shape
    <3> QED BY <1>5, <3>1, <3>2 DEF Struck
  <2>2. n \in 0 .. Total(p) - 1 /\ FaultTrigger(p) = n
    <3>1. CASE Failed(p, o)
      <4>1. Cardinality(Sent(s, "error")) = 1
        BY <1>2, <3>1, FS_Singleton
      <4>2. n = Len(o) - 1
        BY <4>1 DEF EventsBefore
      <4> QED BY <1>3, <3>1, <4>2 DEF Failed
    <3>2. CASE CutOff(p, fires[s], o)
      <4>1. Sent(s, "error") = {}
        BY <1>2, <3>2 DEF CutOff, InLoop
      <4>2. n = Len(o) - 0
        BY <4>1, FS_EmptySet DEF EventsBefore
      <4>3. n = Len(o)
        BY <1>3, <4>2
      <4> QED BY <1>3, <3>2, <4>3 DEF CutOff, InLoop
    <3> QED BY <2>1, <3>1, <3>2
  <2> HIDE DEF n, p
  <2> QED BY <1>1, <2>2, TriggerInPlace
<1>6. ASSUME pc[s] \in Started, fires[s], p.fault.kind \in {"drop", "sse_error"},
             Sent(s, "terminal") # {}
      PROVE  Cardinality(Places(p)) <= Skip(p)
  <2>1. ~Failed(p, o) /\ ~InLoop(p, o) /\ Telling(p, o)
    BY <1>2, <1>4, <1>6
  <2>2. o # <<>>
    BY <1>1, <2>1, EmptyTells
  <2>3. pc[s] = "yield" /\ Passed(p, fires[s], Len(o)) /\ Len(o) = Total(p)
    <3>1. pc[s] = "yield" /\ Passed(p, fires[s], Len(o))
      BY <1>1, <1>6, <2>1, <2>2 DEF Shape, Started
    <3>2. Len(o) = Total(p)
      BY <1>3, <2>1 DEF InLoop, Telling
    <3> QED BY <3>1, <3>2
  <2>4. \A k \in 0 .. Total(p) - 1 : FaultTrigger(p) # k
    BY <1>3, <1>6, <2>3 DEF Passed
  <2> HIDE DEF p
  <2> QED BY <1>1, <2>4, TriggerMissing
<1> QED BY <1>5, <1>6

\* FaultsStrikeTheirStage: for any output and any fault at any address,
\* responses_sse_stream cuts or fails a stream in the place of exactly the event
\* that the fault's stage and count name, and lets the terminal event past a
\* fault that fires only when the schedule has no such event
\* (fault_trigger_index).
THEOREM FaultsStrikeInPlace == Spec => []FaultsStrikeTheirStage
BY InitShaped, NextShaped, FaultsFromShapes, PTL DEF Spec

-----------------------------------------------------------------------------
(***************************************************************************)
(* The events nest.                                                        *)
(***************************************************************************)
\* o has the first m events of a schedule, and perhaps an error in the place of
\* the next.
Client(output, at, pts, w, o, m) ==
  /\ output \in Seq(OutputItems) /\ Laid(output, at, pts, w)
  /\ o \in Seq(Events) /\ m \in Nat /\ m <= Len(w)
  /\ Len(o) = m \/ (Len(o) = m + 1 /\ o[m + 1] = ErrorEvent(m))
  /\ \A k \in 1 .. m : o[k] = w[k]

\* e is the event of a place.
IsAt(e, output, i, p, q) ==
  /\ e.type = TypeAt(output, i, p, q) /\ e.item = i
  /\ p \in 1 .. PartsOf(output, i) => e.part = p
  /\ e.type \in {"delta", "text.done"} => e.delta = DeltaAt(output, i, p, q)

LEMMA TypesOfPlaces ==
  ASSUME NEW output \in Seq(OutputItems), NEW i, NEW p, NEW q, Place(output, i, p, q)
  PROVE  LET t == TypeAt(output, i, p, q)
             n == PartsOf(output, i)
             d == output[i].parts[p]
         IN /\ t = "item.added" <=> p = 0
            /\ t = "item.done" <=> p = n + 1
            /\ t \in {"part.added", "delta", "text.done", "part.done"} =>
                 p \in 1 .. n /\ d \in Nat
            /\ t = "part.added" => q = 1
            /\ t = "delta" => q \in 2 .. d + 1 /\ DeltaAt(output, i, p, q) = q - 1
            /\ t = "text.done" => q = d + 2 /\ DeltaAt(output, i, p, q) = d
            /\ t = "part.done" => q = d + 3
<1>1. PartsOf(output, i) \in Nat /\ p \in 0 .. PartsOf(output, i) + 1
  BY OutputShape DEF Place
<1>2. CASE p = 0
  BY <1>1, <1>2 DEF TypeAt
<1>3. CASE p = PartsOf(output, i) + 1
  BY <1>1, <1>3 DEF TypeAt
<1>4. CASE p \in 1 .. PartsOf(output, i)
  <2>1. PICK d \in Nat : d = output[i].parts[p]
    BY <1>4, OutputShape DEF Place
  <2>2. q \in 1 .. d + 3
    BY <1>4, <2>1 DEF Place, Width
  <2>3. p # 0 /\ p # PartsOf(output, i) + 1
    BY <1>1, <1>4
  <2>4. /\ TypeAt(output, i, p, q) = IF q = 1 THEN "part.added"
                                     ELSE IF q <= d + 1 THEN "delta"
                                     ELSE IF q = d + 2 THEN "text.done" ELSE "part.done"
        /\ DeltaAt(output, i, p, q) = IF q <= d + 1 THEN q - 1 ELSE d
    BY <2>1, <2>3 DEF TypeAt, DeltaAt
  <2>5. CASE q = 1
    BY <1>4, <2>1, <2>3, <2>4, <2>5
  <2>6. CASE q \in 2 .. d + 1
    BY <1>4, <2>1, <2>3, <2>4, <2>6
  <2>7. CASE q = d + 2
    <3>1. q # 1 /\ ~(q <= d + 1)
      BY <2>7
    <3> QED BY <1>4, <2>1, <2>3, <2>4, <2>7, <3>1
  <2>8. CASE q = d + 3
    <3>1. q # 1 /\ ~(q <= d + 1) /\ q # d + 2
      BY <2>8
    <3> QED BY <1>4, <2>1, <2>3, <2>4, <2>8, <3>1
  <2>9. q = 1 \/ q \in 2 .. d + 1 \/ q = d + 2 \/ q = d + 3
    BY <2>2
  <2> QED BY <2>5, <2>6, <2>7, <2>8, <2>9
<1> QED BY <1>1, <1>2, <1>3, <1>4

\* The places of each type there is.
LEMMA PlacesOfTypes ==
  ASSUME NEW output \in Seq(OutputItems), NEW i \in 1 .. Len(output)
  PROVE  LET n == PartsOf(output, i) IN
         /\ Place(output, i, 0, 1) /\ TypeAt(output, i, 0, 1) = "item.added"
         /\ Place(output, i, n + 1, 1) /\ TypeAt(output, i, n + 1, 1) = "item.done"
         /\ \A p \in 1 .. n : \A d \in Nat : d = output[i].parts[p] =>
              /\ \A q \in 1 .. d + 3 : Place(output, i, p, q)
              /\ TypeAt(output, i, p, 1) = "part.added"
              /\ \A q \in 2 .. d + 1 : TypeAt(output, i, p, q) = "delta"
              /\ TypeAt(output, i, p, d + 2) = "text.done"
              /\ TypeAt(output, i, p, d + 3) = "part.done"
<1> DEFINE n == PartsOf(output, i)
<1>1. n \in Nat
  BY OutputShape
<1> HIDE DEF n
<1>2. Place(output, i, 0, 1) /\ TypeAt(output, i, 0, 1) = "item.added"
  BY <1>1 DEF Place, Width, TypeAt, n
<1>3. Place(output, i, n + 1, 1) /\ TypeAt(output, i, n + 1, 1) = "item.done"
  <2>1. n + 1 # 0 /\ n + 1 \notin 1 .. n /\ n + 1 \in 0 .. n + 1
    BY <1>1
  <2> QED BY <2>1 DEF Place, Width, TypeAt, n
<1>4. ASSUME NEW p \in 1 .. n, NEW d \in Nat, d = output[i].parts[p]
      PROVE  /\ \A q \in 1 .. d + 3 : Place(output, i, p, q)
             /\ TypeAt(output, i, p, 1) = "part.added"
             /\ \A q \in 2 .. d + 1 : TypeAt(output, i, p, q) = "delta"
             /\ TypeAt(output, i, p, d + 2) = "text.done"
             /\ TypeAt(output, i, p, d + 3) = "part.done"
  <2>1. p # 0 /\ p # n + 1 /\ p \in 0 .. n + 1
    BY <1>1
  <2>2. \A q : TypeAt(output, i, p, q) = IF q = 1 THEN "part.added"
                                     ELSE IF q <= d + 1 THEN "delta"
                                     ELSE IF q = d + 2 THEN "text.done" ELSE "part.done"
    BY <1>4, <2>1 DEF TypeAt, n
  <2>3. \A q \in 1 .. d + 3 : Place(output, i, p, q)
    BY <1>4, <2>1 DEF Place, Width, n
  <2>4. \A q \in 2 .. d + 1 : q # 1 /\ q <= d + 1
    OBVIOUS
  <2>5. /\ d + 2 # 1 /\ ~(d + 2 <= d + 1)
        /\ d + 3 # 1 /\ ~(d + 3 <= d + 1) /\ d + 3 # d + 2
    OBVIOUS
  <2> QED BY <2>2, <2>3, <2>4, <2>5
<1> QED BY <1>2, <1>3, <1>4 DEF n

\* The event at a place, once it is told ...
LEMMA ToldAtPlace ==
  ASSUME NEW output, NEW at, NEW pts, NEW w, NEW o, NEW m, Client(output, at, pts, w, o, m),
         NEW i, NEW p, NEW q, Place(output, i, p, q)
  PROVE  LET k == Pos(at, pts, i, p, q)
         IN /\ k \in 3 .. Len(w) - 1
            /\ k <= m => k \in DOMAIN o /\ IsAt(o[k], output, i, p, q)
<1> DEFINE k == Pos(at, pts, i, p, q)
<1>1. k \in 3 .. Len(w) - 1
  BY DEF Client, Laid, Middle, Place
<1>2. IsAt(w[k], output, i, p, q)
  BY DEF Client, Laid, IsAt
<1>3. /\ o \in Seq(Events) /\ m \in Nat /\ \A j \in 1 .. m : o[j] = w[j]
      /\ Len(o) = m \/ Len(o) = m + 1
      /\ w \in Seq(Events)
  BY DEF Client, Laid
<1>4. Len(w) \in Nat /\ DOMAIN o = 1 .. Len(o)
  BY <1>3
<1>5. k \in Nat /\ k >= 1
  BY <1>1, <1>4
<1> HIDE DEF k
<1>6. m \in Nat /\ (Len(o) = m \/ Len(o) = m + 1)
  BY <1>3
<1>7. ASSUME k <= m PROVE k \in 1 .. m /\ k \in DOMAIN o
  <2>1. k \in 1 .. m /\ k \in 1 .. Len(o)
    BY <1>7, <1>5, <1>6
  <2> QED BY <1>4, <2>1
<1> QED BY <1>1, <1>2, <1>3, <1>7 DEF k

\* ... and the place of an event that was told.
LEMMA PlaceOfTold ==
  ASSUME NEW output, NEW at, NEW pts, NEW w, NEW o, NEW m, Client(output, at, pts, w, o, m),
         NEW j \in DOMAIN o
  PROVE  \/ /\ j \in 3 .. Len(w) - 1 /\ j <= m
            /\ \E i, p, q : /\ Place(output, i, p, q) /\ j = Pos(at, pts, i, p, q)
                           /\ IsAt(o[j], output, i, p, q)
         \/ /\ o[j].item = 0
            /\ o[j].type \in {"created", "in_progress", "terminal", "error"}
            /\ o[j].type = "terminal" => j = Len(w) /\ j = m
<1>1. /\ o \in Seq(Events) /\ m \in Nat /\ m <= Len(w) /\ w \in Seq(Events)
      /\ \A k \in 1 .. m : o[k] = w[k]
      /\ Len(o) = m \/ (Len(o) = m + 1 /\ o[m + 1] = ErrorEvent(m))
      /\ Len(w) >= 3
  BY DEF Client, Laid
<1>2. DOMAIN o = 1 .. Len(o) /\ Len(w) \in Nat
  BY <1>1
<1>3. j \in Nat /\ j >= 1
  BY <1>2
<1>4. CASE j \in 3 .. Len(w) - 1 /\ j <= m
  <2>1. PICK i \in 1 .. Len(output) : \E p \in 0 .. PartsOf(output, i) + 1 :
          \E q \in 1 .. Width(output, i, p) : j = Pos(at, pts, i, p, q)
    BY <1>4 DEF Client, Laid, Middle
  <2>2. PICK p, q : Place(output, i, p, q) /\ j = Pos(at, pts, i, p, q)
    BY <2>1 DEF Place
  <2>3. IsAt(o[j], output, i, p, q)
    BY <1>4, <2>2, ToldAtPlace
  <2> QED BY <1>4, <2>2, <2>3
<1>5. CASE j \in {1, 2} /\ j <= m
  <2>1. o[j] = w[j]
    BY <1>1, <1>5
  <2>2. w[j].item = 0 /\ w[j].type \in {"created", "in_progress"}
    BY <1>5 DEF Client, Laid
  <2> QED BY <2>1, <2>2
<1>6. CASE j = Len(w) /\ j <= m
  <2>1. j = m
    BY <1>1, <1>2, <1>6
  <2>2. o[j] = w[j]
    BY <1>1, <1>3, <1>6
  <2>3. w[j].item = 0 /\ w[j].type = "terminal"
    BY <1>6 DEF Client, Laid
  <2> QED BY <1>6, <2>1, <2>2, <2>3
<1>7. CASE ~(j <= m)
  <2>1. j = m + 1 /\ Len(o) = m + 1
    <3>1. m \in Nat /\ (Len(o) = m \/ Len(o) = m + 1) /\ j \in 1 .. Len(o)
      BY <1>1, <1>2
    <3> QED BY <1>3, <1>7, <3>1
  <2>2. o[j] = ErrorEvent(m)
    <3>1. m + 1 # m
      BY <1>1
    <3> QED BY <1>1, <2>1, <3>1
  <2> QED BY <1>1, <2>2, ErrorIsEvent
<1>8. j <= m => j \in 3 .. Len(w) - 1 \/ j \in {1, 2} \/ j = Len(w)
  <2>1. m \in Nat /\ m <= Len(w) /\ Len(w) \in Nat
    BY <1>1, <1>2
  <2> QED BY <1>3, <2>1
<1> QED BY <1>4, <1>5, <1>6, <1>7, <1>8

\* The order of places.
LEMMA PlacesInOrder ==
  ASSUME NEW output, NEW at, NEW pts, NEW w, NEW o, NEW m, Client(output, at, pts, w, o, m),
         NEW i, NEW p, NEW q, Place(output, i, p, q)
  PROVE  /\ \A j, r, t : Place(output, j, r, t) /\ i < j =>
              Pos(at, pts, i, p, q) < Pos(at, pts, j, r, t)
         /\ \A r, t : Place(output, i, r, t) /\ p < r =>
              Pos(at, pts, i, p, q) < Pos(at, pts, i, r, t)
         /\ Pos(at, pts, i, p, q) = Pos(at, pts, i, p, 1) + (q - 1)
<1>1. InOrder(output, at, pts)
  BY DEF Client, Laid
<1> QED BY <1>1 DEF InOrder, Place

\* An event was told of one item, and one part of it, only: two events told of
\* one type, which is told once of each part, are one event.
LEMMA OnceEach ==
  ASSUME NEW output, NEW at, NEW pts, NEW w, NEW o, NEW m, Client(output, at, pts, w, o, m),
         NEW i, NEW p, NEW q, Place(output, i, p, q),
         NEW j, NEW r, NEW t, Place(output, j, r, t),
         TypeAt(output, i, p, q) = TypeAt(output, j, r, t), i = j,
         TypeAt(output, i, p, q) # "delta",
         TypeAt(output, i, p, q) \in {"item.added", "item.done"} \/ p = r
  PROVE  Pos(at, pts, i, p, q) = Pos(at, pts, j, r, t)
<1>1. output \in Seq(OutputItems)
  BY DEF Client
<1>2. PartsOf(output, i) \in Nat
  BY <1>1, OutputShape DEF Place
<1>3. p = r
  BY <1>1, TypesOfPlaces
<1>4. q = t
  <2>1. CASE p = 0 \/ p = PartsOf(output, i) + 1
    <3>1. Width(output, i, p) = 1
      BY <1>2, <2>1 DEF Width
    <3> QED BY <1>3, <3>1 DEF Place
  <2>2. CASE p \in 1 .. PartsOf(output, i)
    <3>1. TypeAt(output, i, p, q) \in {"part.added", "text.done", "part.done"}
      BY <1>1, <1>2, <2>2, TypesOfPlaces, PlaceTypes
    <3> QED BY <1>1, <1>3, <3>1, TypesOfPlaces
  <2> QED BY <1>2, <2>1, <2>2 DEF Place
<1> QED BY <1>3, <1>4

\* The events told before the one at a place: they have places of their own when
\* they are of the same item, and those whose places are before it are told.
LEMMA ToldEarlier ==
  ASSUME NEW output, NEW at, NEW pts, NEW w, NEW o, NEW m, Client(output, at, pts, w, o, m),
         NEW i, NEW p, NEW q, Place(output, i, p, q), Pos(at, pts, i, p, q) <= m
  PROVE  LET k == Pos(at, pts, i, p, q)
         IN /\ k \in 3 .. Len(w) - 1 /\ k \in Nat
            /\ \A j \in 1 .. k - 1 : j \in DOMAIN o
            /\ \A j \in 1 .. k - 1 : o[j].item = i =>
                 \E r, t : /\ Place(output, i, r, t) /\ j = Pos(at, pts, i, r, t)
                          /\ IsAt(o[j], output, i, r, t)
            /\ \A l, r, t : Place(output, l, r, t) /\ Pos(at, pts, l, r, t) < k =>
                 LET j == Pos(at, pts, l, r, t)
                 IN j \in 1 .. k - 1 /\ IsAt(o[j], output, l, r, t)
<1> DEFINE k == Pos(at, pts, i, p, q)
           n == PartsOf(output, i)
<1>1. /\ output \in Seq(OutputItems) /\ o \in Seq(Events) /\ m \in Nat
      /\ w \in Seq(Events) /\ Len(o) \in Nat /\ DOMAIN o = 1 .. Len(o) /\ Len(o) >= m
  <2>1. /\ output \in Seq(OutputItems) /\ o \in Seq(Events) /\ m \in Nat
        /\ w \in Seq(Events) /\ (Len(o) = m \/ Len(o) = m + 1)
    BY DEF Client, Laid
  <2> QED BY <2>1
<1>2. i \in 1 .. Len(output) /\ n \in Nat /\ p \in 0 .. n + 1
  BY <1>1, OutputShape DEF Place
<1>3. k \in 3 .. Len(w) - 1 /\ k \in Nat
  <2>1. k \in 3 .. Len(w) - 1
    BY ToldAtPlace
  <2>2. Len(w) \in Nat
    BY <1>1
  <2> QED BY <2>1, <2>2
\* An earlier event of the same item has a place.
<1>4. ASSUME NEW j \in 1 .. k - 1, o[j].item = i
      PROVE  \E r, t : /\ Place(output, i, r, t) /\ j = Pos(at, pts, i, r, t)
                       /\ IsAt(o[j], output, i, r, t)
  <2>1. j \in DOMAIN o
    <3>1. j \in 1 .. Len(o)
      BY <1>1, <1>3
    <3> QED BY <1>1, <3>1
  <2>2. i # 0
    BY <1>2
  <2>3. PICK l, r, t : /\ Place(output, l, r, t) /\ j = Pos(at, pts, l, r, t)
                       /\ IsAt(o[j], output, l, r, t)
    BY <1>4, <2>1, <2>2, PlaceOfTold
  <2> QED BY <1>4, <2>3 DEF IsAt
\* A place before k was told.
<1>5. ASSUME NEW l, NEW r, NEW t, Place(output, l, r, t), Pos(at, pts, l, r, t) < k
      PROVE  LET j == Pos(at, pts, l, r, t)
             IN j \in 1 .. k - 1 /\ IsAt(o[j], output, l, r, t)
  <2>1. /\ Pos(at, pts, l, r, t) \in 3 .. Len(w) - 1
        /\ Pos(at, pts, l, r, t) <= m =>
             IsAt(o[Pos(at, pts, l, r, t)], output, l, r, t)
    BY <1>5, ToldAtPlace
  <2>2. Len(w) \in Nat
    BY <1>1
  <2>3. Pos(at, pts, l, r, t) \in 1 .. k - 1 /\ Pos(at, pts, l, r, t) <= m
    BY <1>1, <1>3, <1>5, <2>1, <2>2
  <2> QED BY <2>1, <2>3
<1>6. \A j \in 1 .. k - 1 : j \in DOMAIN o
  <2> SUFFICES ASSUME NEW j \in 1 .. k - 1 PROVE j \in DOMAIN o
    OBVIOUS
  <2>1. j \in 1 .. Len(o)
    BY <1>1, <1>3
  <2> QED BY <1>1, <2>1
<1> HIDE DEF k
<1> QED BY <1>3, <1>4, <1>5, <1>6 DEF k

\* Items: k is the place of an event of item i.
LEMMA ItemsNest ==
  ASSUME NEW output, NEW at, NEW pts, NEW w, NEW o, NEW m, Client(output, at, pts, w, o, m),
         NEW i, NEW p, NEW q, Place(output, i, p, q), Pos(at, pts, i, p, q) <= m
  PROVE  LET k == Pos(at, pts, i, p, q)
         IN /\ p = 0 => ~Added(o, k, i) /\ \A l \in 1 .. i - 1 : Done(o, k, l)
            /\ p # 0 => Added(o, k, i) /\ ~Done(o, k, i)
<1> DEFINE k == Pos(at, pts, i, p, q)
           n == PartsOf(output, i)
<1>1. output \in Seq(OutputItems)
  BY DEF Client
<1>2. i \in 1 .. Len(output) /\ n \in Nat /\ p \in 0 .. n + 1
  BY <1>1, OutputShape DEF Place
<1>3. k \in Nat
  BY ToldEarlier
<1>4. ASSUME NEW j \in 1 .. k - 1, o[j].item = i
      PROVE  \E r, t : /\ Place(output, i, r, t) /\ j = Pos(at, pts, i, r, t)
                       /\ o[j].type = TypeAt(output, i, r, t)
  BY <1>4, ToldEarlier DEF IsAt
<1>5. ASSUME NEW l, NEW r, NEW t, Place(output, l, r, t), Pos(at, pts, l, r, t) < k
      PROVE  LET j == Pos(at, pts, l, r, t)
             IN j \in 1 .. k - 1 /\ o[j].type = TypeAt(output, l, r, t) /\ o[j].item = l
  BY <1>5, ToldEarlier DEF IsAt
<1>6. ASSUME p = 0 PROVE ~Added(o, k, i)
  <2> SUFFICES ASSUME NEW j \in 1 .. k - 1, o[j].type = "item.added", o[j].item = i
               PROVE  FALSE
    BY DEF Added
  <2>1. PICK r, t : /\ Place(output, i, r, t) /\ j = Pos(at, pts, i, r, t)
                    /\ o[j].type = TypeAt(output, i, r, t)
    BY <1>4
  <2>2. TypeAt(output, i, p, q) = "item.added"
    BY <1>1, <1>6, TypesOfPlaces
  <2>3. j = k
    BY <2>1, <2>2, OnceEach
  <2> QED BY <1>3, <2>3
<1>7. ASSUME p = 0, NEW l \in 1 .. i - 1 PROVE Done(o, k, l)
  <2>1. l \in 1 .. Len(output) /\ l < i
    BY <1>2
  <2>2. /\ Place(output, l, PartsOf(output, l) + 1, 1)
        /\ TypeAt(output, l, PartsOf(output, l) + 1, 1) = "item.done"
    BY <1>1, <2>1, PlacesOfTypes
  <2>3. Pos(at, pts, l, PartsOf(output, l) + 1, 1) < k
    BY <2>1, <2>2, PlacesInOrder
  <2> QED BY <1>5, <2>2, <2>3 DEF Done
<1>8. ASSUME p # 0 PROVE Added(o, k, i)
  <2>1. Place(output, i, 0, 1) /\ TypeAt(output, i, 0, 1) = "item.added"
    BY <1>1, <1>2, PlacesOfTypes
  <2>2. 0 < p
    BY <1>2, <1>8
  <2>3. Pos(at, pts, i, 0, 1) < k
    BY <2>1, <2>2, PlacesInOrder
  <2> QED BY <1>5, <2>1, <2>3 DEF Added
<1>9. ASSUME p # 0 PROVE ~Done(o, k, i)
  <2> SUFFICES ASSUME NEW j \in 1 .. k - 1, o[j].type = "item.done", o[j].item = i
               PROVE  FALSE
    BY DEF Done
  <2>1. PICK r, t : /\ Place(output, i, r, t) /\ j = Pos(at, pts, i, r, t)
                    /\ o[j].type = TypeAt(output, i, r, t)
    BY <1>4
  <2>2. r = n + 1
    BY <1>1, <2>1, TypesOfPlaces
  <2>3. CASE p = n + 1
    <3>1. TypeAt(output, i, p, q) = "item.done"
      BY <1>1, <2>3, TypesOfPlaces
    <3>2. j = k
      BY <2>1, <3>1, OnceEach
    <3> QED BY <1>3, <3>2
  <2>4. CASE p < n + 1
    <3>1. k < j
      BY <2>1, <2>2, <2>4, PlacesInOrder
    <3> QED BY <1>3, <3>1
  <2> QED BY <1>2, <2>3, <2>4
<1> HIDE DEF k
<1> QED BY <1>6, <1>7, <1>8, <1>9 DEF k

\* Parts: k is the place of an event of part p of item i, told in d deltas.
LEMMA PartsNest ==
  ASSUME NEW output, NEW at, NEW pts, NEW w, NEW o, NEW m, Client(output, at, pts, w, o, m),
         NEW i, NEW p, NEW q, Place(output, i, p, q), Pos(at, pts, i, p, q) <= m,
         p \in 1 .. PartsOf(output, i), NEW d \in Nat, d = output[i].parts[p]
  PROVE  LET k == Pos(at, pts, i, p, q)
         IN /\ q = 1 => Earlier(o, k, "part.added") = {}
            /\ q \in 2 .. d + 2 => /\ Earlier(o, k, "part.added") # {}
                                  /\ Earlier(o, k, "text.done") = {}
                                  /\ Cardinality(Earlier(o, k, "delta")) = q - 2
            /\ q = d + 3 => /\ Earlier(o, k, "text.done") # {}
                            /\ Earlier(o, k, "part.done") = {}
<1> DEFINE k == Pos(at, pts, i, p, q)
           first == Pos(at, pts, i, p, 1)
<1>1. output \in Seq(OutputItems) /\ i \in 1 .. Len(output) /\ q \in Nat
  <2>1. output \in Seq(OutputItems) /\ i \in 1 .. Len(output)
    BY DEF Client, Place
  <2>2. q \in 1 .. d + 3
    BY DEF Place, Width
  <2> QED BY <2>1, <2>2
<1>2. /\ k \in Nat /\ first \in Nat /\ k = first + (q - 1)
      /\ \A t \in 1 .. d + 3 : Place(output, i, p, t) /\ Pos(at, pts, i, p, t) = first + (t - 1)
  <2>1. k \in Nat
    BY ToldEarlier
  <2>2. \A t \in 1 .. d + 3 : Place(output, i, p, t)
    BY <1>1, PlacesOfTypes
  <2>3. k = first + (q - 1)
    BY PlacesInOrder
  <2>4. ASSUME NEW t \in 1 .. d + 3 PROVE Pos(at, pts, i, p, t) = first + (t - 1)
    BY <2>2, PlacesInOrder
  <2>5. first \in Nat
    <3>1. 1 \in 1 .. d + 3
      OBVIOUS
    <3>2. Place(output, i, p, 1)
      BY <2>2, <3>1
    <3>3. first \in 3 .. Len(w) - 1
      BY <3>2, ToldAtPlace
    <3>4. w \in Seq(Events)
      BY DEF Client, Laid
    <3>5. Len(w) \in Nat
      BY <3>4
    <3> QED BY <3>3, <3>5
  <2> QED BY <2>1, <2>2, <2>3, <2>4, <2>5
<1>3. o[k].item = i /\ o[k].part = p
  BY ToldAtPlace DEF IsAt
\* Earlier events of the part have places in it.
<1>4. ASSUME NEW type \in {"part.added", "delta", "text.done", "part.done"},
             NEW j \in Earlier(o, k, type)
      PROVE  \E t : /\ Place(output, i, p, t) /\ j = Pos(at, pts, i, p, t)
                    /\ TypeAt(output, i, p, t) = type /\ j \in 1 .. k - 1
  <2>1. j \in 1 .. k - 1 /\ o[j].type = type /\ o[j].item = i /\ o[j].part = p
    BY <1>3 DEF Earlier
  <2>2. PICK r, t : /\ Place(output, i, r, t) /\ j = Pos(at, pts, i, r, t)
                    /\ IsAt(o[j], output, i, r, t)
    BY <2>1, ToldEarlier
  <2>3. TypeAt(output, i, r, t) = type
    BY <2>1, <2>2 DEF IsAt
  <2>4. r \in 1 .. PartsOf(output, i)
    BY <1>1, <2>2, <2>3, TypesOfPlaces
  <2>5. r = p
    BY <2>1, <2>2, <2>4 DEF IsAt
  <2> QED BY <2>1, <2>2, <2>3, <2>5
\* Earlier places in the part were told.
<1>5. ASSUME NEW t \in 1 .. d + 3, t < q
      PROVE  first + (t - 1) \in Earlier(o, k, TypeAt(output, i, p, t))
  <2>1. Place(output, i, p, t) /\ Pos(at, pts, i, p, t) = first + (t - 1)
    BY <1>2
  <2>2. Pos(at, pts, i, p, t) < k
    BY <1>1, <1>2, <1>5, <2>1
  <2>3. /\ Pos(at, pts, i, p, t) \in 1 .. k - 1
        /\ IsAt(o[Pos(at, pts, i, p, t)], output, i, p, t)
    BY <2>1, <2>2, ToldEarlier
  <2> QED BY <1>3, <2>1, <2>3 DEF IsAt, Earlier
\* What is told once of a part was not told before.
<1>6. ASSUME TypeAt(output, i, p, q) \in {"part.added", "part.done"}
      PROVE  Earlier(o, k, TypeAt(output, i, p, q)) = {}
  <2> SUFFICES ASSUME NEW j \in Earlier(o, k, TypeAt(output, i, p, q)) PROVE FALSE
    OBVIOUS
  <2>1. PICK t : /\ Place(output, i, p, t) /\ j = Pos(at, pts, i, p, t)
                 /\ TypeAt(output, i, p, t) = TypeAt(output, i, p, q) /\ j \in 1 .. k - 1
    BY <1>4, <1>6
  <2>2. j = k
    BY <1>6, <2>1, OnceEach
  <2> QED BY <1>2, <2>1, <2>2
<1>7. /\ TypeAt(output, i, p, 1) = "part.added"
      /\ \A t \in 2 .. d + 1 : TypeAt(output, i, p, t) = "delta"
      /\ TypeAt(output, i, p, d + 2) = "text.done"
      /\ TypeAt(output, i, p, d + 3) = "part.done"
  BY <1>1, PlacesOfTypes
<1>8. ASSUME q = 1 PROVE Earlier(o, k, "part.added") = {}
  BY <1>6, <1>7, <1>8
<1>9. ASSUME q \in 2 .. d + 2
      PROVE  /\ Earlier(o, k, "part.added") # {}
             /\ Earlier(o, k, "text.done") = {}
             /\ Cardinality(Earlier(o, k, "delta")) = q - 2
  <2>1. Earlier(o, k, "part.added") # {}
    <3>1. 1 \in 1 .. d + 3 /\ 1 < q
      BY <1>9
    <3> QED BY <1>5, <1>7, <3>1
  <2>2. Earlier(o, k, "text.done") = {}
    <3> SUFFICES ASSUME NEW j \in Earlier(o, k, "text.done") PROVE FALSE
      OBVIOUS
    <3>1. PICK t : /\ Place(output, i, p, t) /\ j = Pos(at, pts, i, p, t)
                   /\ TypeAt(output, i, p, t) = "text.done" /\ j \in 1 .. k - 1
      BY <1>4
    <3>2. t = d + 2 /\ t \in 1 .. d + 3
      BY <1>1, <3>1, TypesOfPlaces
    <3>3. j = first + (d + 1)
      <4>1. t - 1 = d + 1
        BY <3>2
      <4> QED BY <1>2, <3>1, <3>2, <4>1
    <3> QED BY <1>2, <1>9, <3>1, <3>3
  <2>3. Earlier(o, k, "delta") = first + 1 .. first + (q - 2)
    <3>1. ASSUME NEW j \in Earlier(o, k, "delta") PROVE j \in first + 1 .. first + (q - 2)
      <4>1. PICK t : /\ Place(output, i, p, t) /\ j = Pos(at, pts, i, p, t)
                     /\ TypeAt(output, i, p, t) = "delta" /\ j \in 1 .. k - 1
        BY <1>4
      <4>2. t \in 2 .. d + 1
        BY <1>1, <4>1, TypesOfPlaces
      <4>3. t \in 1 .. d + 3
        BY <4>2
      <4>4. j = first + (t - 1)
        BY <1>2, <4>1, <4>3
      <4>5. /\ first \in Nat /\ q \in Nat /\ k = first + (q - 1) /\ t \in Nat /\ t >= 2
            /\ j \in 1 .. k - 1
        BY <1>1, <1>2, <4>1, <4>2
      <4> HIDE DEF k, first
      <4> QED BY ONLY <4>4, <4>5
    <3>2. ASSUME NEW j \in first + 1 .. first + (q - 2) PROVE j \in Earlier(o, k, "delta")
      <4>1. PICK t \in 2 .. d + 1 : j = first + (t - 1) /\ t < q /\ t \in 1 .. d + 3
        <5>1. j - first + 1 \in 2 .. d + 1 /\ j = first + ((j - first + 1) - 1)
              /\ j - first + 1 < q /\ j - first + 1 \in 1 .. d + 3
          <6>1. first \in Nat /\ q \in 2 .. d + 2
            BY <1>2, <1>9
          <6> HIDE DEF k, first
          <6> QED BY ONLY <3>2, <6>1, d \in Nat
        <5> QED BY <5>1
      <4>2. j \in Earlier(o, k, TypeAt(output, i, p, t))
        BY <1>5, <4>1
      <4> QED BY <1>7, <4>2
    <3> QED BY <3>1, <3>2
  <2>4. Cardinality(first + 1 .. first + (q - 2)) = q - 2
    <3> DEFINE a == first + 1
               b == first + (q - 2)
    <3>1. a \in Int /\ b \in Int
      BY <1>1, <1>2
    <3>2. (IF a > b THEN 0 ELSE b - a + 1) = q - 2
      <4> HIDE DEF first, k
      <4> QED BY <1>2, <1>9
    <3> HIDE DEF a, b
    <3>3. Cardinality(a .. b) = IF a > b THEN 0 ELSE b - a + 1
      BY <3>1, FS_Interval
    <3> QED BY <3>2, <3>3 DEF a, b
  <2> QED BY <2>1, <2>2, <2>3, <2>4
<1>10. ASSUME q = d + 3
       PROVE  Earlier(o, k, "text.done") # {} /\ Earlier(o, k, "part.done") = {}
  <2>1. d + 2 \in 1 .. d + 3 /\ d + 2 < q
    BY <1>10
  <2>2. Earlier(o, k, "text.done") # {}
    BY <1>5, <1>7, <2>1
  <2>3. Earlier(o, k, "part.done") = {}
    BY <1>6, <1>7, <1>10
  <2> QED BY <2>2, <2>3
<1> HIDE DEF k
<1> QED BY <1>8, <1>9, <1>10 DEF k

\* An event told carries its place as its number.
LEMMA NumberTold ==
  ASSUME NEW output, NEW at, NEW pts, NEW w, NEW o, NEW m, Client(output, at, pts, w, o, m),
         NEW k \in DOMAIN o
  PROVE  o[k].sequence_number = k - 1
<1>1. /\ o \in Seq(Events) /\ m \in Nat /\ m <= Len(w) /\ w \in Seq(Events)
      /\ Len(o) = m \/ (Len(o) = m + 1 /\ o[m + 1] = ErrorEvent(m))
      /\ \A j \in 1 .. m : o[j] = w[j]
      /\ \A j \in 1 .. Len(w) : w[j].sequence_number = j - 1
  BY DEF Client, Laid
<1>2. k \in 1 .. Len(o) /\ Len(w) \in Nat
  BY <1>1
<1>3. CASE k <= m
  <2>1. k \in 1 .. m /\ k \in 1 .. Len(w)
    BY <1>1, <1>2, <1>3
  <2> QED BY <1>1, <2>1
<1>4. CASE ~(k <= m)
  <2>1. k = m + 1 /\ Len(o) = m + 1 /\ m + 1 # m /\ k - 1 = m
    BY <1>1, <1>2, <1>4
  <2>2. o[k] = ErrorEvent(m)
    BY <1>1, <2>1
  <2> QED BY <1>1, <2>1, <2>2, ErrorIsEvent
<1> QED BY <1>3, <1>4

\* When an item is done, so are the parts of it that were added.
LEMMA PartsAreDone ==
  ASSUME NEW output, NEW at, NEW pts, NEW w, NEW o, NEW m, Client(output, at, pts, w, o, m),
         NEW i, NEW q, Place(output, i, PartsOf(output, i) + 1, q),
         Pos(at, pts, i, PartsOf(output, i) + 1, q) <= m,
         NEW j \in Told(o, "part.added"), o[j].item = i
  PROVE  \E d \in Told(o, "part.done") :
           /\ d < Pos(at, pts, i, PartsOf(output, i) + 1, q)
           /\ o[d].item = i /\ o[d].part = o[j].part
<1> DEFINE n == PartsOf(output, i)
           k == Pos(at, pts, i, n + 1, q)
<1>1. output \in Seq(OutputItems) /\ i \in 1 .. Len(output)
  BY DEF Client, Place
<1>2. n \in Nat /\ i # 0
  BY <1>1, OutputShape
<1>3. j \in DOMAIN o /\ o[j].type = "part.added"
  BY DEF Told
<1>4. PICK l, r, t : /\ Place(output, l, r, t) /\ j = Pos(at, pts, l, r, t)
                     /\ IsAt(o[j], output, l, r, t)
  BY <1>2, <1>3, PlaceOfTold
<1>5. l = i /\ TypeAt(output, i, r, t) = "part.added"
  BY <1>3, <1>4 DEF IsAt
<1>6. r \in 1 .. n /\ output[i].parts[r] \in Nat
  BY <1>1, <1>4, <1>5, TypesOfPlaces
<1>7. o[j].part = r
  BY <1>4, <1>5, <1>6 DEF IsAt
<1>8. PICK d \in Nat : d = output[i].parts[r]
  BY <1>6
<1>9. Place(output, i, r, d + 3) /\ TypeAt(output, i, r, d + 3) = "part.done"
  <2>1. d + 3 \in 1 .. d + 3
    OBVIOUS
  <2> QED BY <1>1, <1>6, <1>8, <2>1, PlacesOfTypes
<1> DEFINE c == Pos(at, pts, i, r, d + 3)
<1>10. c < k
  <2>1. r < n + 1
    BY <1>2, <1>6
  <2> QED BY <1>9, <2>1, PlacesInOrder
<1>11. c \in 1 .. k - 1 /\ c \in DOMAIN o /\ IsAt(o[c], output, i, r, d + 3)
  BY <1>9, <1>10, ToldEarlier
<1>12. o[c].type = "part.done" /\ o[c].item = i /\ o[c].part = r
  BY <1>6, <1>9, <1>11 DEF IsAt
<1> QED BY <1>7, <1>10, <1>11, <1>12 DEF Told

\* An event at a place ...
LEMMA PlaceNests ==
  ASSUME NEW output, NEW at, NEW pts, NEW w, NEW o, NEW m, Client(output, at, pts, w, o, m),
         NEW i, NEW p, NEW q, Place(output, i, p, q), Pos(at, pts, i, p, q) <= m
  PROVE  NestsAt(o, Pos(at, pts, i, p, q))
<1> DEFINE k == Pos(at, pts, i, p, q)
           e == o[k]
           n == PartsOf(output, i)
           d == output[i].parts[p]
           type == TypeAt(output, i, p, q)
<1>1. output \in Seq(OutputItems) /\ i \in 1 .. Len(output) /\ i > 0
  BY DEF Client, Place
<1>2. k \in DOMAIN o /\ IsAt(e, output, i, p, q)
  BY ToldAtPlace
<1>3. e.sequence_number = k - 1
  BY <1>2, NumberTold
<1>4. e.type = type /\ e.item = i
  BY <1>2 DEF IsAt
<1>5. /\ type = "item.added" <=> p = 0
      /\ type = "item.done" <=> p = n + 1
      /\ type \in {"part.added", "delta", "text.done", "part.done"} => p \in 1 .. n /\ d \in Nat
      /\ type = "part.added" => q = 1
      /\ type = "delta" => q \in 2 .. d + 1 /\ DeltaAt(output, i, p, q) = q - 1
      /\ type = "text.done" => q = d + 2 /\ DeltaAt(output, i, p, q) = d
      /\ type = "part.done" => q = d + 3
  BY <1>1, TypesOfPlaces
<1>6. type \in {"item.added", "part.added", "delta", "text.done", "part.done", "item.done"}
  BY <1>1, PlaceTypes
<1>7. /\ p = 0 => ~Added(o, k, i) /\ \A l \in 1 .. i - 1 : Done(o, k, l)
      /\ p # 0 => Added(o, k, i) /\ ~Done(o, k, i)
  BY ItemsNest
<1>8. ASSUME p \in 1 .. n, d \in Nat
      PROVE  /\ q = 1 => Earlier(o, k, "part.added") = {}
             /\ q \in 2 .. d + 2 => /\ Earlier(o, k, "part.added") # {}
                                   /\ Earlier(o, k, "text.done") = {}
                                   /\ Cardinality(Earlier(o, k, "delta")) = q - 2
             /\ q = d + 3 => /\ Earlier(o, k, "text.done") # {}
                             /\ Earlier(o, k, "part.done") = {}
  BY <1>8, PartsNest
<1>9. ASSUME p = n + 1
      PROVE  \A j \in Told(o, "part.added") : o[j].item = i =>
               \E c \in Told(o, "part.done") : c < k /\ o[c].item = i /\ o[c].part = o[j].part
  BY <1>9, PartsAreDone
<1>10. e.type \in {"delta", "text.done"} => e.delta = DeltaAt(output, i, p, q)
  BY <1>2 DEF IsAt
<1> SUFFICES NestsAt(o, k)
  OBVIOUS
<1> HIDE DEF k, n, d, type
<1>11. CASE type = "item.added"
  BY <1>1, <1>3, <1>4, <1>5, <1>7, <1>11 DEF NestsAt
<1>12. CASE type = "item.done"
  <2>1. p # 0
    BY <1>5, <1>12
  <2> QED BY <1>3, <1>4, <1>5, <1>7, <1>9, <1>12, <2>1 DEF NestsAt
<1>13. CASE type \in {"part.added", "delta", "text.done", "part.done"}
  <2>1. p \in 1 .. n /\ d \in Nat /\ p # 0
    BY <1>5, <1>13
  <2>2. Added(o, k, i) /\ ~Done(o, k, i)
    BY <1>7, <2>1
  <2>3. CASE type = "part.added"
    <3>1. Earlier(o, k, "part.added") = {}
      BY <1>5, <1>8, <2>1, <2>3
    <3> QED BY <1>3, <1>4, <2>2, <2>3, <3>1 DEF NestsAt
  <2>4. CASE type = "delta"
    <3>1. q \in 2 .. d + 2 /\ e.delta = q - 1 /\ (q - 1) - 1 = q - 2
      BY <1>4, <1>5, <1>10, <2>1, <2>4
    <3>2. /\ Earlier(o, k, "part.added") # {} /\ Earlier(o, k, "text.done") = {}
          /\ Cardinality(Earlier(o, k, "delta")) = e.delta - 1
      BY <1>8, <2>1, <3>1
    <3> QED BY <1>3, <1>4, <2>2, <2>4, <3>2 DEF NestsAt
  <2>5. CASE type = "text.done"
    <3>1. q \in 2 .. d + 2 /\ e.delta = d /\ q - 2 = d
      BY <1>4, <1>5, <1>10, <2>1, <2>5
    <3>2. /\ Earlier(o, k, "part.added") # {} /\ Earlier(o, k, "text.done") = {}
          /\ Cardinality(Earlier(o, k, "delta")) = e.delta
      BY <1>8, <2>1, <3>1
    <3> QED BY <1>3, <1>4, <2>2, <2>5, <3>2 DEF NestsAt
  <2>6. CASE type = "part.done"
    <3>1. Earlier(o, k, "text.done") # {} /\ Earlier(o, k, "part.done") = {}
      BY <1>5, <1>8, <2>1, <2>6
    <3> QED BY <1>3, <1>4, <2>2, <2>6, <3>1 DEF NestsAt
  <2> QED BY <1>13, <2>3, <2>4, <2>5, <2>6
<1> QED BY <1>6, <1>11, <1>12, <1>13

\* ... and an event of the response itself.
LEMMA ResponseNests ==
  ASSUME NEW output, NEW at, NEW pts, NEW w, NEW o, NEW m, Client(output, at, pts, w, o, m),
         NEW k \in DOMAIN o, o[k].item = 0,
         o[k].type \in {"created", "in_progress", "terminal", "error"},
         o[k].type = "terminal" => k = Len(w) /\ k = m
  PROVE  NestsAt(o, k)
<1>1. o[k].sequence_number = k - 1
  BY NumberTold
<1>2. CASE o[k].type # "terminal"
  BY <1>1, <1>2 DEF NestsAt
<1>3. CASE o[k].type = "terminal"
  <2>1. output \in Seq(OutputItems) /\ w \in Seq(Events)
    BY DEF Client, Laid
  <2>2. ASSUME NEW j \in DOMAIN o, o[j].item # 0
        PROVE  Done(o, k, o[j].item)
    <3>1. PICK i, p, q : /\ Place(output, i, p, q) /\ j = Pos(at, pts, i, p, q)
                         /\ IsAt(o[j], output, i, p, q)
      BY <2>2, PlaceOfTold
    <3>2. i \in 1 .. Len(output) /\ o[j].item = i
      BY <3>1 DEF Place, IsAt
    <3> DEFINE n == PartsOf(output, i)
               c == Pos(at, pts, i, n + 1, 1)
    <3>3. Place(output, i, n + 1, 1) /\ TypeAt(output, i, n + 1, 1) = "item.done"
      BY <2>1, <3>2, PlacesOfTypes
    <3>4. /\ c \in 3 .. Len(w) - 1
          /\ c <= m => IsAt(o[c], output, i, n + 1, 1)
      BY <3>3, ToldAtPlace
    <3>5. c \in 1 .. k - 1 /\ c <= m
      <4>1. Len(w) \in Nat /\ k = Len(w) /\ m = Len(w)
        BY <1>3, <2>1
      <4> HIDE DEF c
      <4> QED BY <3>4, <4>1
    <3>6. o[c].type = "item.done" /\ o[c].item = i
      BY <3>3, <3>4, <3>5 DEF IsAt
    <3> HIDE DEF c
    <3> QED BY <3>2, <3>5, <3>6 DEF Done
  <2>3. \A i \in {o[j].item : j \in DOMAIN o} \ {0} : Done(o, k, i)
    BY <2>2
  <2> QED BY <1>1, <1>3, <2>3 DEF NestsAt
<1> QED BY <1>2, <1>3

LEMMA ClientNests ==
  ASSUME NEW output, NEW at, NEW pts, NEW w, NEW o, NEW m, Client(output, at, pts, w, o, m),
         NEW k \in DOMAIN o
  PROVE  NestsAt(o, k)
<1>1. CASE /\ k <= m
           /\ \E i, p, q : Place(output, i, p, q) /\ k = Pos(at, pts, i, p, q)
  BY <1>1, PlaceNests
<1>2. CASE /\ o[k].item = 0
           /\ o[k].type \in {"created", "in_progress", "terminal", "error"}
           /\ o[k].type = "terminal" => k = Len(w) /\ k = m
  BY <1>2, ResponseNests
<1> QED BY <1>1, <1>2, PlaceOfTold

\* What a client has of a plan's schedule is the opening of a schedule, and
\* perhaps an error.
LEMMA NestsFromShapes == TypeOK /\ Shaped => EventsNest
<1> SUFFICES ASSUME TypeOK, Shaped, NEW s \in Streams, NEW k \in DOMAIN out[s]
             PROVE  NestsAt(out[s], k)
  BY DEF EventsNest
<1> DEFINE o == out[s]
<1>1. o \in Seq(Events) /\ Len(o) \in Nat
  <2>1. o \in Seq(Events)
    BY DEF TypeOK
  <2> QED BY <2>1
<1>2. CASE o = <<>>
  BY <1>2
<1>3. CASE o # <<>>
  <2> DEFINE p == plan[s]
  <2>1. p \in Plans /\ (Telling(p, o) \/ Failed(p, o))
    <3>1. pc[s] # "new"
      BY <1>3 DEF Shaped
    <3>2. p \in Plans /\ p # None
      BY <3>1 DEF TypeOK
    <3> DEFINE where == pc[s]
               fire == fires[s]
    <3>3. Shape(p, where, fire, o)
      BY <3>2 DEF Shaped
    <3>4. where \in {"refused", "created", "ended", "dropped",
                     "ttft", "stall", "gap", "yield", "error"}
      BY <3>1 DEF TypeOK, Started
    <3> HIDE DEF o, p, where, fire
    <3>5. where \notin {"refused", "created", "ttft"}
      BY <1>3, <3>3 DEF Shape
    <3>6. InLoop(p, o) \/ Complete(p, o) \/ CutOff(p, fire, o) => Telling(p, o)
      BY DEF InLoop, Complete, CutOff
    <3>7. CASE where \in {"stall", "gap"}
      BY <3>2, <3>3, <3>6, <3>7 DEF Shape
    <3>8. CASE where \in {"yield", "error", "ended", "dropped"}
      BY <3>2, <3>3, <3>6, <3>8 DEF Shape
    <3> QED BY <3>4, <3>5, <3>7, <3>8
  <2> DEFINE w == p.events
  <2>2. /\ p.output \in Seq(OutputItems) /\ w = ResponseSchedule(p.output)
    BY <2>1, PlanAssumption
  <2>3. PICK at, pts : Laid(p.output, at, pts, w)
    BY <2>2, ScheduleIsLaid
  <2>4. Len(w) \in Nat
    BY <2>1, ScheduleShape
  <2>5. \E m : Client(p.output, at, pts, w, o, m)
    <3>1. CASE Telling(p, o)
      <4>1. Len(o) <= Len(w) /\ \A j \in 1 .. Len(o) : o[j] = w[j]
        BY <3>1 DEF Telling, Tells, Total
      <4>2. Client(p.output, at, pts, w, o, Len(o))
        BY <1>1, <2>2, <2>3, <4>1 DEF Client
      <4> QED BY <4>2
    <3>2. CASE Failed(p, o)
      <4> DEFINE m == Len(o) - 1
      <4>1. /\ Len(o) \in 1 .. Len(w) /\ o[Len(o)] = ErrorEvent(m)
            /\ \A j \in 1 .. m : o[j] = w[j]
        BY <3>2 DEF Failed, Tells, Total
      <4>2. m \in Nat /\ m <= Len(w) /\ Len(o) = m + 1
        BY <1>1, <2>4, <4>1
      <4> HIDE DEF m
      <4>3. Client(p.output, at, pts, w, o, m)
        BY <1>1, <2>2, <2>3, <4>1, <4>2 DEF Client
      <4> QED BY <4>3
    <3> QED BY <2>1, <3>1, <3>2
  <2> QED BY <2>5, ClientNests
<1> QED BY <1>2, <1>3

\* A client of responses_sse_stream reads, at every moment, a well-nested opening
\* of a response: items one at a time in the order of the output, their parts one
\* at a time within them, deltas in order before a text done that counts them
\* all, and a terminal event only after every item, each event numbered by its
\* place, and the error of a fault by that of the event it replaces.
THEOREM EventsAlwaysNest == Spec => []EventsNest
BY InitShaped, NextShaped, NestsFromShapes, PTL DEF Spec

-----------------------------------------------------------------------------
(***************************************************************************)
(* The generator implements an event stream.                               *)
(***************************************************************************)
Failures(p) == AbstractStream!Failures(ScriptOf(p))

\* The failure after n events, event by event.
LEMMA FailureTranscript ==
  ASSUME NEW p \in Plans, NEW n \in 0 .. Len(p.events) - 1
  PROVE  LET t == SubSeq(p.events, 1, n) \o <<ErrorEvent(n)>>
         IN /\ t \in Failures(p) /\ t \in Seq(Events) /\ Len(t) = n + 1
            /\ \A k \in 1 .. n : t[k] = p.events[k]
            /\ t[n + 1] = ErrorEvent(n)
<1> DEFINE w == p.events
           told == SubSeq(w, 1, n)
           end == <<ErrorEvent(n)>>
<1>1. w \in Seq(Events) /\ Len(w) \in Nat /\ n \in Nat /\ n <= Len(w)
  BY ScheduleShape
<1>2. told \o end \in Failures(p)
  BY DEF Failures, AbstractStream!Failures, ScriptOf
<1>3. end \in Seq(Events) /\ Len(end) = 1 /\ end[1] = ErrorEvent(n)
  <2>1. ErrorEvent(n) \in Events
    BY <1>1, ErrorIsEvent
  <2> QED BY <2>1
<1>4. /\ told \in Seq(Events) /\ Len(told) = n
      /\ \A k \in 1 .. n : told[k] = w[k]
  <2> HIDE DEF w
  <2>1. \A k \in 1 .. n : w[k] \in Events
    BY <1>1
  <2>2. n - 1 + 1 = n /\ (IF 1 <= n THEN n - 1 + 1 ELSE 0) = n
        /\ \A k \in 1 .. n : 1 + k - 1 = k
    BY <1>1
  <2> QED BY <1>1, <2>1, <2>2, SubSeqProperties
<1> HIDE DEF told, end, w
<1>5. /\ told \o end \in Seq(Events) /\ Len(told \o end) = n + 1
      /\ \A k \in 1 .. n + 1 :
           (told \o end)[k] = IF k <= n THEN told[k] ELSE end[k - n]
  <2>1. /\ told \o end \in Seq(Events) /\ Len(told \o end) = Len(told) + Len(end)
        /\ \A k \in 1 .. Len(told) + Len(end) :
             (told \o end)[k] = IF k <= Len(told) THEN told[k] ELSE end[k - Len(told)]
    BY <1>3, <1>4, ConcatProperties
  <2> QED BY <1>3, <1>4, <2>1
<1>6. \A k \in 1 .. n : (told \o end)[k] = w[k]
  BY <1>1, <1>4, <1>5
<1>7. (told \o end)[n + 1] = end[1]
  <2>1. n + 1 \in 1 .. n + 1 /\ ~(n + 1 <= n) /\ (n + 1) - n = 1
    BY <1>1
  <2> QED BY <1>5, <2>1
<1> QED BY <1>2, <1>3, <1>5, <1>6, <1>7 DEF told, end, w

\* What was sent is the start of the schedule, or a whole failure.
LEMMA SentTranscript ==
  ASSUME NEW p \in Plans, NEW o \in Seq(Events)
  PROVE  /\ Telling(p, o) => IsPrefix(o, p.events)
         /\ Complete(p, o) => o = p.events
         /\ Failed(p, o) => o \in Failures(p)
<1> DEFINE w == p.events
<1>1. Len(o) \in Nat /\ w \in Seq(Events) /\ Len(w) \in Nat
  BY ScheduleShape
<1>2. Telling(p, o) => Len(o) <= Len(w) /\ \A k \in 1 .. Len(o) : o[k] = w[k]
  BY DEF Telling, Tells, Total
<1>3. Complete(p, o) => Telling(p, o) /\ Len(o) = Len(w)
  BY DEF Complete, Total
<1>4. ASSUME Failed(p, o) PROVE o \in Failures(p)
  <2> DEFINE n == Len(o) - 1
  <2>1. n \in 0 .. Len(p.events) - 1 /\ Len(o) = n + 1 /\ n \in Nat
    BY <1>1, <1>4 DEF Failed, Total
  <2>2. o[n + 1] = ErrorEvent(n) /\ \A k \in 1 .. n : o[k] = p.events[k]
    BY <2>1, <1>4 DEF Failed, Tells
  <2> HIDE DEF n
  <2>3. PICK t \in Failures(p) :
               /\ t \in Seq(Events) /\ Len(t) = n + 1
               /\ \A k \in 1 .. n : t[k] = p.events[k]
               /\ t[n + 1] = ErrorEvent(n)
    BY <2>1, FailureTranscript
  <2>4. \A k \in 1 .. n + 1 : k \in 1 .. n \/ k = n + 1
    BY <2>1
  <2>5. \A k \in 1 .. Len(o) : o[k] = t[k]
    BY <2>1, <2>2, <2>3, <2>4
  <2>6. o = t
    BY <2>1, <2>3, <2>5, SeqEqual
  <2> QED BY <2>3, <2>6
<1> HIDE DEF w
<1>5. Telling(p, o) => IsPrefix(o, w)
  BY <1>1, <1>2, PrefixByElements
<1>6. Complete(p, o) => o = w
  BY <1>1, <1>2, <1>3, SeqEqual
<1> QED BY <1>4, <1>5, <1>6 DEF w

\* A stream that is open goes from one state to the next.
LEMMA OpenStreamStep ==
  ASSUME NEW s \in Streams, NEW p \in Plans, plan[s] = p, UNCHANGED plan,
         out \in [Streams -> Seq(Events)],
         Status(s) = "open",
         NEW where \in Started \cup {"ended"}, NEW o, Moves(s, where, o),
         Good(p, where, fires'[s], o),
         \A u \in Streams : u # s => Status(u)' = Status(u),
         where # "ended" => Status(s)' = "open",
         where = "ended" => /\ Complete(p, o) => Status(s)' = "complete"
                            /\ Failed(p, o) => Status(s)' = "failed"
                            /\ CutOff(p, fires'[s], o) => Status(s)' = "cut"
  PROVE  [AbstractStream!Next]_(AbstractStream!vars)
<1> DEFINE status == [u \in Streams |-> Status(u)]
           script == [u \in Streams |-> IF plan[u] = None THEN None ELSE ScriptOf(plan[u])]
<1>1. /\ o \in Seq(Events) /\ Shape(p, where, fires'[s], o)
      /\ out' = [out EXCEPT ![s] = o] /\ out[s] \in Seq(Events)
  BY DEF Good, Moves
<1>2. p # None /\ p.events \in Seq(Events) /\ Len(p.events) \in Nat
  BY NoneAssumption, ScheduleShape
<1>3. /\ script' = script /\ script[s] = ScriptOf(p)
      /\ ScriptOf(p).whole = p.events /\ ScriptOf(p).body = Len(p.events) - 1
  BY <1>2 DEF ScriptOf
<1>4. CASE o = out[s] /\ where # "ended"
  <2>1. status' = status /\ out' = out
    BY <1>1, <1>4
  <2> QED BY <2>1 DEF AbstractStream!vars
<1>5. CASE where = "ended"
  <2>1. out' = out /\ o = out[s]
    BY <1>1, <1>5 DEF Moves
  <2>2. PICK end \in {"complete", "failed", "cut"} :
               status' = [status EXCEPT ![s] = end] /\ AbstractStream!MayEnd(s, end)
    <3>1. CASE Complete(p, o)
      <4>1. AbstractStream!MayEnd(s, "complete")
        <5>1. o = p.events
          BY <1>1, <3>1, SentTranscript
        <5> QED BY <1>3, <2>1, <5>1 DEF AbstractStream!MayEnd
      <4>2. status' = [status EXCEPT ![s] = "complete"]
        BY <1>5, <3>1
      <4> QED BY <4>1, <4>2
    <3>2. CASE Failed(p, o)
      <4>1. AbstractStream!MayEnd(s, "failed")
        <5>1. o \in AbstractStream!Failures(ScriptOf(p))
          BY <1>1, <3>2, SentTranscript DEF Failures
        <5> QED BY <1>2, <2>1, <5>1 DEF AbstractStream!MayEnd
      <4>2. status' = [status EXCEPT ![s] = "failed"]
        BY <1>5, <3>2
      <4> QED BY <4>1, <4>2
    <3>3. CASE CutOff(p, fires'[s], o)
      <4>1. IsPrefix(o, p.events)
        BY <1>1, <3>3, SentTranscript DEF CutOff, InLoop
      <4>2. Len(o) <= Len(p.events) - 1
        <5>1. Len(o) < Len(p.events) /\ Len(o) \in Nat
          BY <1>1, <3>3 DEF CutOff, InLoop, Total
        <5> QED BY <1>2, <5>1
      <4>3. AbstractStream!MayEnd(s, "cut")
        BY <1>3, <2>1, <4>1, <4>2 DEF AbstractStream!MayEnd, AbstractStream!IsPrefix, IsPrefix
      <4>4. status' = [status EXCEPT ![s] = "cut"]
        BY <1>5, <3>3
      <4> QED BY <4>3, <4>4
    <3> QED BY <1>1, <1>5, <3>1, <3>2, <3>3 DEF Shape
  <2>3. AbstractStream!End(s)
    BY <2>1, <2>2 DEF AbstractStream!End
  <2> QED BY <2>3 DEF AbstractStream!Next
<1>6. CASE where # "ended" /\ o # out[s]
  <2>1. PICK event \in Events : o = Append(out[s], event)
    BY <1>6 DEF Moves
  <2>2. PICK t \in {p.events} \cup Failures(p) : t \in Seq(Events) /\ IsPrefix(o, t)
    <3>1. Telling(p, o) \/ Failed(p, o)
      <4>1. o # <<>>
        BY <1>1, <2>1, AppendProperties
      <4> QED BY <1>1, <1>6, <4>1 DEF Shape, InLoop, Started
    <3>2. CASE Telling(p, o)
      BY <1>1, <1>2, <3>2, SentTranscript
    <3>3. CASE Failed(p, o)
      <4>1. o \in Failures(p)
        BY <1>1, <3>3, SentTranscript
      <4>2. IsPrefix(o, o)
        BY <1>1, PrefixByElements
      <4> QED BY <1>1, <4>1, <4>2
    <3> QED BY <3>1, <3>2, <3>3
  <2>3. IsStrictPrefix(out[s], t) /\ o = SubSeq(t, 1, Len(out[s]) + 1)
    BY <1>1, <2>1, <2>2, GrownPrefix
  <2>4. status[s] = "open" /\ status' = status
    BY <1>6
  <2>5. AbstractStream!Send(s)
    <3>1. t \in {script[s].whole} \cup AbstractStream!Failures(script[s])
      BY <1>3, <2>2 DEF Failures
    <3>2. out' = [out EXCEPT ![s] = SubSeq(t, 1, Len(@) + 1)]
      BY <1>1, <2>3
    <3>3. AbstractStream!IsStrictPrefix(out[s], t)
      BY <2>3 DEF AbstractStream!IsStrictPrefix, AbstractStream!IsPrefix,
                  IsStrictPrefix, IsPrefix
    <3> QED BY <1>3, <2>4, <3>1, <3>2, <3>3 DEF AbstractStream!Send
  <2> QED BY <2>5 DEF AbstractStream!Next
<1> QED BY <1>4, <1>5, <1>6

\* How an ended stream is told from what it sent.
EndsAreTold ==
  \A s \in Streams : \A p \in Plans : pc[s] = "ended" =>
    /\ Complete(p, out[s]) => Status(s) = "complete"
    /\ Failed(p, out[s]) => Status(s) = "failed"
    /\ CutOff(p, fires[s], out[s]) => Status(s) = "cut"

LEMMA EndStatus == TypeOK => EndsAreTold
<1> SUFFICES ASSUME TypeOK, NEW s \in Streams, NEW p \in Plans, pc[s] = "ended"
             PROVE  /\ Complete(p, out[s]) => Status(s) = "complete"
                    /\ Failed(p, out[s]) => Status(s) = "failed"
                    /\ CutOff(p, fires[s], out[s]) => Status(s) = "cut"
  BY DEF EndsAreTold
<1> DEFINE o == out[s]
<1>1. o \in Seq(Events) /\ Len(o) \in Nat
  <2>1. o \in Seq(Events)
    BY DEF TypeOK
  <2> QED BY <2>1
<1> HIDE DEF o
<1>2. /\ Telling(p, o) => Told(o, "error") = {}
      /\ InLoop(p, o) => Told(o, "terminal") = {}
      /\ Complete(p, o) => Told(o, "terminal") # {}
      /\ Failed(p, o) => Told(o, "error") # {}
  <2>1. {Len(o)} # {}
    OBVIOUS
  <2> QED BY <1>1, <2>1, EndsTold
<1>3. Status(s) = IF Told(o, "error") # {} THEN "failed"
                  ELSE IF Told(o, "terminal") # {} THEN "complete" ELSE "cut"
  BY DEF Status, Started, Sent, o
<1> QED BY <1>2, <1>3 DEF Complete, CutOff, InLoop, o

LEMMA InitRefines == Init => AbstractStream!Init
BY DEF Init, AbstractStream!Init, Status, Started

LEMMA NextRefines ==
  TypeOK /\ Shaped /\ [Next]_vars /\ EndsAreTold'
    => [AbstractStream!Next]_(AbstractStream!vars)
<1> SUFFICES ASSUME TypeOK, Shaped, [Next]_vars, EndsAreTold'
             PROVE  [AbstractStream!Next]_(AbstractStream!vars)
  OBVIOUS
<1> DEFINE status == [u \in Streams |-> Status(u)]
           script == [u \in Streams |-> IF plan[u] = None THEN None ELSE ScriptOf(plan[u])]
<1>1. ASSUME NEW s \in Streams, NEW p \in Plans, pc[s] = "new", UNCHANGED out,
             plan' = [plan EXCEPT ![s] = p],
             NEW where \in {"refused", "created"}, pc' = [pc EXCEPT ![s] = where]
      PROVE  AbstractStream!Next
  <2>1. p # None
    BY NoneAssumption
  <2>2. script' = [script EXCEPT ![s] = ScriptOf(p)]
    BY <1>1, <2>1 DEF TypeOK
  <2>3. status' = [status EXCEPT ![s] = IF where = "refused" THEN "refused" ELSE "open"]
    <3>1. Status(s)' = IF where = "refused" THEN "refused" ELSE "open"
      BY <1>1 DEF TypeOK, Status, Started
    <3>2. \A u \in Streams : u # s => Status(u)' = Status(u)
      BY <1>1 DEF TypeOK, Status, Sent
    <3> QED BY <3>1, <3>2
  <2>4. status[s] = "new"
    BY <1>1 DEF Status, Started
  <2>5. CASE where = "refused"
    <3>1. AbstractStream!Refuse(s)
      BY <1>1, <2>2, <2>3, <2>4, <2>5 DEF AbstractStream!Refuse
    <3> QED BY <3>1 DEF AbstractStream!Next
  <2>6. CASE where = "created"
    <3>1. AbstractStream!Open(s)
      BY <1>1, <2>2, <2>3, <2>4, <2>6 DEF AbstractStream!Open
    <3> QED BY <3>1 DEF AbstractStream!Next
  <2> QED BY <2>5, <2>6
<1>2. ASSUME NEW s \in Streams, HttpError(s) \/ OpenStream(s) \/ Conflict(s)
      PROVE  AbstractStream!Next
  <2>1. PICK p \in Plans : plan' = [plan EXCEPT ![s] = p]
    BY <1>2 DEF HttpError, OpenStream, Conflict, Count
  <2>2. pc[s] = "new" /\ UNCHANGED out
    BY <1>2 DEF HttpError, OpenStream, Conflict, Count
  <2>3. PICK where \in {"refused", "created"} : pc' = [pc EXCEPT ![s] = where]
    BY <1>2 DEF HttpError, OpenStream, Conflict
  <2> QED BY <1>1, <2>1, <2>2, <2>3
<1>3. ASSUME NEW s \in Streams, Poll(s)
      PROVE  [AbstractStream!Next]_(AbstractStream!vars)
  <2>1. /\ pc[s] \in Started \cup {"created"}
        /\ plan[s] \in Plans /\ UNCHANGED plan
    BY <1>3, PollShape
  <2>2. PICK where, o : Moves(s, where, o) /\ Good(plan[s], where, fires'[s], o)
    BY <1>3, PollShape
  <2>3. where \in Started \cup {"ended"}
    BY <2>2 DEF Good
  <2>4. out \in [Streams -> Seq(Events)]
    BY DEF TypeOK
  <2>5. /\ pc'[s] = where /\ out'[s] = o
        /\ \A u \in Streams : u # s => pc'[u] = pc[u] /\ out'[u] = out[u]
    BY <2>2 DEF Moves, TypeOK
  <2>6. Status(s) = "open"
    BY <2>1 DEF Status, Started
  <2>7. \A u \in Streams : u # s => Status(u)' = Status(u)
    BY <2>5 DEF Status, Sent
  <2>8. where # "ended" => Status(s)' = "open"
    BY <2>3, <2>5 DEF Status
  <2>9. where = "ended" => /\ Complete(plan[s], o) => Status(s)' = "complete"
                           /\ Failed(plan[s], o) => Status(s)' = "failed"
                           /\ CutOff(plan[s], fires'[s], o) => Status(s)' = "cut"
    <3>1. PICK p \in Plans : p = plan[s]
      BY <2>1
    <3>2. pc'[s] = "ended" => /\ Complete(p, out'[s]) => Status(s)' = "complete"
                              /\ Failed(p, out'[s]) => Status(s)' = "failed"
                              /\ CutOff(p, fires'[s], out'[s]) => Status(s)' = "cut"
      BY DEF EndsAreTold
    <3> QED BY <2>5, <3>1, <3>2
  <2> QED BY <2>1, <2>2, <2>3, <2>4, <2>6, <2>7, <2>8, <2>9, OpenStreamStep
<1>4. ASSUME NEW s \in Streams, Drop(s) PROVE AbstractStream!Next
  <2>1. /\ pc[s] \in Started \cup {"created"} /\ pc' = [pc EXCEPT ![s] = "dropped"]
        /\ UNCHANGED <<plan, fires, out>>
    BY <1>4 DEF Drop
  <2>2. script' = script /\ status[s] = "open"
    BY <2>1 DEF Status, Started
  <2>3. status' = [status EXCEPT ![s] = "dropped"]
    <3>1. Status(s)' = "dropped"
      BY <2>1 DEF TypeOK, Status, Started
    <3>2. \A u \in Streams : u # s => Status(u)' = Status(u)
      BY <2>1 DEF TypeOK, Status, Sent
    <3> QED BY <3>1, <3>2
  <2>4. AbstractStream!MayEnd(s, "dropped")
    BY DEF AbstractStream!MayEnd
  <2>5. AbstractStream!End(s)
    BY <2>1, <2>2, <2>3, <2>4 DEF AbstractStream!End
  <2> QED BY <2>5 DEF AbstractStream!Next
<1>5. CASE UNCHANGED vars
  <2>1. script' = script /\ UNCHANGED out
    BY <1>5 DEF vars
  <2>2. status' = status
    BY <1>5 DEF vars, Status, Sent
  <2> QED BY <2>1, <2>2 DEF AbstractStream!vars
<1> QED BY <1>2, <1>3, <1>4, <1>5 DEF Next

\* ImplementsEventStream: whatever the output, the pacing, the fault and the
\* client, responses_sse_stream sends the schedule of the response from its start,
\* each event once and in order, up to its end or the error of a fault in the place
\* of an event, and ends it as EventStream allows.
THEOREM ResponsesAreEventStreams == Spec => ImplementsEventStream
<1>1. Init => AbstractStream!Init
  BY InitRefines
<1>2. TypeOK /\ Shaped /\ [Next]_vars /\ EndsAreTold'
        => [AbstractStream!Next]_(AbstractStream!vars)
  BY NextRefines
<1> QED BY <1>1, <1>2, InitShaped, NextShaped, EndStatus, PTL
        DEF Spec, ImplementsEventStream, AbstractStream!Spec

==============================================================================
