------------------------ MODULE CreateResponseProofs ------------------------
(***************************************************************************)
(* What holds of CreateResponse and its stores for every value of the      *)
(* constants, in this order: generations exist and grow, the items each    *)
(* operation writes are well formed, and what a step does to a             *)
(* conversation and to a task; what a task knows of its conversation when  *)
(* it reaches append_response, and what the generation check there is      *)
(* worth; what requests leave in the stores; and that the sorted items     *)
(* implement an ordered log.                                               *)
(***************************************************************************)
EXTENDS ItemLogRefinement, DataFacts, FiniteSetTheorems, TLAPS

(***************************************************************************)
(* Generations.                                                            *)
(***************************************************************************)

\* Below, every well-formed item set has this property; it is what makes the
\* maximum in NextGeneration exist.
Bounded(set) == \E b \in Nat : \A i \in set : i.generation <= b

LEMMA NextGenerationIsNext ==
  ASSUME NEW set, IsItemSet(set), Bounded(set)
  PROVE  /\ NextGeneration(set) \in Nat
         /\ \A i \in set : i.generation < NextGeneration(set)
         /\ \/ NextGeneration(set) = 0
            \/ \E i \in set : NextGeneration(set) = i.generation + 1
<1> DEFINE G == {i.generation : i \in set}
<1>1. G \in SUBSET Nat
  BY DEF IsItemSet
<1>2. CASE G = {}
  BY <1>2 DEF NextGeneration
<1>3. CASE G # {}
  <2>1. PICK b \in Nat : \A i \in set : i.generation <= b
    BY DEF Bounded
  <2>2. \A x \in G : x <= b
    BY <2>1
  <2>3. \E m \in G : \A x \in G : m >= x
    <3> HIDE DEF G
    <3> QED BY <1>1, <1>3, <2>2, GreatestExists
  <2>4. PICK m \in G : m = Max(G) /\ \A x \in G : m >= x
    <3> HIDE DEF G
    <3> QED BY <2>3 DEF Max
  <2>5. NextGeneration(set) = m + 1
    BY <1>3, <2>4 DEF NextGeneration
  <2>6. m \in Nat /\ \A i \in set : i.generation \in Nat /\ m >= i.generation
    BY <1>1, <2>4
  <2> QED BY <2>5, <2>6
<1> QED BY <1>2, <1>3

\* A log that holds all of another's items has no earlier next generation.
LEMMA NextGenerationGrows ==
  ASSUME NEW set, IsItemSet(set), Bounded(set),
         NEW old, IsItemSet(old), Bounded(old), old \subseteq set
  PROVE  NextGeneration(old) <= NextGeneration(set)
<1>1. /\ NextGeneration(set) \in Nat
      /\ NextGeneration(old) \in Nat
      /\ \A i \in set : i.generation \in Nat /\ i.generation < NextGeneration(set)
  BY NextGenerationIsNext DEF IsItemSet
<1>2. \/ NextGeneration(old) = 0
      \/ \E i \in old : NextGeneration(old) = i.generation + 1
  BY NextGenerationIsNext
<1> QED BY <1>1, <1>2

\* A write that landed at generation g moves the next generation past g.
LEMMA NextGenerationMoves ==
  ASSUME NEW set, IsItemSet(set), Bounded(set), NEW g \in Nat,
         \E i \in set : i.generation >= g
  PROVE  NextGeneration(set) > g
BY NextGenerationIsNext DEF IsItemSet

\* If nothing of what a task saw is gone, and what came since is no earlier
\* than the generation it would write, then an unmoved next generation means
\* that nothing came.
LEMMA UnmovedMeansUnchanged ==
  ASSUME NEW set, IsItemSet(set), Bounded(set),
         NEW old, IsItemSet(old), Bounded(old), old \subseteq set,
         \A i \in set \ old : i.generation >= NextGeneration(old),
         NextGeneration(set) = NextGeneration(old)
  PROVE  set = old
<1>1. ASSUME NEW i \in set \ old PROVE FALSE
  <2>1. i.generation \in Nat /\ i.generation < NextGeneration(set)
    BY NextGenerationIsNext DEF IsItemSet
  <2>2. NextGeneration(set) \in Nat
    BY NextGenerationIsNext
  <2> QED BY <2>1, <2>2
<1> QED BY <1>1

-----------------------------------------------------------------------------
(***************************************************************************)
(* Item sets stay well formed.                                             *)
(***************************************************************************)
LEMMA InputItemsWellFormed ==
  ASSUME NEW part, NEW group, NEW n \in Nat, NEW g \in Nat
  PROVE  /\ IsItemSet(InputItems(part, group, n, g))
         /\ \A i \in InputItems(part, group, n, g) :
              /\ i.generation = g
              /\ i.id.part = part
              /\ i.id.group = group
BY DEF InputItems, IsItemSet, Item, ItemId

LEMMA OrInsertWellFormed ==
  ASSUME NEW set, IsItemSet(set), Bounded(set),
         NEW new, IsItemSet(new), NEW g \in Nat,
         \A i \in new : i.generation = g
  PROVE  IsItemSet(OrInsert(set, new)) /\ Bounded(OrInsert(set, new))
<1>1. IsItemSet(OrInsert(set, new))
  BY DEF IsItemSet, OrInsert
<1>2. PICK b \in Nat : \A i \in set : i.generation <= b
  BY DEF Bounded
<1>3. \A i \in OrInsert(set, new) : i.generation \in Nat /\ i.generation <= b + g
  BY <1>2 DEF OrInsert, IsItemSet
<1> QED BY <1>1, <1>3 DEF Bounded

\* A write at the next generation keeps generation and group together.
LEMMA OrInsertKeepsOneGroup ==
  ASSUME NEW set, IsItemSet(set), Bounded(set), NEW new,
         \A i, j \in set : i.generation = j.generation => i.id.group = j.id.group,
         \A i \in new : i.generation = NextGeneration(set),
         \A i, j \in new : i.id.group = j.id.group
  PROVE  \A i, j \in OrInsert(set, new) :
           i.generation = j.generation => i.id.group = j.id.group
<1>1. \A i \in set : i.generation \in Nat /\ i.generation < NextGeneration(set)
  BY NextGenerationIsNext DEF IsItemSet
<1>2. NextGeneration(set) \in Nat
  BY NextGenerationIsNext
<1>3. \A i \in set : i.generation # NextGeneration(set)
  BY <1>1, <1>2
<1> QED BY <1>3 DEF OrInsert

LEMMA OrInsertKeepsUnique ==
  ASSUME NEW set, NEW new,
         \A i, j \in set : i.id = j.id => i = j,
         \A i, j \in new : i.id = j.id => i = j
  PROVE  \A i, j \in OrInsert(set, new) : i.id = j.id => i = j
BY DEF OrInsert, Ids

-----------------------------------------------------------------------------

(***************************************************************************)
(* The items of a response.                                                *)
(***************************************************************************)
LEMMA OffsetIsNat ==
  ASSUME NEW q \in Requests
  PROVE  Offset(q) \in Nat
<1> DEFINE M == {k \in 1 .. Len(q.input) : q.input[k] = "message"}
<1>1. Len(q.input) \in Nat
  BY RequestAssumption
<1>2. IsFiniteSet(M)
  <2>1. IsFiniteSet(1 .. Len(q.input))
    BY <1>1, FS_Interval
  <2>2. M \subseteq 1 .. Len(q.input)
    OBVIOUS
  <2> HIDE DEF M
  <2> QED BY <2>1, <2>2, FS_Subset
<1>3. Cardinality(M) \in Nat
  BY <1>2, FS_CardinalityType
<1> QED BY <1>3 DEF Offset

LEMMA ResponseItemsWellFormed ==
  ASSUME NEW t \in Tasks, request[t] \in Requests,
         IsItemSet(snapshot[t]), Bounded(snapshot[t])
  PROVE  /\ IsItemSet(ResponseItems(t))
         /\ \A i \in ResponseItems(t) : /\ i.generation = Generation(t)
                                       /\ i.id.group = ResponseId(t)
                                       /\ i.id.part \in ResponseParts
<1> DEFINE q == request[t]
           id == ResponseId(t)
           g == Generation(t)
<1>1. Len(q.input) \in Nat /\ q.output \in Outputs
  BY RequestAssumption
<1>2. g \in Nat
  BY NextGenerationIsNext DEF Generation
<1>3. Offset(q) \in Nat
  BY OffsetIsNat
<1> HIDE DEF q, id, g
<1>4. /\ IsItemSet(InputItems("input", id, Len(q.input), g))
      /\ \A i \in InputItems("input", id, Len(q.input), g) :
           i.generation = g /\ i.id.part = "input" /\ i.id.group = id
  <2> DEFINE n == Len(q.input)
  <2>1. n \in Nat
    BY <1>1
  <2> HIDE DEF n
  <2>2. /\ IsItemSet(InputItems("input", id, n, g))
        /\ \A i \in InputItems("input", id, n, g) :
             i.generation = g /\ i.id.part = "input" /\ i.id.group = id
    BY <1>2, <2>1, InputItemsWellFormed
  <2> QED BY <2>2 DEF n
<1>5. /\ IsItemSet(OutputItems(id, q, g))
      /\ \A i \in OutputItems(id, q, g) :
           /\ i.generation = g
           /\ i.id.part \in {"reasoning", "message"}
           /\ i.id.group = id
  <2> DEFINE new(k) == Item(ItemId(q.output[k], id, 0), g, Offset(q) + k - 1)
  <2>1. OutputItems(id, q, g) = {new(k) : k \in 1 .. Len(q.output)}
    BY DEF OutputItems
  <2>2. ASSUME NEW k \in 1 .. Len(q.output)
        PROVE  /\ q.output[k] \in {"reasoning", "message"}
               /\ k \in Nat /\ Offset(q) + k - 1 \in Nat
    BY <1>1, <1>3 DEF Outputs
  <2>3. ASSUME NEW k \in 1 .. Len(q.output)
        PROVE  /\ IsItemSet({new(k)})
               /\ new(k).generation = g
               /\ new(k).id.part \in {"reasoning", "message"}
               /\ new(k).id.group = id
    BY <1>2, <2>2 DEF IsItemSet, Item, ItemId
  <2> HIDE DEF new
  <2> QED BY <2>1, <2>3 DEF IsItemSet
<1> QED BY <1>4, <1>5 DEF ResponseItems, IsItemSet, ResponseParts, q, id, g

-----------------------------------------------------------------------------
(***************************************************************************)
(* What a step does to a conversation: nothing, or it opens it, extends    *)
(* it at the next generation, or takes something out and marks the tasks   *)
(* that had seen it.                                                       *)
(***************************************************************************)
Structure ==
  /\ TypeOK
  /\ \A c \in ConversationIds : Bounded(items[c])
  /\ \A t \in Tasks : Bounded(snapshot[t])

Untouched(c) == items'[c] = items[c] /\ (c \in live' <=> c \in live)

Opened(c) ==
  /\ c \notin live
  /\ c \in live'
  /\ items'[c] = InputItems("initial", None, InitialLength[c], 0)

Batched(c) ==
  /\ c \in live \cap live'
  /\ \E b \in Batches :
       items'[c] = OrInsert(items[c], InputItems("batch", b, BatchLength[b],
                                                 NextGeneration(items[c])))

Committed(c) ==
  /\ c \in live \cap live'
  /\ \E t \in Tasks :
       /\ pc[t] = "commit"
       /\ request[t].conversation = c
       /\ NextGeneration(items[c]) = Generation(t)
       /\ items'[c] = OrInsert(items[c], ResponseItems(t))
       /\ t \in appended'

Cut(c) ==
  /\ items'[c] \subseteq items[c]
  /\ c \notin live' => items'[c] = {}
  /\ c \in live' => c \in live
  /\ Holders(c) \subseteq removed'

LEMMA StoreStep ==
  ASSUME Structure, [Next]_vars, NEW c \in ConversationIds
  PROVE  \/ Untouched(c) \/ Opened(c) \/ Batched(c) \/ Committed(c) \/ Cut(c)
<1> USE DEF Structure, TypeOK
<1>1. CASE UNCHANGED <<live, items>>
  BY <1>1 DEF Untouched
<1>2. ASSUME NEW d \in ConversationIds, CreateConversation(d)
      PROVE  Untouched(c) \/ Opened(c)
  BY <1>2 DEF CreateConversation, Create, Untouched, Opened
<1>3. ASSUME NEW d \in ConversationIds, NEW b \in Batches, AddItems(d, b)
      PROVE  Untouched(c) \/ Batched(c)
  BY <1>3 DEF AddItems, AddBatch, Untouched, Batched
<1>4. ASSUME NEW d \in ConversationIds, NEW id \in Ids(items[d]), DeleteItem(d, id)
      PROVE  Untouched(c) \/ Cut(c)
  BY <1>4 DEF DeleteItem, RemoveItem, Untouched, Cut
<1>5. ASSUME NEW d \in ConversationIds, DeleteConversation(d)
      PROVE  Untouched(c) \/ Cut(c)
  BY <1>5 DEF DeleteConversation, RemoveConversation, Untouched, Cut
<1>6. CASE ResetConversations
  BY <1>6 DEF ResetConversations, ClearConversations, Cut
<1>7. ASSUME NEW t \in Tasks, AppendResponse(t)
      PROVE  Untouched(c) \/ Committed(c)
  BY <1>7 DEF AppendResponse, AppendGroup, MayAppend, Untouched, Committed
<1>8. CASE Clients
  <2>1. CASE \E t \in Tasks, q \in Requests, id \in AnsweredIds \cup {None} :
               Receive(t, q, id)
    BY <1>1, <2>1 DEF Receive, stores
  <2>2. CASE \E t \in Tasks : Disconnect(t)
    BY <1>1, <2>2 DEF Disconnect, stores
  <2>3. CASE \E id \in Ids(responses) : DeleteResponse(id)
    BY <1>1, <2>3 DEF DeleteResponse
  <2>4. CASE \E e \in Scenarios : PutScenario(e)
    BY <1>1, <2>4 DEF PutScenario, stores
  <2>5. CASE ResetScenario \/ ResetResponses
    BY <1>1, <2>5 DEF ResetScenario, ResetResponses, stores
  <2> QED BY <1>2, <1>3, <1>4, <1>5, <1>6, <1>8, <2>1, <2>2, <2>3, <2>4, <2>5
          DEF Clients
<1>9. CASE \E t \in Tasks : Handle(t)
  <2> SUFFICES ASSUME NEW t \in Tasks, Handle(t), ~AppendResponse(t)
               PROVE  UNCHANGED <<live, items>>
    BY <1>1, <1>7, <1>9
  <2> QED BY DEF Handle, Lookup, Snapshot, Fault, CommitWithoutConversation,
                 Conflict, Save, stores
<1>10. CASE UNCHANGED vars
  BY <1>1, <1>10 DEF vars, stores
<1> QED BY <1>8, <1>9, <1>10 DEF Next

\* In each of these the item set stays well formed.
LEMMA StoreStepWellFormed ==
  ASSUME Structure, [Next]_vars, NEW c \in ConversationIds
  PROVE  /\ IsItemSet(items'[c])
         /\ Bounded(items'[c])
         /\ c \notin live' => items'[c] = {}
<1>1. /\ IsItemSet(items[c]) /\ Bounded(items[c])
      /\ c \notin live => items[c] = {}
      /\ NextGeneration(items[c]) \in Nat
  BY NextGenerationIsNext DEF Structure, TypeOK, Consistent
<1>2. CASE Untouched(c)
  BY <1>1, <1>2 DEF Untouched
<1>3. CASE Opened(c)
  <2>1. InitialLength[c] \in Nat
    BY ConversationAssumption
  <2> DEFINE new == InputItems("initial", None, InitialLength[c], 0)
  <2>2. IsItemSet(new) /\ \A i \in new : i.generation = 0
    BY <2>1, InputItemsWellFormed
  <2> HIDE DEF new
  <2>3. Bounded(new)
    BY <2>2 DEF Bounded
  <2> QED BY <1>3, <2>2, <2>3 DEF Opened, new
<1>4. CASE Batched(c)
  <2>1. PICK b \in Batches :
          items'[c] = OrInsert(items[c], InputItems("batch", b, BatchLength[b],
                                                    NextGeneration(items[c])))
    BY <1>4 DEF Batched
  <2>2. BatchLength[b] \in Nat
    BY ConversationAssumption
  <2> DEFINE new == InputItems("batch", b, BatchLength[b], NextGeneration(items[c]))
  <2>3. IsItemSet(new) /\ \A i \in new : i.generation = NextGeneration(items[c])
    <3> DEFINE n == BatchLength[b]
               g == NextGeneration(items[c])
    <3>1. n \in Nat /\ g \in Nat
      BY <1>1, <2>2
    <3> HIDE DEF n, g
    <3>2. /\ IsItemSet(InputItems("batch", b, n, g))
          /\ \A i \in InputItems("batch", b, n, g) : i.generation = g
      BY <3>1, InputItemsWellFormed
    <3> QED BY <3>2 DEF n, g
  <2> HIDE DEF new
  <2>4. IsItemSet(OrInsert(items[c], new)) /\ Bounded(OrInsert(items[c], new))
    BY <1>1, <2>3, OrInsertWellFormed
  <2> QED BY <1>4, <2>1, <2>4 DEF new, Batched
<1>5. CASE Committed(c)
  <2>1. PICK t \in Tasks : /\ pc[t] = "commit"
                           /\ request[t].conversation = c
                           /\ items'[c] = OrInsert(items[c], ResponseItems(t))
    BY <1>5 DEF Committed
  <2>2. request[t] \in Requests /\ IsItemSet(snapshot[t]) /\ Bounded(snapshot[t])
    BY <2>1 DEF Structure, TypeOK, Consistent
  <2>3. /\ IsItemSet(ResponseItems(t))
        /\ \A i \in ResponseItems(t) : i.generation = Generation(t)
    BY <2>2, ResponseItemsWellFormed
  <2>4. Generation(t) \in Nat
    BY <2>2, NextGenerationIsNext DEF Generation
  <2>5. IsItemSet(items'[c]) /\ Bounded(items'[c])
    <3> DEFINE new == ResponseItems(t)
    <3> HIDE DEF new
    <3>1. IsItemSet(OrInsert(items[c], new)) /\ Bounded(OrInsert(items[c], new))
      BY <1>1, <2>3, <2>4, OrInsertWellFormed DEF new
    <3> QED BY <2>1, <3>1 DEF new
  <2> QED BY <1>5, <2>5 DEF Committed
<1>6. CASE Cut(c)
  BY <1>1, <1>6 DEF Cut, IsItemSet, Bounded
<1> QED BY <1>2, <1>3, <1>4, <1>5, <1>6, StoreStep

-----------------------------------------------------------------------------
(***************************************************************************)
(* What a step does to a task.                                             *)
(***************************************************************************)
Stays(t) ==
  /\ pc'[t] = pc[t]
  /\ request'[t] = request[t]
  /\ snapshot'[t] = snapshot[t]
  /\ previous'[t] = previous[t]
  /\ t \in appended' <=> t \in appended

Receives(t) ==
  /\ pc[t] = "idle"
  /\ request'[t] \in Requests
  /\ snapshot'[t] = snapshot[t]
  /\ t \in appended' <=> t \in appended
  /\ \/ pc'[t] = "expired"
     \/ pc'[t] = "snapshot" /\ request'[t].conversation # None
     \/ pc'[t] \in {"lookup", "commit"} /\ request'[t].conversation = None

\* The predecessor is found or missing, or the handler dropped meanwhile.
LooksUp(t) ==
  /\ pc[t] = "lookup"
  /\ pc'[t] \in {"commit", "not_found", "dropped"}
  /\ request'[t] = request[t]
  /\ snapshot'[t] = snapshot[t]
  /\ t \in appended' <=> t \in appended

TakesSnapshot(t) ==
  LET c == request[t].conversation
  IN  /\ pc[t] = "snapshot"
      /\ request'[t] = request[t]
      /\ t \in appended' <=> t \in appended
      /\ \/ /\ pc'[t] = "commit"
            /\ c \in live
            /\ snapshot'[t] = items[c]
            /\ UNCHANGED <<live, items>>
         \/ pc'[t] \in {"not_found", "dropped"} /\ snapshot'[t] = snapshot[t]

Ends(t) ==
  LET c == request[t].conversation
  IN  /\ pc[t] \in {"commit", "save"}
      /\ request'[t] = request[t]
      /\ snapshot'[t] = snapshot[t]
      /\ previous'[t] = previous[t]
      /\ \/ /\ pc'[t] \in {"save", "ok", "dropped"}
            /\ t \in appended' <=> t \in appended
         \/ /\ pc[t] = "commit"
            /\ pc'[t] = "fault"
            /\ t \in appended' <=> t \in appended
         \/ /\ pc[t] = "commit"
            /\ pc'[t] = "conflict"
            /\ ~MayAppend(c, Generation(t))
            /\ UNCHANGED <<live, items>>
            /\ t \in appended' <=> t \in appended
         \/ /\ pc[t] = "commit"
            /\ pc'[t] \in {"save", "ok"}
            /\ c # None
            /\ MayAppend(c, Generation(t))
            /\ AppendGroup(c, ResponseItems(t))

LEMMA TaskStep ==
  ASSUME Structure, [Next]_vars, NEW t \in Tasks
  PROVE  Stays(t) \/ Receives(t) \/ LooksUp(t) \/ TakesSnapshot(t) \/ Ends(t)
<1> USE DEF Structure, TypeOK, Goto
<1>1. CASE UNCHANGED <<pc, local, appended>>
  BY <1>1 DEF Stays, local
<1>2. ASSUME NEW u \in Tasks, NEW q \in Requests, NEW id, Receive(u, q, id)
      PROVE  Stays(t) \/ Receives(t)
  <2>1. CASE u = t
    <3>1. Receives(t)
      BY <1>2, <2>1 DEF Receive, Receives, history
    <3> QED BY <3>1
  <2>2. CASE u # t
    BY <1>2, <2>2 DEF Receive, Stays, history
  <2> QED BY <2>1, <2>2
<1>3. ASSUME NEW u \in Tasks, Disconnect(u)
      PROVE  Stays(t) \/ LooksUp(t) \/ TakesSnapshot(t) \/ Ends(t)
  BY <1>3 DEF Disconnect, Running, local, history, Stays, LooksUp, TakesSnapshot, Ends
<1>4. ASSUME NEW u \in Tasks, Lookup(u)
      PROVE  Stays(t) \/ LooksUp(t)
  BY <1>4 DEF Lookup, history, Stays, LooksUp
<1>5. ASSUME NEW u \in Tasks, Snapshot(u)
      PROVE  Stays(t) \/ TakesSnapshot(t)
  BY <1>5 DEF Snapshot, history, stores, Stays, TakesSnapshot
<1>6. ASSUME NEW u \in Tasks,
             Fault(u) \/ CommitWithoutConversation(u) \/ Save(u)
      PROVE  Stays(t) \/ Ends(t)
  BY <1>6 DEF Fault, CommitWithoutConversation, Save, AfterCommit, local, history,
              Stays, Ends
<1>7. ASSUME NEW u \in Tasks, AppendResponse(u)
      PROVE  Stays(t) \/ Ends(t)
  <2>1. CASE u = t
    <3>1. Ends(t)
      BY <1>7, <2>1 DEF AppendResponse, AfterCommit, local, Ends
    <3> QED BY <3>1
  <2>2. CASE u # t
    BY <1>7, <2>2 DEF AppendResponse, local, Stays
  <2> QED BY <2>1, <2>2
<1>8. ASSUME NEW u \in Tasks, Conflict(u)
      PROVE  Stays(t) \/ Ends(t)
  BY <1>8 DEF Conflict, local, history, stores, Stays, Ends
<1>9. CASE Clients
  <2>1. CASE \E c \in ConversationIds :
               \/ CreateConversation(c)
               \/ \E b \in Batches : AddItems(c, b)
               \/ \E id \in Ids(items[c]) : DeleteItem(c, id)
               \/ DeleteConversation(c)
    BY <1>1, <2>1 DEF CreateConversation, AddItems, DeleteItem, DeleteConversation,
                      history
  <2>2. CASE \/ \E id \in Ids(responses) : DeleteResponse(id)
             \/ \E e \in Scenarios : PutScenario(e)
             \/ ResetScenario \/ ResetResponses \/ ResetConversations
    BY <1>1, <2>2 DEF DeleteResponse, PutScenario, ResetScenario, ResetResponses,
                      ResetConversations, history
  <2> QED BY <1>2, <1>3, <1>9, <2>1, <2>2 DEF Clients
<1>10. CASE UNCHANGED vars
  BY <1>1, <1>10 DEF vars, history
<1> QED BY <1>3, <1>4, <1>5, <1>6, <1>7, <1>8, <1>9, <1>10 DEF Next, Handle

-----------------------------------------------------------------------------
(***************************************************************************)
(* Types, and what a task knows at each point.                             *)
(***************************************************************************)
LEMMA InitStructure == Init => Structure
BY ConversationAssumption, RequestAssumption
   DEF Init, ConversationInit, Structure, TypeOK, Consistent, IsItemSet, Bounded,
       Running, Answers

\* What TaskStep says of the bookkeeping, in one place.
LEMMA TaskStepConsistent ==
  ASSUME Structure, [Next]_vars, NEW t \in Tasks
  PROVE  /\ pc'[t] \in {"idle"} \cup Running \cup Answers
         /\ request'[t] \in Requests \cup {None}
         /\ IsItemSet(snapshot'[t]) /\ Bounded(snapshot'[t])
         /\ pc'[t] = "idle" <=> request'[t] = None
         /\ pc'[t] \in {"idle", "lookup", "snapshot"} => snapshot'[t] = {}
         /\ pc'[t] = "snapshot" => request'[t].conversation # None
         /\ pc'[t] = "lookup" => request'[t].conversation = None
         /\ t \in appended' => /\ pc'[t] \in {"save", "ok", "dropped"}
                               /\ request'[t].conversation \in ConversationIds
<1> USE RequestAssumption DEF Structure, TypeOK, Consistent, Running, Answers
<1>1. CASE Stays(t)
  BY <1>1 DEF Stays
<1>2. CASE Receives(t)
  BY <1>2 DEF Receives
<1>3. CASE LooksUp(t)
  BY <1>3 DEF LooksUp
<1>4. CASE TakesSnapshot(t)
  BY <1>4 DEF TakesSnapshot
<1>5. CASE Ends(t)
  <2>1. request[t] \in Requests /\ request[t] # None
    BY <1>5 DEF Ends
  <2>2. request[t].conversation \in ConversationIds \cup {None}
    BY <2>1
  <2>3. /\ request'[t] = request[t] /\ snapshot'[t] = snapshot[t]
        /\ pc'[t] \in {"save", "ok", "fault", "dropped", "conflict"}
    BY <1>5 DEF Ends
  <2>4. ASSUME t \in appended'
        PROVE  /\ pc'[t] \in {"save", "ok", "dropped"}
               /\ request[t].conversation \in ConversationIds
    <3>1. CASE t \in appended
      BY <1>5, <2>4, <3>1 DEF Ends
    <3>2. CASE t \notin appended
      BY <1>5, <2>2, <2>4, <3>2 DEF Ends
    <3> QED BY <3>1, <3>2
  <2> QED BY <2>1, <2>3, <2>4
<1> QED BY <1>1, <1>2, <1>3, <1>4, <1>5, TaskStep

\* The variables with no part in a lemma above.
LEMMA StepShapes ==
  ASSUME Structure, [Next]_vars
  PROVE  /\ live' \subseteq ConversationIds
         /\ DOMAIN items' = ConversationIds
         /\ expire' \in BOOLEAN
         /\ resetting' \in {None, "responses", "conversations"}
         /\ pc' = [t \in Tasks |-> pc'[t]]
         /\ request' = [t \in Tasks |-> request'[t]]
         /\ DOMAIN previous' = Tasks /\ DOMAIN snapshot' = Tasks
         /\ appended \subseteq appended' /\ appended' \subseteq Tasks
         /\ \A t, u \in appended' \ appended : t = u
         /\ removed \subseteq removed' /\ removed' \subseteq Tasks
<1> USE RequestAssumption DEF Structure, TypeOK, Goto, stores, control, local, history
<1>1. CASE Clients
  <2>1. CASE \E t \in Tasks, q \in Requests, id \in AnsweredIds \cup {None} :
               Receive(t, q, id)
    BY <2>1 DEF Receive
  <2>2. CASE \E t \in Tasks : Disconnect(t)
    BY <2>2 DEF Disconnect
  <2>3. CASE \E c \in ConversationIds :
               CreateConversation(c) \/ \E b \in Batches : AddItems(c, b)
    BY <2>3 DEF CreateConversation, Create, AddItems, AddBatch
  <2>4. CASE \E c \in ConversationIds :
               (\E id \in Ids(items[c]) : DeleteItem(c, id)) \/ DeleteConversation(c)
    BY <2>4 DEF DeleteItem, RemoveItem, DeleteConversation, RemoveConversation, Holders
  <2>5. CASE \/ \E id \in Ids(responses) : DeleteResponse(id)
             \/ \E e \in Scenarios : PutScenario(e)
             \/ ResetScenario \/ ResetResponses
    BY <2>5 DEF DeleteResponse, PutScenario, ResetScenario, ResetResponses
  <2>6. CASE ResetConversations
    BY <2>6 DEF ResetConversations, ClearConversations, Holders
  <2> QED BY <1>1, <2>1, <2>2, <2>3, <2>4, <2>5, <2>6 DEF Clients
<1>2. CASE \E t \in Tasks : Handle(t)
  BY <1>2 DEF Handle, Lookup, Snapshot, Fault, CommitWithoutConversation,
              AppendResponse, AppendGroup, Conflict, Save
<1>3. CASE UNCHANGED vars
  BY <1>3 DEF vars
<1> QED BY <1>1, <1>2, <1>3 DEF Next

LEMMA NextStructure == Structure /\ [Next]_vars => Structure'
<1> SUFFICES ASSUME Structure, [Next]_vars PROVE Structure'
  OBVIOUS
<1>1. pc' \in [Tasks -> {"idle"} \cup Running \cup Answers]
  BY StepShapes, TaskStepConsistent
<1>2. request' \in [Tasks -> Requests \cup {None}]
  BY StepShapes, TaskStepConsistent
<1>3. Consistent'
  BY TaskStepConsistent, StoreStepWellFormed DEF Consistent
<1>4. TypeOK'
  BY <1>1, <1>2, <1>3, StepShapes, TaskStepConsistent, StoreStepWellFormed DEF TypeOK
<1> QED BY <1>4, TaskStepConsistent, StoreStepWellFormed DEF Structure

\* TypeOK: however handlers, clients and resets interleave, each log is a set
\* of well-formed items and each task is in one of create_response's states.
THEOREM TypeCorrect == Spec => []TypeOK
<1>1. Structure => TypeOK
  BY DEF Structure
<1> QED BY <1>1, InitStructure, NextStructure, PTL DEF Spec

-----------------------------------------------------------------------------
(***************************************************************************)
(* The optimistic commit of create_response.  All of it rests on one       *)
(* invariant in three layers, each used by the next: Structure,            *)
(* DerivedIdsAreFresh, and GenerationDetectsChange.                        *)
(***************************************************************************)
\* A task past its snapshot keeps what it planned with.
LEMMA PlansPersist ==
  ASSUME Structure, [Next]_vars, NEW t \in Tasks,
         pc[t] \notin {"idle", "lookup", "snapshot"}
  PROVE  /\ request'[t] = request[t] /\ request[t] \in Requests
         /\ snapshot'[t] = snapshot[t]
         /\ Generation(t)' = Generation(t)
         /\ ResponseId(t)' = ResponseId(t)
         /\ ResponseItems(t)' = ResponseItems(t)
<1>1. Stays(t) \/ Ends(t)
  BY TaskStep DEF Receives, LooksUp, TakesSnapshot
<1>2. /\ request'[t] = request[t] /\ snapshot'[t] = snapshot[t]
      /\ previous'[t] = previous[t]
  BY <1>1 DEF Stays, Ends
<1>3. request[t] \in Requests
  BY DEF Structure, TypeOK, Consistent
<1>4. Generation(t)' = Generation(t)
  BY <1>2 DEF Generation
<1>5. ResponseId(t)' = ResponseId(t)
  BY <1>2 DEF ResponseId, Context
<1> QED BY <1>2, <1>3, <1>4, <1>5 DEF ResponseItems

-----------------------------------------------------------------------------
(***************************************************************************)
(* Ids derived from a log do not occur in it.                              *)
(***************************************************************************)
\* Not covered by its own id: an item's id is a digest over the ids its task
\* had seen, so the items a task is about to insert are new to what it saw.
Fresh(set) ==
  \A i \in set : i.id.part \in ResponseParts => i.id \notin i.id.group.context.items

\* Ids derived from a log never recur in the log they were derived from, nor
\* in what anyone read of it.
DerivedIdsAreFresh ==
  /\ \A c \in ConversationIds : Fresh(items[c])
  /\ \A t \in Tasks : Fresh(snapshot[t])

\* The context of a task that commits to a conversation lists its snapshot.
LEMMA ContextListsSnapshot ==
  ASSUME NEW t \in Tasks, request[t].conversation # None
  PROVE  ResponseId(t).context.items = Ids(snapshot[t])
BY DEF ResponseId, Context, ConversationContext

\* The items a task is about to insert are new to its snapshot.
LEMMA ResponseItemsAreNew ==
  ASSUME Structure, DerivedIdsAreFresh, NEW t \in Tasks,
         request[t] \in Requests, request[t].conversation # None
  PROVE  \A i \in ResponseItems(t) : i.id \notin Ids(snapshot[t])
<1>1. \A i \in ResponseItems(t) : /\ i.id.group = ResponseId(t)
                                 /\ i.id.part \in ResponseParts
  BY ResponseItemsWellFormed DEF Structure, TypeOK
<1> SUFFICES ASSUME NEW i \in ResponseItems(t), NEW j \in snapshot[t], i.id = j.id
             PROVE  FALSE
  BY DEF Ids
<1>2. j.id \notin j.id.group.context.items
  BY <1>1 DEF DerivedIdsAreFresh, Fresh
<1>3. j.id.group.context.items = Ids(snapshot[t])
  BY <1>1, ContextListsSnapshot
<1> QED BY <1>2, <1>3 DEF Ids

LEMMA InitFresh == Init => DerivedIdsAreFresh
BY DEF Init, ConversationInit, DerivedIdsAreFresh, Fresh

LEMMA NextFresh ==
  Structure /\ DerivedIdsAreFresh /\ [Next]_vars => DerivedIdsAreFresh'
<1> SUFFICES ASSUME Structure, DerivedIdsAreFresh, [Next]_vars
             PROVE  DerivedIdsAreFresh'
  OBVIOUS
<1>1. ASSUME NEW c \in ConversationIds PROVE Fresh(items'[c])
  <2>1. Fresh(items[c])
    BY DEF DerivedIdsAreFresh
  <2>2. CASE Untouched(c)
    BY <2>1, <2>2 DEF Untouched
  <2>3. CASE Opened(c)
    BY <2>3 DEF Opened, Fresh, InputItems, Item, ItemId, ResponseParts
  <2>4. CASE Batched(c)
    BY <2>1, <2>4 DEF Batched, OrInsert, Fresh, InputItems, Item, ItemId, ResponseParts
  <2>5. CASE Committed(c)
    <3>1. PICK t \in Tasks : /\ pc[t] = "commit"
                             /\ request[t].conversation = c
                             /\ items'[c] = OrInsert(items[c], ResponseItems(t))
      BY <2>5 DEF Committed
    <3>2. request[t] \in Requests /\ request[t].conversation # None
      BY <3>1, ConversationAssumption DEF Structure, TypeOK, Consistent
    <3>3. \A i \in ResponseItems(t) : i.id.group = ResponseId(t)
      BY <3>2, ResponseItemsWellFormed DEF Structure, TypeOK
    <3>4. \A i \in ResponseItems(t) : i.id \notin i.id.group.context.items
      BY <3>2, <3>3, ResponseItemsAreNew, ContextListsSnapshot
    <3> QED BY <2>1, <3>1, <3>4 DEF OrInsert, Fresh
  <2>6. CASE Cut(c)
    BY <2>1, <2>6 DEF Cut, Fresh
  <2> QED BY <2>2, <2>3, <2>4, <2>5, <2>6, StoreStep
<1>2. ASSUME NEW t \in Tasks PROVE Fresh(snapshot'[t])
  <2>1. CASE snapshot'[t] = snapshot[t]
    BY <2>1 DEF DerivedIdsAreFresh
  <2>2. CASE TakesSnapshot(t)
    <3>1. request[t] \in Requests /\ request[t].conversation \in ConversationIds
      BY <2>2, RequestAssumption DEF TakesSnapshot, Structure, TypeOK, Consistent
    <3> QED BY <2>1, <2>2, <3>1 DEF TakesSnapshot, DerivedIdsAreFresh
  <2> QED BY <2>1, <2>2, TaskStep DEF Stays, Receives, LooksUp, Ends
<1> QED BY <1>1, <1>2 DEF DerivedIdsAreFresh

\* DerivedIdsAreFresh: an id minted by append_response from a conversation's
\* items is not among the items it was minted from, in any log or snapshot.
THEOREM DerivedIdsAlwaysFresh == Spec => []DerivedIdsAreFresh
BY InitStructure, NextStructure, InitFresh, NextFresh, PTL DEF Spec

-----------------------------------------------------------------------------
(***************************************************************************)
(* The next generation detects every change.                               *)
(***************************************************************************)
LEMMA InitDetects == Init => GenerationDetectsChange
BY DEF Init, GenerationDetectsChange

\* Everything a step writes to an existing log is at its next generation.
LEMMA WritesAtNextGeneration ==
  ASSUME Structure, [Next]_vars, NEW c \in ConversationIds,
         Batched(c) \/ Committed(c)
  PROVE  /\ c \in live'
         /\ items[c] \subseteq items'[c]
         /\ \A i \in items'[c] \ items[c] : i.generation = NextGeneration(items[c])
<1>1. CASE Batched(c)
  BY <1>1 DEF Batched, OrInsert, InputItems, Item
<1>2. CASE Committed(c)
  <2>1. PICK t \in Tasks : /\ pc[t] = "commit"
                           /\ request[t].conversation = c
                           /\ NextGeneration(items[c]) = Generation(t)
                           /\ items'[c] = OrInsert(items[c], ResponseItems(t))
    BY <1>2 DEF Committed
  <2>2. request[t] \in Requests
    BY <2>1 DEF Structure, TypeOK, Consistent
  <2>3. \A i \in ResponseItems(t) : i.generation = Generation(t)
    BY <2>2, ResponseItemsWellFormed DEF Structure, TypeOK
  <2> QED BY <1>2, <2>1, <2>3 DEF Committed, OrInsert
<1> QED BY <1>1, <1>2

LEMMA NextDetects ==
  Structure /\ GenerationDetectsChange /\ [Next]_vars => GenerationDetectsChange'
<1> SUFFICES ASSUME Structure, GenerationDetectsChange, [Next]_vars,
                    NEW t \in Tasks, NEW c \in ConversationIds,
                    Holds(t, c)', pc'[t] = "commit", Undisturbed(t)'
             PROVE  /\ c \in live'
                    /\ snapshot'[t] \subseteq items'[c]
                    /\ \A i \in items'[c] \ snapshot'[t] : i.generation >= Generation(t)'
  BY DEF GenerationDetectsChange
<1>1. t \notin removed' /\ t \notin removed
  BY StepShapes DEF Undisturbed
<1>2. request'[t].conversation = c /\ c # None /\ request'[t] # None
  BY DEF Holds
<1>3. CASE TakesSnapshot(t)
  BY <1>2, <1>3 DEF TakesSnapshot
<1>4. CASE Stays(t)
  <2>1. /\ pc[t] = "commit" /\ Holds(t, c) /\ t \in Holders(c)
        /\ snapshot'[t] = snapshot[t] /\ Generation(t)' = Generation(t)
    BY <1>2, <1>4, PlansPersist DEF Stays, Holds, Holders
  <2>2. /\ c \in live
        /\ snapshot[t] \subseteq items[c]
        /\ \A i \in items[c] \ snapshot[t] : i.generation >= Generation(t)
    BY <1>1, <2>1 DEF GenerationDetectsChange, Undisturbed
  <2>3. CASE Untouched(c)
    BY <2>1, <2>2, <2>3 DEF Untouched
  <2>4. CASE Batched(c) \/ Committed(c)
    <3>1. NextGeneration(items[c]) >= Generation(t)
      <4>1. Generation(t) \in Nat /\ NextGeneration(items[c]) \in Nat
        BY NextGenerationIsNext DEF Generation, Structure, TypeOK
      <4>2. NextGeneration(snapshot[t]) <= NextGeneration(items[c])
        BY <2>2, NextGenerationGrows DEF Structure, TypeOK
      <4> QED BY <4>1, <4>2 DEF Generation
    <3> QED BY <2>1, <2>2, <2>4, <3>1, WritesAtNextGeneration
  <2>5. ~Opened(c)
    BY <2>2 DEF Opened
  <2>6. ~Cut(c)
    BY <1>1, <2>1 DEF Cut
  <2> QED BY <2>3, <2>4, <2>5, <2>6, StoreStep
<1>5. ~Receives(t) /\ ~LooksUp(t) /\ ~Ends(t)
  BY <1>2 DEF Receives, LooksUp, Ends, Structure, TypeOK, Consistent
<1> QED BY <1>3, <1>4, <1>5, TaskStep

\* GenerationDetectsChange: until something is deleted, a task that reaches
\* append_response finds all it planned against, and everything that landed
\* since its snapshot is at its own generation or later.
THEOREM GenerationsDetectChanges == Spec => []GenerationDetectsChange
BY InitStructure, NextStructure, InitDetects, NextDetects, PTL DEF Spec

-----------------------------------------------------------------------------
(***************************************************************************)
(* A commit writes its whole group.                                        *)
(***************************************************************************)
\* An append that passes the check finds exactly the snapshot it planned with.
LEMMA CheckedMeansUnchanged ==
  ASSUME Structure, GenerationDetectsChange,
         NEW t \in Tasks, NEW c \in ConversationIds,
         pc[t] = "commit", Holds(t, c), Undisturbed(t),
         NextGeneration(items[c]) = Generation(t)
  PROVE  items[c] = snapshot[t]
<1>1. /\ snapshot[t] \subseteq items[c]
      /\ \A i \in items[c] \ snapshot[t] : i.generation >= NextGeneration(snapshot[t])
  BY DEF GenerationDetectsChange, Generation
<1>2. /\ IsItemSet(items[c]) /\ Bounded(items[c])
      /\ IsItemSet(snapshot[t]) /\ Bounded(snapshot[t])
  BY DEF Structure, TypeOK
<1>3. NextGeneration(items[c]) = NextGeneration(snapshot[t])
  BY DEF Generation
<1> QED BY <1>1, <1>2, <1>3, UnmovedMeansUnchanged

\* The appending task's conversation, at the step that appends.
LEMMA AppendStep ==
  ASSUME Structure, [Next]_vars, NEW t \in Tasks, t \in appended', t \notin appended
  PROVE  LET c == request[t].conversation
         IN  /\ pc[t] = "commit"
             /\ c \in ConversationIds
             /\ Holds(t, c)
             /\ NextGeneration(items[c]) = Generation(t)
             /\ items'[c] = OrInsert(items[c], ResponseItems(t))
<1>1. /\ pc[t] = "commit"
      /\ request[t].conversation # None
      /\ MayAppend(request[t].conversation, Generation(t))
      /\ AppendGroup(request[t].conversation, ResponseItems(t))
  BY TaskStep DEF Stays, Receives, LooksUp, TakesSnapshot, Ends
<1>2. request[t] \in Requests /\ request[t] # None
  BY <1>1 DEF Structure, TypeOK, Consistent
<1>3. request[t].conversation \in ConversationIds
  BY <1>1, <1>2, RequestAssumption
<1> QED BY <1>1, <1>2, <1>3 DEF MayAppend, AppendGroup, Holds, Structure, TypeOK

LEMMA InitGroup == Init => CommittedAsOneGroup
BY DEF Init, CommittedAsOneGroup

\* A step keeps in a log what a task that may rely on it put there.
LEMMA GroupsStay ==
  ASSUME Structure, [Next]_vars, NEW t \in Tasks, NEW c \in ConversationIds,
         t \in Holders(c), t \notin removed', NEW group, group \subseteq items[c]
  PROVE  group \subseteq items'[c]
<1>1. CASE Opened(c)
  BY <1>1 DEF Opened, Structure, TypeOK, Consistent
<1>2. ~Cut(c)
  BY DEF Cut
<1> QED BY <1>1, <1>2, StoreStep, WritesAtNextGeneration DEF Untouched

LEMMA NextGroup ==
  /\ Structure /\ DerivedIdsAreFresh /\ GenerationDetectsChange
  /\ CommittedAsOneGroup
  /\ [Next]_vars
  => CommittedAsOneGroup'
<1> SUFFICES ASSUME Structure, DerivedIdsAreFresh, GenerationDetectsChange,
                    CommittedAsOneGroup, [Next]_vars,
                    NEW t \in appended', Undisturbed(t)'
             PROVE  ResponseItems(t)' \subseteq items'[request'[t].conversation]
  BY DEF CommittedAsOneGroup
<1>1. t \in Tasks /\ t \notin removed' /\ t \notin removed
  BY StepShapes DEF Undisturbed
<1>2. CASE t \in appended
  <2> DEFINE c == request[t].conversation
  <2>1. /\ pc[t] \in {"save", "ok", "dropped"}
        /\ c \in ConversationIds
        /\ request[t] # None
    BY <1>1, <1>2 DEF Structure, TypeOK, Consistent
  <2>2. request'[t] = request[t] /\ ResponseItems(t)' = ResponseItems(t)
    BY <1>1, <2>1, PlansPersist
  <2>3. ResponseItems(t) \subseteq items[c] /\ t \in Holders(c)
    BY <1>1, <1>2, <2>1 DEF CommittedAsOneGroup, Undisturbed, Holders
  <2> QED BY <1>1, <2>1, <2>2, <2>3, GroupsStay
<1>3. CASE t \notin appended
  <2> DEFINE c == request[t].conversation
  <2>1. /\ pc[t] = "commit" /\ c \in ConversationIds /\ Holds(t, c)
        /\ NextGeneration(items[c]) = Generation(t)
        /\ items'[c] = OrInsert(items[c], ResponseItems(t))
    BY <1>1, <1>3, AppendStep
  <2>2. request'[t] = request[t] /\ ResponseItems(t)' = ResponseItems(t)
    BY <1>1, <2>1, PlansPersist
  <2>3. items[c] = snapshot[t]
    BY <1>1, <2>1, CheckedMeansUnchanged DEF Undisturbed
  <2>4. request[t] \in Requests /\ c # None
    BY <1>1, <2>1, PlansPersist DEF Holds
  <2>5. \A i \in ResponseItems(t) : i.id \notin Ids(snapshot[t])
    BY <1>1, <2>4, ResponseItemsAreNew
  <2> QED BY <2>1, <2>2, <2>3, <2>5 DEF OrInsert
<1> QED BY <1>2, <1>3

\* CommittedAsOneGroup: until something is deleted, all the items of a
\* response whose append_response returned true are in the log, at the one
\* generation it was planned against.
THEOREM CommitsWriteTheirGroup == Spec => []CommittedAsOneGroup
BY InitStructure, NextStructure, InitFresh, NextFresh, InitDetects, NextDetects,
   InitGroup, NextGroup, PTL DEF Spec

-----------------------------------------------------------------------------
(***************************************************************************)
(* Writers that planned against one generation.                            *)
(***************************************************************************)
LEMMA ResponseWritesSomething ==
  ASSUME NEW t \in Tasks, request[t] \in Requests
  PROVE  ResponseItems(t) # {}
<1>1. Len(request[t].input) > 0 /\ Len(request[t].input) \in Nat
  BY RequestAssumption
<1>2. 0 \in 0 .. Len(request[t].input) - 1
  BY <1>1
<1> QED BY <1>2 DEF ResponseItems, InputItems

\* What a committed group leaves behind: the next generation is past its own.
LEMMA CommitsMoveTheGeneration ==
  ASSUME Structure, CommittedAsOneGroup, NEW t \in appended, Undisturbed(t)
  PROVE  NextGeneration(items[request[t].conversation]) # Generation(t)
<1> DEFINE c == request[t].conversation
<1>1. t \in Tasks /\ c \in ConversationIds /\ request[t] \in Requests
  BY DEF Structure, TypeOK, Consistent
<1>2. PICK i \in ResponseItems(t) : i.generation = Generation(t)
  BY <1>1, ResponseWritesSomething, ResponseItemsWellFormed DEF Structure, TypeOK
<1>3. i \in items[c]
  BY <1>2 DEF CommittedAsOneGroup
<1>4. i.generation \in Nat /\ i.generation < NextGeneration(items[c])
  BY <1>1, <1>3, NextGenerationIsNext DEF Structure, TypeOK, IsItemSet
<1> QED BY <1>2, <1>4

LEMMA InitWinner == Init => OneWinnerPerGeneration
BY DEF Init, OneWinnerPerGeneration

LEMMA NextWinner ==
  /\ Structure /\ CommittedAsOneGroup /\ OneWinnerPerGeneration
  /\ [Next]_vars
  => OneWinnerPerGeneration'
<1> SUFFICES ASSUME Structure, CommittedAsOneGroup, OneWinnerPerGeneration,
                    [Next]_vars, NEW t \in appended', NEW u \in appended', t # u,
                    request'[t].conversation = request'[u].conversation,
                    Undisturbed(t)', Undisturbed(u)'
             PROVE  Generation(t)' # Generation(u)'
  BY DEF OneWinnerPerGeneration
<1>1. /\ t \in Tasks /\ u \in Tasks
      /\ Undisturbed(t) /\ Undisturbed(u)
  BY StepShapes DEF Undisturbed
<1>2. ASSUME NEW v \in appended'
      PROVE  /\ Generation(v)' = Generation(v)
             /\ request'[v] = request[v]
  <2>1. v \in Tasks
    BY StepShapes
  <2>2. CASE v \in appended
    BY <2>1, <2>2, PlansPersist DEF Structure, TypeOK, Consistent
  <2>3. CASE v \notin appended
    BY <2>1, <2>3, AppendStep, PlansPersist
  <2> QED BY <2>2, <2>3
<1>3. CASE t \in appended /\ u \in appended
  BY <1>1, <1>2, <1>3 DEF OneWinnerPerGeneration
<1>4. ASSUME NEW v \in appended, NEW w \in Tasks, w \in appended', w \notin appended,
             Undisturbed(v), request[v].conversation = request[w].conversation
      PROVE  Generation(v) # Generation(w)
  BY <1>4, AppendStep, CommitsMoveTheGeneration
<1>5. CASE t \in appended /\ u \notin appended
  BY <1>1, <1>2, <1>4, <1>5, StepShapes
<1>6. CASE t \notin appended /\ u \in appended
  BY <1>1, <1>2, <1>4, <1>6, StepShapes
<1>7. ~(t \notin appended /\ u \notin appended)
  BY StepShapes
<1> QED BY <1>3, <1>5, <1>6, <1>7

\* OneWinnerPerGeneration: of the overlapping requests that planned against
\* one generation of a conversation, append_response returns true to one.
THEOREM OneWinner == Spec => []OneWinnerPerGeneration
BY InitStructure, NextStructure, InitFresh, NextFresh, InitDetects, NextDetects,
   InitGroup, NextGroup, InitWinner, NextWinner, PTL DEF Spec

LEMMA InitNoSpurious == Init => NoSpuriousConflict
BY DEF Init, NoSpuriousConflict

LEMMA NextNoSpurious ==
  Structure /\ GenerationDetectsChange /\ NoSpuriousConflict /\ [Next]_vars
  => NoSpuriousConflict'
<1> SUFFICES ASSUME Structure, GenerationDetectsChange, NoSpuriousConflict,
                    [Next]_vars, NEW t \in Tasks, NEW c \in ConversationIds,
                    Holds(t, c)', pc'[t] = "conflict", Undisturbed(t)'
             PROVE  c \in live' /\ \E i \in items'[c] : i.generation >= Generation(t)'
  BY DEF NoSpuriousConflict
<1>1. t \notin removed' /\ t \notin removed
  BY StepShapes DEF Undisturbed
<1>2. Stays(t) \/ Ends(t)
  BY TaskStep DEF Receives, LooksUp, TakesSnapshot
<1>3. /\ Holds(t, c) /\ t \in Holders(c)
      /\ Generation(t)' = Generation(t)
  BY <1>2, PlansPersist DEF Stays, Ends, Holds, Holders
<1>4. CASE Stays(t)
  <2>1. c \in live /\ \E i \in items[c] : i.generation >= Generation(t)
    BY <1>1, <1>3, <1>4 DEF Stays, NoSpuriousConflict, Undisturbed
  <2>2. items[c] \subseteq items'[c]
    BY <1>1, <1>3, GroupsStay
  <2>3. ~Cut(c) /\ ~Opened(c)
    BY <1>1, <1>3, <2>1 DEF Cut, Opened
  <2>4. c \in live'
    BY <2>1, <2>3, StoreStep DEF Untouched, Batched, Committed
  <2> QED BY <1>3, <2>1, <2>2, <2>4
<1>5. CASE Ends(t)
  <2>1. /\ pc[t] = "commit" /\ ~MayAppend(c, Generation(t))
        /\ items' = items /\ live' = live
    BY <1>3, <1>5 DEF Ends, Holds
  <2>2. /\ c \in live /\ snapshot[t] \subseteq items[c]
        /\ \A i \in items[c] \ snapshot[t] : i.generation >= Generation(t)
    BY <1>1, <1>3, <2>1 DEF GenerationDetectsChange, Undisturbed
  <2>3. items[c] # snapshot[t]
    BY <2>1, <2>2 DEF MayAppend, Generation
  <2> QED BY <1>3, <2>1, <2>2, <2>3
<1> QED BY <1>2, <1>4, <1>5

\* NoSpuriousConflict: until something is deleted, append_response refuses a
\* task only because an item of its generation, or a later one, landed.
THEOREM ConflictsAreReal == Spec => []NoSpuriousConflict
BY InitStructure, NextStructure, InitDetects, NextDetects,
   InitNoSpurious, NextNoSpurious, PTL DEF Spec

-----------------------------------------------------------------------------
(***************************************************************************)
(* One item per id, one group per generation.                              *)
(***************************************************************************)
LEMMA ResponseItemsUnique ==
  ASSUME NEW t \in Tasks, request[t] \in Requests
  PROVE  \A i, j \in ResponseItems(t) : i.id = j.id => i = j
<1> DEFINE q == request[t]
           inputs == InputItems("input", ResponseId(t), Len(q.input), Generation(t))
           outputs == OutputItems(ResponseId(t), q, Generation(t))
<1>1. q.output \in Outputs
  BY RequestAssumption
<1>2. \A i, j \in inputs : i.id = j.id => i = j
  BY DEF InputItems, Item, ItemId
<1>3. \A k, l \in 1 .. Len(q.output) : q.output[k] = q.output[l] => k = l
  BY <1>1 DEF Outputs
<1>4. \A i, j \in outputs : i.id = j.id => i = j
  <2> SUFFICES ASSUME NEW k \in 1 .. Len(q.output), NEW l \in 1 .. Len(q.output),
                      q.output[k] = q.output[l]
               PROVE  k = l
    BY DEF OutputItems, Item, ItemId
  <2> QED BY <1>3
<1>5. \A i \in inputs : i.id.part = "input"
  BY DEF InputItems, Item, ItemId
<1>6. \A k \in 1 .. Len(q.output) : q.output[k] # "input"
  BY <1>1 DEF Outputs
<1>7. \A j \in outputs : j.id.part # "input"
  BY <1>6 DEF OutputItems, Item, ItemId
<1> QED BY <1>2, <1>4, <1>5, <1>7 DEF ResponseItems

LEMMA InitUnique == Init => UniqueIds
BY DEF Init, ConversationInit, UniqueIds

LEMMA NextUnique == Structure /\ UniqueIds /\ [Next]_vars => UniqueIds'
<1> SUFFICES ASSUME Structure, UniqueIds, [Next]_vars, NEW c \in ConversationIds
             PROVE  \A i, j \in items'[c] : i.id = j.id => i = j
  BY DEF UniqueIds
<1>1. \A i, j \in items[c] : i.id = j.id => i = j
  BY DEF UniqueIds
<1>2. CASE Untouched(c) \/ Cut(c)
  BY <1>1, <1>2 DEF Untouched, Cut
<1>3. CASE Opened(c)
  BY <1>3 DEF Opened, InputItems, Item, ItemId
<1>4. CASE Batched(c)
  <2>1. PICK new : /\ items'[c] = OrInsert(items[c], new)
                   /\ \A i, j \in new : i.id = j.id => i = j
    BY <1>4 DEF Batched, InputItems, Item, ItemId
  <2> QED BY <1>1, <2>1, OrInsertKeepsUnique
<1>5. CASE Committed(c)
  <2>1. PICK t \in Tasks : /\ pc[t] = "commit"
                           /\ items'[c] = OrInsert(items[c], ResponseItems(t))
    BY <1>5 DEF Committed
  <2>2. \A i, j \in ResponseItems(t) : i.id = j.id => i = j
    BY <2>1, ResponseItemsUnique DEF Structure, TypeOK, Consistent
  <2> QED BY <1>1, <2>1, <2>2, OrInsertKeepsUnique
<1> QED BY <1>2, <1>3, <1>4, <1>5, StoreStep

\* UniqueIds: batches that are retried and responses that are committed never
\* put a second item under an id.
THEOREM IdsAreUnique == Spec => []UniqueIds
BY InitStructure, NextStructure, InitUnique, NextUnique, PTL DEF Spec

LEMMA InitOneGroup == Init => GenerationHasOneGroup
BY DEF Init, ConversationInit, GenerationHasOneGroup

LEMMA NextOneGroup ==
  Structure /\ GenerationHasOneGroup /\ [Next]_vars => GenerationHasOneGroup'
<1> SUFFICES ASSUME Structure, GenerationHasOneGroup, [Next]_vars,
                    NEW c \in ConversationIds
             PROVE  \A i, j \in items'[c] :
                      i.generation = j.generation => i.id.group = j.id.group
  BY DEF GenerationHasOneGroup
<1>1. /\ IsItemSet(items[c]) /\ Bounded(items[c])
      /\ \A i, j \in items[c] : i.generation = j.generation => i.id.group = j.id.group
  BY DEF Structure, TypeOK, GenerationHasOneGroup
<1>2. CASE Untouched(c) \/ Cut(c)
  BY <1>1, <1>2 DEF Untouched, Cut
<1>3. CASE Opened(c)
  BY <1>3 DEF Opened, InputItems, Item, ItemId
<1>4. CASE Batched(c)
  <2>1. PICK b \in Batches :
          items'[c] = OrInsert(items[c], InputItems("batch", b, BatchLength[b],
                                                    NextGeneration(items[c])))
    BY <1>4 DEF Batched
  <2> DEFINE old == items[c]
             new == InputItems("batch", b, BatchLength[b], NextGeneration(old))
  <2>2. /\ \A i \in new : i.generation = NextGeneration(old)
        /\ \A i, j \in new : i.id.group = j.id.group
    BY DEF InputItems, Item, ItemId
  <2>3. items'[c] = OrInsert(old, new)
    BY <2>1
  <2> HIDE DEF old, new
  <2>4. IsItemSet(old) /\ Bounded(old)
        /\ \A i, j \in old : i.generation = j.generation => i.id.group = j.id.group
    BY <1>1 DEF old
  <2>5. \A i, j \in OrInsert(old, new) :
          i.generation = j.generation => i.id.group = j.id.group
    BY <2>2, <2>4, OrInsertKeepsOneGroup
  <2> QED BY <2>3, <2>5
<1>5. CASE Committed(c)
  <2>1. PICK t \in Tasks : /\ pc[t] = "commit"
                           /\ NextGeneration(items[c]) = Generation(t)
                           /\ items'[c] = OrInsert(items[c], ResponseItems(t))
    BY <1>5 DEF Committed
  <2>2. \A i \in ResponseItems(t) : /\ i.generation = Generation(t)
                                    /\ i.id.group = ResponseId(t)
    BY <2>1, ResponseItemsWellFormed DEF Structure, TypeOK, Consistent
  <2> DEFINE old == items[c]
             new == ResponseItems(t)
  <2>3. /\ \A i \in new : i.generation = NextGeneration(old)
        /\ \A i, j \in new : i.id.group = j.id.group
    BY <2>1, <2>2
  <2>4. items'[c] = OrInsert(old, new)
    BY <2>1
  <2> HIDE DEF old, new
  <2>5. IsItemSet(old) /\ Bounded(old)
        /\ \A i, j \in old : i.generation = j.generation => i.id.group = j.id.group
    BY <1>1 DEF old
  <2>6. \A i, j \in OrInsert(old, new) :
          i.generation = j.generation => i.id.group = j.id.group
    BY <2>3, <2>5, OrInsertKeepsOneGroup
  <2> QED BY <2>4, <2>6
<1> QED BY <1>2, <1>3, <1>4, <1>5, StoreStep

\* GenerationHasOneGroup: the items of one generation of a conversation were
\* written by one create, one add_items or one append_response.
THEOREM GenerationsHaveOneGroup == Spec => []GenerationHasOneGroup
BY InitStructure, NextStructure, InitOneGroup, NextOneGroup, PTL DEF Spec

-----------------------------------------------------------------------------
(***************************************************************************)
(* What requests leave in the two stores: a stored object stays as it was  *)
(* saved, and everything that names a response comes from a request that   *)
(* was committed.                                                          *)
(***************************************************************************)
\* What a step does to the stored objects: nothing is added, or the object of
\* a task that is about to be answered.
LEMMA ResponsesStep ==
  ASSUME Structure, [Next]_vars
  PROVE  \/ responses' \subseteq responses
         \/ \E t \in Tasks : /\ pc[t] = "save" /\ pc'[t] = "ok"
                             /\ SaveResponse(Response(t))
<1> USE DEF stores
<1>1. CASE Clients
  <2>1. CASE \E t \in Tasks, q \in Requests, id \in AnsweredIds \cup {None} :
               Receive(t, q, id)
    BY <2>1 DEF Receive
  <2>2. CASE \E t \in Tasks : Disconnect(t)
    BY <2>2 DEF Disconnect
  <2>3. CASE \E c \in ConversationIds :
               \/ CreateConversation(c)
               \/ \E b \in Batches : AddItems(c, b)
               \/ \E id \in Ids(items[c]) : DeleteItem(c, id)
               \/ DeleteConversation(c)
    BY <2>3 DEF CreateConversation, AddItems, DeleteItem, DeleteConversation
  <2>4. CASE \/ \E id \in Ids(responses) : DeleteResponse(id)
             \/ ResetResponses
    BY <2>4 DEF DeleteResponse, RemoveResponse, ResetResponses, ClearResponses
  <2>5. CASE \/ \E e \in Scenarios : PutScenario(e)
             \/ ResetScenario \/ ResetConversations
    BY <2>5 DEF PutScenario, ResetScenario, ResetConversations
  <2> QED BY <1>1, <2>1, <2>2, <2>3, <2>4, <2>5 DEF Clients
<1>2. ASSUME NEW t \in Tasks, Save(t)
      PROVE  /\ pc[t] = "save" /\ pc'[t] = "ok"
             /\ SaveResponse(Response(t))
  BY <1>2 DEF Save, Goto, Structure, TypeOK
<1>3. ASSUME NEW t \in Tasks, Handle(t), ~Save(t)
      PROVE  responses' = responses
  BY <1>3 DEF Handle, Lookup, Snapshot, Fault, CommitWithoutConversation,
              AppendResponse, Conflict
<1>4. CASE UNCHANGED vars
  BY <1>4 DEF vars
<1> QED BY <1>1, <1>2, <1>3, <1>4 DEF Next

-----------------------------------------------------------------------------
(***************************************************************************)
(* Stored objects.                                                         *)
(***************************************************************************)
\* The store is a map.
OneObjectPerId == \A o, p \in responses : o.id = p.id => o = p

LEMMA InitOneObject == Init => OneObjectPerId
BY DEF Init, ResponseInit, OneObjectPerId

LEMMA NextOneObject ==
  Structure /\ OneObjectPerId /\ [Next]_vars => OneObjectPerId'
<1> SUFFICES ASSUME Structure, OneObjectPerId, [Next]_vars
             PROVE  OneObjectPerId'
  OBVIOUS
<1>1. CASE responses' \subseteq responses
  BY <1>1 DEF OneObjectPerId
<1>2. ASSUME NEW object, SaveResponse(object)
      PROVE  OneObjectPerId'
  BY <1>2 DEF SaveResponse, Stored, OneObjectPerId
<1> QED BY <1>1, <1>2, ResponsesStep

LEMMA StepKeepsObjects ==
  Structure /\ OneObjectPerId /\ [Next]_vars =>
    \A o \in responses : \A p \in responses' : o.id = p.id => o = p
<1> SUFFICES ASSUME Structure, OneObjectPerId, [Next]_vars,
                    NEW o \in responses, NEW p \in responses', o.id = p.id
             PROVE  o = p
  OBVIOUS
<1>1. CASE p \in responses
  BY <1>1 DEF OneObjectPerId
<1>2. ASSUME NEW object, SaveResponse(object)
      PROVE  o = p
  BY <1>2 DEF SaveResponse, Stored, OneObjectPerId
<1> QED BY <1>1, <1>2, ResponsesStep

\* StoredObjectsAreImmutable: whichever requests share an id, and whatever is
\* expired, deleted, saved again or reset, no step of create_response or of
\* another client replaces an object of the response store.
THEOREM ObjectsAreImmutable == Spec => StoredObjectsAreImmutable
<1>1. Structure /\ OneObjectPerId /\ [Next]_vars =>
        [\A o \in responses : \A p \in responses' : o.id = p.id => o = p]_vars
  BY StepKeepsObjects
<1> QED BY <1>1, InitStructure, NextStructure, InitOneObject, NextOneObject, PTL
        DEF Spec, StoredObjectsAreImmutable

-----------------------------------------------------------------------------
(***************************************************************************)
(* Traces.                                                                 *)
(***************************************************************************)
\* A task that is about to save is to store its response, and has committed it
\* to its conversation if it has one.
SavesAreCommitted ==
  \A t \in Tasks : pc[t] = "save" =>
    /\ request[t].store
    /\ request[t].conversation # None => t \in appended

LEMMA InitSaves == Init => SavesAreCommitted
BY DEF Init, SavesAreCommitted

LEMMA NextSaves ==
  Structure /\ SavesAreCommitted /\ [Next]_vars => SavesAreCommitted'
<1> SUFFICES ASSUME Structure, SavesAreCommitted, [Next]_vars,
                    NEW t \in Tasks, pc'[t] = "save"
             PROVE  /\ request'[t].store
                    /\ request'[t].conversation # None => t \in appended'
  BY DEF SavesAreCommitted
<1>1. CASE pc[t] = "save"
  <2>1. request'[t] = request[t]
    BY <1>1, PlansPersist
  <2> QED BY <1>1, <2>1, StepShapes DEF SavesAreCommitted
<1>2. CASE pc[t] # "save"
  <2>1. CommitWithoutConversation(t) \/ AppendResponse(t)
    <3> USE <1>2 DEF Structure, TypeOK, Goto
    <3>1. CASE Clients
      <4>1. ASSUME NEW u \in Tasks, NEW q \in Requests, NEW id, Receive(u, q, id)
            PROVE  FALSE
        BY <4>1 DEF Receive
      <4>2. ASSUME NEW u \in Tasks, Disconnect(u) PROVE FALSE
        BY <4>2 DEF Disconnect
      <4>3. pc' # pc
        OBVIOUS
      <4> QED BY <3>1, <4>1, <4>2, <4>3
              DEF Clients, CreateConversation, AddItems, DeleteItem,
                  DeleteConversation, DeleteResponse, PutScenario, ResetScenario,
                  ResetResponses, ResetConversations
    <3>2. CASE \E u \in Tasks : Handle(u)
      BY <3>2 DEF Handle, Lookup, Snapshot, Fault, CommitWithoutConversation,
                  AppendResponse, Conflict, Save
    <3>3. CASE UNCHANGED vars
      BY <3>3 DEF vars
    <3> QED BY <3>1, <3>2, <3>3 DEF Next
  <2>2. request' = request
    BY <2>1 DEF CommitWithoutConversation, AppendResponse, local
  <2>3. pc'[t] = AfterCommit(t)
    BY <2>1 DEF CommitWithoutConversation, AppendResponse, Goto, Structure, TypeOK
  <2>4. request[t].store
    BY <2>3 DEF AfterCommit
  <2>5. request[t].conversation # None => t \in appended'
    BY <2>1 DEF CommitWithoutConversation, AppendResponse
  <2> QED BY <2>2, <2>4, <2>5
<1> QED BY <1>1, <1>2

LEMMA InitTraces == Init => OnlyCommitsLeaveTraces
BY DEF Init, ConversationInit, ResponseInit, OnlyCommitsLeaveTraces

\* Items of a response in a log.
LEMMA NextItemTraces ==
  ASSUME Structure, OnlyCommitsLeaveTraces, [Next]_vars,
         NEW c \in ConversationIds, NEW i \in items'[c], i.id.part \in ResponseParts
  PROVE  \E t \in appended' : Holds(t, c)' /\ i.id.group = ResponseId(t)'
<1>1. CASE i \in items[c]
  <2>1. PICK t \in appended : Holds(t, c) /\ i.id.group = ResponseId(t)
    BY <1>1 DEF OnlyCommitsLeaveTraces
  <2>2. t \in Tasks /\ pc[t] \in {"save", "ok", "dropped"}
    BY DEF Structure, TypeOK, Consistent
  <2>3. request'[t] = request[t] /\ ResponseId(t)' = ResponseId(t)
    BY <2>2, PlansPersist
  <2>4. t \in appended'
    BY StepShapes
  <2>5. Holds(t, c)'
    BY <2>1, <2>3 DEF Holds
  <2> QED BY <2>1, <2>3, <2>4, <2>5
<1>2. CASE i \notin items[c]
  <2>1. ~Opened(c)
    BY DEF Opened, InputItems, Item, ItemId, ResponseParts
  <2>2. ~Batched(c)
    BY <1>2 DEF Batched, OrInsert, InputItems, Item, ItemId, ResponseParts
  <2>3. Committed(c)
    BY <1>2, <2>1, <2>2, StoreStep DEF Untouched, Cut
  <2>4. PICK t \in Tasks : /\ pc[t] = "commit"
                           /\ request[t].conversation = c
                           /\ items'[c] = OrInsert(items[c], ResponseItems(t))
                           /\ t \in appended'
    BY <2>3 DEF Committed
  <2>5. i \in ResponseItems(t)
    BY <1>2, <2>4 DEF OrInsert
  <2>6. i.id.group = ResponseId(t)
    BY <2>4, <2>5, ResponseItemsWellFormed DEF Structure, TypeOK, Consistent
  <2>7. request'[t] = request[t] /\ ResponseId(t)' = ResponseId(t)
        /\ request[t] \in Requests
    BY <2>4, PlansPersist
  <2>8. Holds(t, c)'
    BY <2>4, <2>7, RequestAssumption, ConversationAssumption DEF Holds
  <2> QED BY <2>4, <2>6, <2>7, <2>8
<1> QED BY <1>1, <1>2

\* Objects in the store.
LEMMA NextObjectTraces ==
  ASSUME Structure, SavesAreCommitted, OnlyCommitsLeaveTraces, [Next]_vars,
         NEW o \in responses'
  PROVE  \E t \in Tasks :
           /\ pc'[t] = "ok"
           /\ request'[t].store
           /\ o = Response(t)'
           /\ request'[t].conversation # None => t \in appended'
<1>1. ASSUME NEW t \in Tasks, pc[t] \in {"save", "ok"}
      PROVE  request'[t] = request[t] /\ Response(t)' = Response(t)
  BY <1>1, PlansPersist DEF Response
<1>2. CASE o \in responses
  <2>1. PICK t \in Tasks : /\ pc[t] = "ok"
                           /\ request[t].store
                           /\ o = Response(t)
                           /\ request[t].conversation # None => t \in appended
    BY <1>2 DEF OnlyCommitsLeaveTraces
  <2>2. pc'[t] = "ok"
    BY <2>1, TaskStep DEF Stays, Receives, LooksUp, TakesSnapshot, Ends
  <2> QED BY <1>1, <2>1, <2>2, StepShapes
<1>3. CASE o \notin responses
  <2>1. PICK t \in Tasks : /\ pc[t] = "save" /\ pc'[t] = "ok"
                           /\ SaveResponse(Response(t))
    BY <1>3, ResponsesStep
  <2>2. o = Response(t)
    BY <1>3, <2>1 DEF SaveResponse
  <2> QED BY <1>1, <2>1, <2>2, StepShapes DEF SavesAreCommitted
<1> QED BY <1>2, <1>3

\* OnlyCommitsLeaveTraces: conflicts, faults, expiries and disconnects at any
\* await of create_response leave nothing in either store.
THEOREM OnlyCommitsTrace == Spec => []OnlyCommitsLeaveTraces
<1>1. Structure /\ SavesAreCommitted /\ OnlyCommitsLeaveTraces /\ [Next]_vars
        => OnlyCommitsLeaveTraces'
  BY NextItemTraces, NextObjectTraces DEF OnlyCommitsLeaveTraces
<1> QED BY <1>1, InitStructure, NextStructure, InitSaves, NextSaves, InitTraces, PTL
        DEF Spec

-----------------------------------------------------------------------------
(***************************************************************************)
(* The sorted log.  The items of a conversation are finitely many, and of  *)
(* any two one is before the other; so each item has a rank, the number of *)
(* items before it, the ranks are the places of the log, and the log is    *)
(* what sort_by leaves.                                                    *)
(***************************************************************************)
LEMMA BeforeIsAnOrder ==
  ASSUME NEW S, IsItemSet(S), NEW i \in S, NEW j \in S, NEW k \in S
  PROVE  /\ ~(Before(i, j) /\ Before(j, i))
         /\ Before(i, j) /\ Before(j, k) => Before(i, k)
<1>1. \A h \in S : h.generation \in Nat /\ h.ordinal \in Nat
  BY DEF IsItemSet
<1>2. \A a, b : ~(IdBefore(a, b) /\ IdBefore(b, a))
  BY DEF IdBefore
<1>3. \A a, b, c : IdBefore(a, b) /\ IdBefore(b, c) => IdBefore(a, c)
  BY DEF IdBefore
<1> QED BY <1>1, <1>2, <1>3 DEF Before

\* Any two items of the set are in one order or the other.
Sortable(S) == \A i, j \in S : i # j => Before(i, j) \/ Before(j, i)

\* What is assumed of a set to speak of its log.
Sorts(S) == IsItemSet(S) /\ IsFiniteSet(S) /\ Sortable(S)

Earlier(S, i) == {j \in S : Before(j, i)}
Rank(S, i) == Cardinality(Earlier(S, i))

LEMMA RanksAreOrdered ==
  ASSUME NEW S, Sorts(S)
  PROVE  /\ Cardinality(S) \in Nat
         /\ \A i \in S : Rank(S, i) \in 0 .. Cardinality(S) - 1
         /\ \A i, j \in S : Before(i, j) => Rank(S, i) < Rank(S, j)
         /\ \A i, j \in S : Rank(S, i) = Rank(S, j) => i = j
<1>1. Cardinality(S) \in Nat /\ IsFiniteSet(S)
  BY FS_CardinalityType DEF Sorts
<1>2. \A i, j, k \in S : /\ ~(Before(i, j) /\ Before(j, i))
                         /\ Before(i, j) /\ Before(j, k) => Before(i, k)
  BY BeforeIsAnOrder DEF Sorts
<1>3. ASSUME NEW i \in S
      PROVE  Rank(S, i) \in 0 .. Cardinality(S) - 1 /\ IsFiniteSet(Earlier(S, i))
  <2>1. Earlier(S, i) \in SUBSET S /\ i \notin Earlier(S, i)
    BY <1>2 DEF Earlier
  <2>2. /\ IsFiniteSet(Earlier(S, i))
        /\ Cardinality(Earlier(S, i)) <= Cardinality(S)
        /\ Cardinality(Earlier(S, i)) = Cardinality(S) => Earlier(S, i) = S
    BY <1>1, <2>1, FS_Subset
  <2>3. Cardinality(Earlier(S, i)) \in Nat
    BY <2>2, FS_CardinalityType
  <2> QED BY <1>1, <2>1, <2>2, <2>3 DEF Rank
<1>4. ASSUME NEW i \in S, NEW j \in S, Before(i, j) PROVE Rank(S, i) < Rank(S, j)
  <2>1. Earlier(S, i) \in SUBSET Earlier(S, j)
    BY <1>2, <1>4 DEF Earlier
  <2>2. i \in Earlier(S, j) /\ i \notin Earlier(S, i)
    BY <1>2, <1>4 DEF Earlier
  <2>3. IsFiniteSet(Earlier(S, j))
    BY <1>3
  <2>4. /\ Cardinality(Earlier(S, i)) <= Cardinality(Earlier(S, j))
        /\ Cardinality(Earlier(S, i)) = Cardinality(Earlier(S, j))
             => Earlier(S, i) = Earlier(S, j)
    BY <2>1, <2>3, FS_Subset
  <2>5. Rank(S, i) \in Nat /\ Rank(S, j) \in Nat
    BY <1>3
  <2> QED BY <2>2, <2>4, <2>5 DEF Rank
<1>5. ASSUME NEW i \in S, NEW j \in S, Rank(S, i) = Rank(S, j) PROVE i = j
  <2>1. Rank(S, i) \in Nat /\ Rank(S, j) \in Nat
    BY <1>3
  <2>2. ~Before(i, j) /\ ~Before(j, i)
    BY <1>4, <1>5, <2>1
  <2> QED BY <2>2 DEF Sorts, Sortable
<1> QED BY <1>1, <1>3, <1>4, <1>5

\* Every place has its item: n items with n ranks leave no rank out.
LEMMA EveryRankIsTaken ==
  ASSUME NEW S, Sorts(S), NEW r \in 0 .. Cardinality(S) - 1
  PROVE  \E i \in S : Rank(S, i) = r
<1> SUFFICES ASSUME \A i \in S : Rank(S, i) # r PROVE FALSE
  OBVIOUS
<1> DEFINE n == Cardinality(S)
           T == (0 .. n - 1) \ {r}
           f == [i \in S |-> Rank(S, i)]
<1>1. n \in Nat /\ IsFiniteSet(S)
  BY RanksAreOrdered DEF Sorts
<1>2. f \in [S -> T]
  BY RanksAreOrdered
<1>3. IsFiniteSet(0 .. n - 1) /\ Cardinality(0 .. n - 1) = n
  BY <1>1, FS_Interval
<1>4. IsFiniteSet(T) /\ Cardinality(T) = n - 1
  BY <1>3, FS_RemoveElement
<1>5. Cardinality(T) < Cardinality(S)
  BY <1>1, <1>4
<1> HIDE DEF T
<1>6. \E x, y \in S : x # y /\ f[x] = f[y]
  <2> HIDE DEF f
  <2> QED BY <1>1, <1>2, <1>4, <1>5, FS_PigeonHole
<1> QED BY <1>6, RanksAreOrdered

\* The log has each item's id at its rank.
LEMMA LogPlaces ==
  ASSUME NEW S, Sorts(S)
  PROVE  /\ Log(S) \in Seq(Ids(S))
         /\ Len(Log(S)) = Cardinality(S)
         /\ \A i \in S : /\ Rank(S, i) + 1 \in 1 .. Cardinality(S)
                         /\ Log(S)[Rank(S, i) + 1] = i.id
         /\ \A k \in 1 .. Cardinality(S) :
              \E i \in S : Rank(S, i) = k - 1 /\ Log(S)[k] = i.id
<1> DEFINE n == Cardinality(S)
           at(k) == CHOOSE i \in S : Rank(S, i) = k - 1
<1>1. n \in Nat
  BY RanksAreOrdered
<1>2. ASSUME NEW k \in 1 .. n PROVE at(k) \in S /\ Rank(S, at(k)) = k - 1
  <2>1. k - 1 \in 0 .. n - 1
    BY <1>1
  <2>2. \E i \in S : Rank(S, i) = k - 1
    BY <2>1, EveryRankIsTaken
  <2> QED BY <2>2
<1>3. Log(S) = [k \in 1 .. n |-> at(k).id]
  BY DEF Log, Rank, Earlier
<1> HIDE DEF at
<1>4. \A k \in 1 .. n : Log(S)[k] = at(k).id /\ Log(S)[k] \in Ids(S)
  BY <1>2, <1>3 DEF Ids
<1>5. Log(S) \in [1 .. n -> Ids(S)]
  BY <1>3, <1>4
<1>6. Log(S) \in Seq(Ids(S)) /\ Len(Log(S)) = n
  BY <1>1, <1>5
<1>7. ASSUME NEW i \in S
      PROVE  Rank(S, i) + 1 \in 1 .. n /\ Log(S)[Rank(S, i) + 1] = i.id
  <2> DEFINE k == Rank(S, i) + 1
  <2>1. Rank(S, i) \in 0 .. n - 1
    BY RanksAreOrdered
  <2>2. k \in 1 .. n /\ k - 1 = Rank(S, i)
    BY <1>1, <2>1
  <2>3. at(k) \in S /\ Rank(S, at(k)) = Rank(S, i)
    BY <1>2, <2>2
  <2>4. at(k) = i
    BY <2>3, RanksAreOrdered
  <2> QED BY <1>4, <2>2, <2>4
<1> QED BY <1>2, <1>4, <1>6, <1>7
\* Distinct ids make a log without repetitions.
LEMMA LogIsInjective ==
  ASSUME NEW S, Sorts(S), \A i, j \in S : i.id = j.id => i = j
  PROVE  AbstractLog!IsInjective(Log(S))
<1> DEFINE n == Cardinality(S)
<1>1. n \in Nat /\ DOMAIN Log(S) = 1 .. n
  BY LogPlaces, RanksAreOrdered
<1> SUFFICES ASSUME NEW k \in 1 .. n, NEW l \in 1 .. n, Log(S)[k] = Log(S)[l]
             PROVE  k = l
  BY <1>1 DEF AbstractLog!IsInjective
<1>2. PICK i \in S : Rank(S, i) = k - 1 /\ Log(S)[k] = i.id
  BY LogPlaces
<1>3. PICK j \in S : Rank(S, j) = l - 1 /\ Log(S)[l] = j.id
  BY LogPlaces
<1>4. k - 1 = l - 1
  BY <1>2, <1>3
<1> QED BY <1>1, <1>4

\* What is written after everything else extends the log at its end.
LEMMA LogExtends ==
  ASSUME NEW S, Sorts(S), NEW T, Sorts(T), S \subseteq T, T # S,
         \A i \in S : \A j \in T \ S : Before(i, j)
  PROVE  AbstractLog!IsStrictPrefix(Log(S), Log(T))
<1> DEFINE m == Cardinality(S)
           n == Cardinality(T)
<1>1. m \in Nat /\ n \in Nat /\ m < n
  <2>1. IsFiniteSet(T) /\ S \in SUBSET T
    BY DEF Sorts
  <2>2. m <= n /\ (m = n => S = T)
    BY <2>1, FS_Subset
  <2> QED BY <2>2, RanksAreOrdered
<1>2. ASSUME NEW i \in S PROVE Rank(T, i) = Rank(S, i)
  <2>1. \A j \in T \ S : ~Before(j, i)
    BY BeforeIsAnOrder DEF Sorts
  <2>2. Earlier(T, i) = Earlier(S, i)
    BY <2>1 DEF Earlier
  <2> QED BY <2>2 DEF Rank
<1>3. ASSUME NEW k \in 1 .. m PROVE Log(S)[k] = Log(T)[k]
  <2>1. PICK i \in S : Rank(S, i) = k - 1 /\ Log(S)[k] = i.id
    BY LogPlaces
  <2>2. Rank(T, i) + 1 = k
    BY <1>2, <2>1
  <2>3. Log(T)[Rank(T, i) + 1] = i.id
    BY LogPlaces
  <2> QED BY <2>1, <2>2, <2>3
<1>4. Ids(S) \subseteq Ids(T)
  BY DEF Ids
<1> DEFINE s == Log(S)
           t == Log(T)
<1>5. /\ s \in Seq(Ids(T)) /\ Len(s) = m
      /\ t \in Seq(Ids(T)) /\ Len(t) = n
  <2>1. s \in Seq(Ids(S)) /\ Len(s) = m /\ t \in Seq(Ids(T)) /\ Len(t) = n
    BY LogPlaces
  <2> QED BY <1>4, <2>1
<1>6. Len(s) < Len(t) /\ \A k \in 1 .. Len(s) : s[k] = t[k]
  BY <1>1, <1>3, <1>5
<1> HIDE DEF s, t, m, n
<1>7. IsStrictPrefix(s, t)
  BY <1>5, <1>6, PrefixGrows
<1>8. AbstractLog!IsStrictPrefix(s, t)
  BY <1>7 DEF IsStrictPrefix, IsPrefix, AbstractLog!IsStrictPrefix, AbstractLog!IsPrefix
<1> QED BY <1>8 DEF s, t

\* Taking an item out takes its id out and leaves the others in order.
LEMMA LogLoses ==
  ASSUME NEW S, Sorts(S), NEW x \in S, Sorts(S \ {x})
  PROVE  /\ Rank(S, x) + 1 \in DOMAIN Log(S)
         /\ Log(S \ {x}) = AbstractLog!RemoveAt(Log(S), Rank(S, x) + 1)
<1> DEFINE T == S \ {x}
           n == Cardinality(S)
           r == Rank(S, x) + 1
           s == Log(S)
           t == Log(T)
<1>1. n \in Nat /\ n - 1 \in Nat /\ Cardinality(T) = n - 1 /\ r \in 1 .. n
  <2>1. IsFiniteSet(S)
    BY DEF Sorts
  <2>2. n \in Nat /\ Cardinality(T) = n - 1
    BY <2>1, FS_RemoveElement, FS_CardinalityType
  <2>3. r \in 1 .. n
    BY LogPlaces
  <2> QED BY <2>2, <2>3
<1>2. /\ s \in Seq(Ids(S)) /\ Len(s) = n
      /\ t \in Seq(Ids(S)) /\ Len(t) = n - 1
  <2>1. Sorts(T) /\ Ids(T) \subseteq Ids(S)
    BY DEF Ids
  <2>2. s \in Seq(Ids(S)) /\ Len(s) = n
    BY LogPlaces
  <2> HIDE DEF T
  <2>3. Log(T) \in Seq(Ids(T)) /\ Len(Log(T)) = Cardinality(T)
    BY <2>1, LogPlaces
  <2> QED BY <1>1, <2>1, <2>2, <2>3
<1>3. ASSUME NEW i \in T
      PROVE  IF Before(x, i) THEN Rank(T, i) = Rank(S, i) - 1 ELSE Rank(T, i) = Rank(S, i)
  <2>1. IsFiniteSet(Earlier(S, i))
    <3>1. IsFiniteSet(S) /\ Earlier(S, i) \in SUBSET S
      BY DEF Sorts, Earlier
    <3> QED BY <3>1, FS_Subset
  <2>2. Earlier(T, i) = Earlier(S, i) \ {x}
    BY DEF Earlier
  <2>3. x \in Earlier(S, i) <=> Before(x, i)
    BY DEF Earlier
  <2>4. Cardinality(Earlier(S, i) \ {x})
          = IF x \in Earlier(S, i) THEN Cardinality(Earlier(S, i)) - 1
                                   ELSE Cardinality(Earlier(S, i))
    BY <2>1, FS_RemoveElement
  <2> QED BY <2>2, <2>3, <2>4 DEF Rank
<1>4. ASSUME NEW k \in 1 .. n - 1
      PROVE  t[k] = IF k < r THEN s[k] ELSE s[k + 1]
  <2>1. PICK i \in T : Rank(T, i) = k - 1 /\ t[k] = i.id
    BY <1>1, LogPlaces
  <2>2. i \in S /\ i # x /\ s[Rank(S, i) + 1] = i.id /\ Rank(S, i) \in Nat /\ Rank(S, x) \in Nat
    BY <2>1, LogPlaces, RanksAreOrdered
  <2>3. CASE Before(x, i)
    <3>0. Rank(T, i) = Rank(S, i) - 1
      BY <1>3, <2>3
    <3>1. Rank(S, i) = k
      BY <1>1, <2>1, <2>2, <3>0
    <3>2. Rank(S, x) < Rank(S, i)
      BY <2>2, <2>3, RanksAreOrdered
    <3>3. ~(k < r)
      BY <2>2, <3>1, <3>2
    <3> QED BY <2>1, <2>2, <3>1, <3>3
  <2>4. CASE ~Before(x, i)
    <3>1. Rank(S, i) = k - 1
      BY <1>3, <2>1, <2>4
    <3>2. Before(i, x)
      BY <2>2, <2>4 DEF Sorts, Sortable
    <3>3. Rank(S, i) < Rank(S, x)
      BY <2>2, <3>2, RanksAreOrdered
    <3>4. k < r /\ Rank(S, i) + 1 = k
      BY <2>2, <3>1, <3>3
    <3> QED BY <2>1, <2>2, <3>4
  <2> QED BY <2>3, <2>4
<1> HIDE DEF s, t, r, n, T
<1> DEFINE a == SubSeq(s, 1, r - 1)
           b == SubSeq(s, r + 1, n)
<1>5. /\ a \in Seq(Ids(S)) /\ Len(a) = r - 1 /\ \A k \in 1 .. r - 1 : a[k] = s[k]
  BY <1>1, <1>2, SubSeqProperties
<1>6. /\ b \in Seq(Ids(S)) /\ Len(b) = n - r /\ \A k \in 1 .. n - r : b[k] = s[r + k]
  <2>1. r + 1 \in 1 .. n + 1 /\ r + 1 \in Nat /\ n - (r + 1) + 1 = n - r
    BY <1>1
  <2>2. b \in Seq(Ids(S))
    BY <1>1, <1>2, <2>1
  <2>3. Len(b) = n - r
    BY <1>1, <1>2, <2>1, SubSeqProperties
  <2>4. ASSUME NEW k \in 1 .. n - r PROVE b[k] = s[r + k]
    <3>1. b[k] = s[(r + 1) + k - 1]
      BY <1>1, <1>2, <2>1, SubSeqProperties
    <3>2. (r + 1) + k - 1 = r + k
      BY <1>1
    <3> QED BY <3>1, <3>2
  <2> QED BY <2>2, <2>3, <2>4
<1> HIDE DEF a, b
<1>7. /\ a \o b \in Seq(Ids(S)) /\ Len(a \o b) = Len(a) + Len(b)
      /\ \A k \in 1 .. Len(a) : (a \o b)[k] = a[k]
      /\ \A k \in 1 .. Len(b) : (a \o b)[Len(a) + k] = b[k]
  <2>1. a \in Seq(Ids(S)) /\ b \in Seq(Ids(S))
    BY <1>5, <1>6
  <2> QED BY <2>1, ConcatPlaces
<1>8. Len(a \o b) = n - 1
  BY <1>1, <1>5, <1>6, <1>7
<1>9. ASSUME NEW k \in 1 .. n - 1 PROVE t[k] = (a \o b)[k]
  <2>1. CASE k < r
    <3>1. k \in 1 .. r - 1
      BY <1>1, <2>1
    <3> QED BY <1>4, <1>5, <1>7, <2>1, <3>1
  <2>2. CASE ~(k < r)
    <3> DEFINE l == k - (r - 1)
    <3>1. l \in 1 .. n - r /\ (r - 1) + l = k /\ r + l = k + 1
      BY <1>1, <2>2
    <3> HIDE DEF l
    <3>2. (a \o b)[k] = b[l]
      BY <1>5, <1>6, <1>7, <3>1
    <3> QED BY <1>4, <1>6, <2>2, <3>1, <3>2
  <2> QED BY <2>1, <2>2
<1>10. t = a \o b
  BY <1>1, <1>2, <1>7, <1>8, <1>9, SeqEqual
<1>11. t = AbstractLog!RemoveAt(s, r)
  BY <1>2, <1>10 DEF AbstractLog!RemoveAt, a, b
<1>12. r \in DOMAIN s
  BY <1>1, <1>2
<1> QED BY <1>11, <1>12 DEF s, t, r, T
-----------------------------------------------------------------------------
(***************************************************************************)
(* The item sets of the store can be sorted.                               *)
(***************************************************************************)
LogsSort ==
  \A c \in ConversationIds : IsFiniteSet(items[c]) /\ Sortable(items[c])

LEMMA InputItemsSort ==
  ASSUME NEW part, NEW group, NEW n \in Nat, NEW g \in Nat
  PROVE  /\ IsFiniteSet(InputItems(part, group, n, g))
         /\ Sortable(InputItems(part, group, n, g))
<1> DEFINE S == InputItems(part, group, n, g)
           f == [k \in 0 .. n - 1 |-> Item(ItemId(part, group, k), g, k)]
<1>1. S = {f[k] : k \in 0 .. n - 1}
  BY DEF InputItems
<1>2. f \in Surjection(0 .. n - 1, S)
  BY <1>1 DEF Surjection
<1>3. IsFiniteSet(0 .. n - 1)
  BY FS_Interval
<1>4. IsFiniteSet(S)
  <2> HIDE DEF S, f
  <2> QED BY <1>2, <1>3, FS_Surjection
<1>5. Sortable(S)
  BY DEF Sortable, InputItems, Item, ItemId, Before
<1> QED BY <1>4, <1>5

\* A write at the next generation comes after all that was there.
LEMMA OrInsertSorts ==
  ASSUME NEW S, Sorts(S), Bounded(S), NEW new, Sorts(new),
         \A i \in new : i.generation = NextGeneration(S)
  PROVE  /\ IsFiniteSet(OrInsert(S, new)) /\ Sortable(OrInsert(S, new))
         /\ \A i \in S : \A j \in OrInsert(S, new) \ S : Before(i, j)
<1> DEFINE added == {i \in new : i.id \notin Ids(S)}
           T == OrInsert(S, new)
<1>1. T = S \cup added /\ added \in SUBSET new
  BY DEF OrInsert
<1>2. IsFiniteSet(T)
  <2>1. IsFiniteSet(S) /\ IsFiniteSet(added)
    BY <1>1, FS_Subset DEF Sorts
  <2> HIDE DEF added
  <2> QED BY <1>1, <2>1, FS_Union
<1>3. \A i \in S : i.generation \in Nat /\ i.generation < NextGeneration(S)
  BY NextGenerationIsNext DEF Sorts, IsItemSet
<1>4. \A i \in S : \A j \in added : Before(i, j)
  BY <1>1, <1>3 DEF Before
<1>5. Sortable(T)
  BY <1>1, <1>4 DEF Sorts, Sortable
<1> QED BY <1>1, <1>2, <1>4, <1>5

\* The items of one response: inputs by their number, then its outputs; an
\* input and an output that share a number are told apart by their parts.
LEMMA ResponseItemsSort ==
  ASSUME NEW t \in Tasks, request[t] \in Requests,
         IsItemSet(snapshot[t]), Bounded(snapshot[t])
  PROVE  IsFiniteSet(ResponseItems(t)) /\ Sortable(ResponseItems(t))
<1> DEFINE q == request[t]
           n == Len(q.input)
           m == Len(q.output)
           g == Generation(t)
           id == ResponseId(t)
           at == Offset(q)
           inputs == InputItems("input", id, n, g)
           outputs == OutputItems(id, q, g)
<1>1. n \in Nat /\ q.output \in Outputs /\ at \in Nat
  BY RequestAssumption, OffsetIsNat
<1>2. g \in Nat
  BY NextGenerationIsNext DEF Generation
<1>3. m \in Nat /\ \A k \in 1 .. m : q.output[k] \in {"reasoning", "message"}
  BY <1>1 DEF Outputs
<1>4. ResponseItems(t) = inputs \cup outputs
  BY DEF ResponseItems
<1>5. IsFiniteSet(inputs) /\ Sortable(inputs)
  <2> HIDE DEF n, g, id
  <2> QED BY <1>1, <1>2, InputItemsSort
<1> DEFINE out(k) == Item(ItemId(q.output[k], id, 0), g, at + k - 1)
<1>6. outputs = {out(k) : k \in 1 .. m}
  BY DEF OutputItems
<1>7. \A k \in 1 .. m : /\ out(k).ordinal = at + k - 1
                        /\ out(k).generation = g
                        /\ out(k).id.part \in {"reasoning", "message"}
  BY <1>3 DEF Item, ItemId
<1>8. \A i \in inputs : i.id.part = "input" /\ i.generation = g /\ i.ordinal \in Nat
  BY <1>1 DEF InputItems, Item, ItemId
<1> HIDE DEF out, inputs, outputs, n, m, g, at, id
<1>9. IsFiniteSet(outputs)
  <2> DEFINE f == [k \in 1 .. m |-> out(k)]
  <2>1. f \in Surjection(1 .. m, outputs)
    BY <1>6 DEF Surjection
  <2>2. IsFiniteSet(1 .. m)
    BY <1>3, FS_Interval
  <2> HIDE DEF f
  <2> QED BY <2>1, <2>2, FS_Surjection
<1>10. ASSUME NEW k \in 1 .. m, NEW l \in 1 .. m, k # l
       PROVE  Before(out(k), out(l)) \/ Before(out(l), out(k))
  <2>1. at + k - 1 < at + l - 1 \/ at + l - 1 < at + k - 1
    BY <1>1, <1>3, <1>10
  <2> QED BY <1>7, <2>1 DEF Before
<1>11. \A i, j \in outputs : i # j => Before(i, j) \/ Before(j, i)
  BY <1>6, <1>10
<1>12. ASSUME NEW i \in inputs, NEW k \in 1 .. m
       PROVE  Before(i, out(k)) \/ Before(out(k), i)
  <2>1. i.ordinal \in Nat /\ out(k).ordinal \in Nat
    BY <1>1, <1>3, <1>7, <1>8
  <2>2. i.generation = out(k).generation
    BY <1>7, <1>8
  <2>3. IdBefore(i.id, out(k).id) \/ IdBefore(out(k).id, i.id)
    BY <1>7, <1>8, ConversationAssumption DEF IdBefore
  <2> QED BY <2>1, <2>2, <2>3 DEF Before
<1>13. Sortable(inputs \cup outputs)
  BY <1>5, <1>6, <1>11, <1>12 DEF Sortable
<1> QED BY <1>4, <1>5, <1>9, <1>13, FS_Union

LEMMA InitSorts == Init => LogsSort
BY FS_EmptySet DEF Init, ConversationInit, LogsSort, Sortable

LEMMA SortedSet ==
  ASSUME Structure, LogsSort, NEW c \in ConversationIds
  PROVE  Sorts(items[c]) /\ Bounded(items[c])
BY DEF Structure, TypeOK, LogsSort, Sorts

\* What a batch or a commit inserts can be sorted and is at the next generation.
LEMMA BatchSorts ==
  ASSUME Structure, LogsSort, NEW c \in ConversationIds, NEW b \in Batches
  PROVE  LET new == InputItems("batch", b, BatchLength[b], NextGeneration(items[c]))
         IN  Sorts(new) /\ \A i \in new : i.generation = NextGeneration(items[c])
<1> DEFINE n == BatchLength[b]
           g == NextGeneration(items[c])
<1>1. n \in Nat /\ g \in Nat
  BY ConversationAssumption, NextGenerationIsNext DEF Structure, TypeOK
<1> HIDE DEF n, g
<1>2. /\ Sorts(InputItems("batch", b, n, g))
      /\ \A i \in InputItems("batch", b, n, g) : i.generation = g
  BY <1>1, InputItemsSort, InputItemsWellFormed DEF Sorts
<1> QED BY <1>2 DEF n, g

LEMMA CommitSorts ==
  ASSUME Structure, NEW t \in Tasks, request[t] \in Requests
  PROVE  Sorts(ResponseItems(t)) /\ \A i \in ResponseItems(t) : i.generation = Generation(t)
BY ResponseItemsSort, ResponseItemsWellFormed DEF Structure, TypeOK, Sorts

LEMMA NextSorts == Structure /\ LogsSort /\ [Next]_vars => LogsSort'
<1> SUFFICES ASSUME Structure, LogsSort, [Next]_vars, NEW c \in ConversationIds
             PROVE  IsFiniteSet(items'[c]) /\ Sortable(items'[c])
  BY DEF LogsSort
<1>1. Sorts(items[c]) /\ Bounded(items[c])
  BY SortedSet
<1>2. CASE Untouched(c)
  BY <1>1, <1>2 DEF Untouched, Sorts
<1>3. CASE Cut(c)
  <2>1. items'[c] \in SUBSET items[c]
    BY <1>3 DEF Cut
  <2> QED BY <1>1, <2>1, FS_Subset DEF Sorts, Sortable
<1>4. CASE Opened(c)
  <2> DEFINE n == InitialLength[c]
  <2>1. n \in Nat /\ 0 \in Nat
    BY ConversationAssumption
  <2> HIDE DEF n
  <2>2. LET S == InputItems("initial", None, n, 0) IN IsFiniteSet(S) /\ Sortable(S)
    BY <2>1, InputItemsSort
  <2> QED BY <1>4, <2>2 DEF Opened, n
<1>5. CASE Batched(c)
  <2>1. PICK b \in Batches :
          items'[c] = OrInsert(items[c], InputItems("batch", b, BatchLength[b],
                                                    NextGeneration(items[c])))
    BY <1>5 DEF Batched
  <2> DEFINE new == InputItems("batch", b, BatchLength[b], NextGeneration(items[c]))
  <2>2. Sorts(new) /\ \A i \in new : i.generation = NextGeneration(items[c])
    BY BatchSorts
  <2> HIDE DEF new
  <2>3. IsFiniteSet(OrInsert(items[c], new)) /\ Sortable(OrInsert(items[c], new))
    BY <1>1, <2>2, OrInsertSorts
  <2> QED BY <2>1, <2>3 DEF new
<1>6. CASE Committed(c)
  <2>1. PICK t \in Tasks : /\ pc[t] = "commit"
                           /\ NextGeneration(items[c]) = Generation(t)
                           /\ items'[c] = OrInsert(items[c], ResponseItems(t))
    BY <1>6 DEF Committed
  <2>2. request[t] \in Requests
    BY <2>1 DEF Structure, TypeOK, Consistent
  <2> DEFINE new == ResponseItems(t)
  <2>3. Sorts(new) /\ \A i \in new : i.generation = NextGeneration(items[c])
    BY <2>1, <2>2, CommitSorts
  <2> HIDE DEF new
  <2>4. IsFiniteSet(OrInsert(items[c], new)) /\ Sortable(OrInsert(items[c], new))
    BY <1>1, <2>3, OrInsertSorts
  <2> QED BY <2>1, <2>4 DEF new
<1> QED BY <1>2, <1>3, <1>4, <1>5, <1>6, StoreStep
-----------------------------------------------------------------------------
(***************************************************************************)
(* The store implements ItemLog.                                           *)
(***************************************************************************)
LEMMA EmptyLog == Log({}) = <<>>
<1>1. Cardinality({}) = 0
  BY FS_EmptySet
<1> QED BY <1>1 DEF Log

\* What the refinement rests on, in one state.
CanBeSorted ==
  /\ DOMAIN items = ConversationIds
  /\ \A c \in ConversationIds :
       /\ Sorts(items[c]) /\ Bounded(items[c])
       /\ \A i, j \in items[c] : i.id = j.id => i = j

LEMMA StructureSorts == Structure /\ LogsSort /\ UniqueIds => CanBeSorted
BY DEF Structure, TypeOK, LogsSort, UniqueIds, CanBeSorted, Sorts

LEMMA LogsOf ==
  /\ \A c \in ConversationIds : SortedLog[c] = Log(items[c])
  /\ \A c \in ConversationIds : SortedLog'[c] = Log(items'[c])
BY DEF SortedLog

\* Items inserted at the next generation of one conversation.
LEMMA InsertionExtends ==
  ASSUME CanBeSorted, CanBeSorted', NEW c \in ConversationIds, c \in live,
         NEW new, Sorts(new), \A i \in new : i.generation = NextGeneration(items[c]),
         items' = [items EXCEPT ![c] = OrInsert(items[c], new)], live' = live
  PROVE  SortedLog' = SortedLog \/ AbstractLog!Extend(c)
<1> DEFINE S == items[c]
           T == items'[c]
<1>1. /\ Sorts(S) /\ Bounded(S) /\ Sorts(T)
      /\ \A i, j \in T : i.id = j.id => i = j
  BY DEF CanBeSorted
<1>2. /\ T = OrInsert(S, new)
      /\ \A d \in ConversationIds \ {c} : items'[d] = items[d]
  BY DEF CanBeSorted
<1>3. CASE T = S
  <2>1. \A d \in ConversationIds : items'[d] = items[d]
    BY <1>2, <1>3
  <2>2. SortedLog' = [d \in ConversationIds |-> Log(items'[d])]
    BY DEF SortedLog
  <2> QED BY <2>1, <2>2 DEF SortedLog
<1> SUFFICES ASSUME T # S PROVE AbstractLog!Extend(c)
  BY <1>3
<1>4. S \subseteq T
  BY <1>2 DEF OrInsert
<1>5. \A i \in S : \A j \in T \ S : Before(i, j)
  <2> HIDE DEF S, T
  <2>1. \A i \in S : \A j \in OrInsert(S, new) \ S : Before(i, j)
    <3>1. \A i \in new : i.generation = NextGeneration(S)
      BY DEF S
    <3> QED BY <1>1, <3>1, OrInsertSorts
  <2> QED BY <1>2, <2>1
<1>6. AbstractLog!IsStrictPrefix(Log(S), Log(T)) /\ AbstractLog!IsInjective(Log(T))
  <2> HIDE DEF S, T
  <2> QED BY <1>1, <1>4, <1>5, LogExtends, LogIsInjective
<1> QED BY <1>2, <1>6, LogsOf DEF AbstractLog!Extend, AbstractLog!Only

LEMMA CreationOpens ==
  ASSUME CanBeSorted, CanBeSorted', NEW c \in ConversationIds, Create(c)
  PROVE  UNCHANGED <<live, items>> \/ AbstractLog!Open(c)
<1>1. CASE c \in live
  BY <1>1 DEF Create
<1>2. CASE c \notin live
  <2>1. live' = live \cup {c} /\ \A d \in ConversationIds \ {c} : items'[d] = items[d]
    BY <1>2 DEF Create, CanBeSorted
  <2> DEFINE T == items'[c]
  <2>2. Sorts(T) /\ \A i, j \in T : i.id = j.id => i = j
    BY DEF CanBeSorted
  <2>3. AbstractLog!IsInjective(Log(T))
    <3> HIDE DEF T
    <3> QED BY <2>2, LogIsInjective
  <2> QED BY <1>2, <2>1, <2>3, LogsOf DEF AbstractLog!Open, AbstractLog!Only
<1> QED BY <1>1, <1>2

LEMMA RemovalDeletes ==
  ASSUME CanBeSorted, CanBeSorted', NEW c \in ConversationIds,
         NEW id \in Ids(items[c]), RemoveItem(c, id)
  PROVE  AbstractLog!Delete(c)
<1> DEFINE S == items[c]
<1>1. /\ c \in live /\ live' = live /\ items'[c] = {i \in S : i.id # id}
      /\ \A d \in ConversationIds \ {c} : items'[d] = items[d]
  BY DEF RemoveItem, CanBeSorted
<1>2. PICK x \in S : x.id = id
  BY DEF Ids
<1>3. items'[c] = S \ {x}
  BY <1>1, <1>2 DEF CanBeSorted
<1>4. Sorts(S) /\ Sorts(S \ {x})
  BY <1>3 DEF CanBeSorted
<1>5. /\ Rank(S, x) + 1 \in DOMAIN Log(S)
      /\ Log(S \ {x}) = AbstractLog!RemoveAt(Log(S), Rank(S, x) + 1)
  <2> HIDE DEF S
  <2> QED BY <1>2, <1>4, LogLoses
<1> QED BY <1>1, <1>3, <1>5, LogsOf DEF AbstractLog!Delete, AbstractLog!Only

LEMMA DeletionCloses ==
  ASSUME CanBeSorted, NEW c \in ConversationIds, RemoveConversation(c)
  PROVE  AbstractLog!Close(c)
<1>1. /\ live' = live \ {c} /\ items'[c] = {}
      /\ \A d \in ConversationIds \ {c} : items'[d] = items[d]
  BY DEF RemoveConversation, CanBeSorted
<1> QED BY <1>1, LogsOf, EmptyLog DEF AbstractLog!Close, AbstractLog!Only

LEMMA ClearingClosesAll ==
  ASSUME ClearConversations
  PROVE  AbstractLog!CloseAll
<1>1. live' = {} /\ \A c \in ConversationIds : items'[c] = {}
  BY DEF ClearConversations
<1>2. SortedLog' = [c \in ConversationIds |-> Log(items'[c])]
  BY DEF SortedLog
<1>3. \A c \in ConversationIds : Log(items'[c]) = <<>>
  BY <1>1, EmptyLog
<1> QED BY <1>1, <1>2, <1>3 DEF AbstractLog!CloseAll

LEMMA StepsImplement ==
  ASSUME Structure, LogsSort, CanBeSorted, CanBeSorted', [Next]_vars
  PROVE  AbstractLog!Next \/ UNCHANGED AbstractLog!logVars
<1>1. CASE UNCHANGED <<live, items>>
  BY <1>1 DEF AbstractLog!logVars, SortedLog
<1>2. ASSUME NEW c \in ConversationIds, CreateConversation(c)
      PROVE  AbstractLog!Next \/ UNCHANGED <<live, items>>
  BY <1>2, CreationOpens DEF CreateConversation, AbstractLog!Next
<1>3. ASSUME NEW c \in ConversationIds, NEW b \in Batches, AddItems(c, b)
      PROVE  AbstractLog!Next \/ UNCHANGED AbstractLog!logVars
  <2> DEFINE new == InputItems("batch", b, BatchLength[b], NextGeneration(items[c]))
  <2>1. Sorts(new) /\ \A i \in new : i.generation = NextGeneration(items[c])
    BY BatchSorts
  <2>2. /\ c \in live /\ live' = live
        /\ items' = [items EXCEPT ![c] = OrInsert(items[c], new)]
    BY <1>3 DEF AddItems, AddBatch
  <2> HIDE DEF new
  <2>3. SortedLog' = SortedLog \/ AbstractLog!Extend(c)
    BY <2>1, <2>2, InsertionExtends
  <2> QED BY <2>2, <2>3 DEF AbstractLog!Next, AbstractLog!logVars
<1>4. ASSUME NEW t \in Tasks, AppendResponse(t)
      PROVE  AbstractLog!Next \/ UNCHANGED AbstractLog!logVars
  <2> DEFINE c == request[t].conversation
             new == ResponseItems(t)
  <2>1. /\ pc[t] = "commit" /\ c # None /\ c \in live
        /\ NextGeneration(items[c]) = Generation(t)
        /\ items' = [items EXCEPT ![c] = OrInsert(items[c], new)] /\ live' = live
    BY <1>4 DEF AppendResponse, MayAppend, AppendGroup
  <2>2. request[t] \in Requests
    BY <2>1 DEF Structure, TypeOK, Consistent
  <2>3. c \in ConversationIds
    BY <2>1, <2>2, RequestAssumption
  <2>4. Sorts(new) /\ \A i \in new : i.generation = NextGeneration(items[c])
    BY <2>1, <2>2, CommitSorts
  <2> HIDE DEF c, new
  <2>5. SortedLog' = SortedLog \/ AbstractLog!Extend(c)
    BY <2>1, <2>3, <2>4, InsertionExtends
  <2> QED BY <2>1, <2>3, <2>5 DEF AbstractLog!Next, AbstractLog!logVars
<1>5. ASSUME NEW c \in ConversationIds, NEW id \in Ids(items[c]), DeleteItem(c, id)
      PROVE  AbstractLog!Next
  BY <1>5, RemovalDeletes DEF DeleteItem, AbstractLog!Next
<1>6. ASSUME NEW c \in ConversationIds, DeleteConversation(c)
      PROVE  AbstractLog!Next
  BY <1>6, DeletionCloses DEF DeleteConversation, AbstractLog!Next
<1>7. CASE ResetConversations
  BY <1>7, ClearingClosesAll DEF ResetConversations, AbstractLog!Next
<1>8. CASE Clients
  <2>1. CASE \E t \in Tasks, q \in Requests, id \in AnsweredIds \cup {None} :
               Receive(t, q, id)
    BY <1>1, <2>1 DEF Receive, stores
  <2>2. CASE \E t \in Tasks : Disconnect(t)
    BY <1>1, <2>2 DEF Disconnect, stores
  <2>3. CASE \E id \in Ids(responses) : DeleteResponse(id)
    BY <1>1, <2>3 DEF DeleteResponse
  <2>4. CASE \E e \in Scenarios : PutScenario(e)
    BY <1>1, <2>4 DEF PutScenario, stores
  <2>5. CASE ResetScenario \/ ResetResponses
    BY <1>1, <2>5 DEF ResetScenario, ResetResponses, stores
  <2> QED BY <1>1, <1>2, <1>3, <1>5, <1>6, <1>7, <1>8, <2>1, <2>2, <2>3, <2>4, <2>5
          DEF Clients
<1>9. CASE \E t \in Tasks : Handle(t)
  <2> SUFFICES ASSUME NEW t \in Tasks, Handle(t), ~AppendResponse(t)
               PROVE  UNCHANGED <<live, items>>
    BY <1>1, <1>4, <1>9
  <2> QED BY DEF Handle, Lookup, Snapshot, Fault, CommitWithoutConversation,
                 Conflict, Save, stores
<1>10. CASE UNCHANGED vars
  BY <1>1, <1>10 DEF vars, stores
<1> QED BY <1>8, <1>9, <1>10 DEF Next

\* ImplementsItemLog: what list_items returns, sorted by sort_by, is a log that
\* add_items and append_response extend at its end only, and that deletions
\* leave in order, whatever requests, retries, deletions and resets interleave.
THEOREM LogsAreItemLogs == Spec => ImplementsItemLog
<1>1. Init => AbstractLog!Init
  <2> SUFFICES ASSUME Init PROVE AbstractLog!Init
    OBVIOUS
  <2>1. \A c \in ConversationIds : Log(items[c]) = <<>>
    BY EmptyLog DEF Init, ConversationInit
  <2> QED BY <2>1 DEF Init, ConversationInit, SortedLog, AbstractLog!Init
<1>2. /\ Structure /\ LogsSort /\ CanBeSorted /\ CanBeSorted'
      /\ [Next]_vars
      => [AbstractLog!Next]_(AbstractLog!logVars)
  BY StepsImplement
<1>3. Spec => [](Structure /\ LogsSort /\ CanBeSorted)
  BY InitStructure, NextStructure, InitSorts, NextSorts, InitUnique, NextUnique,
     StructureSorts, PTL DEF Spec
<1> QED BY <1>1, <1>2, <1>3, PTL DEF Spec, ImplementsItemLog, AbstractLog!Spec
=============================================================================
