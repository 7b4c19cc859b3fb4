--------------------------- MODULE CompletionStore ---------------------------
(***************************************************************************)
(* The store of chat completions (CompletionStore of src/store.rs): an     *)
(* IndexMap behind one RwLock.  order is its insertion order; a completion *)
(* is the record of what requests and updates tell apart.                  *)
(***************************************************************************)
EXTENDS Naturals, FiniteSets, Sequences, SequencesExt

CONSTANT None

VARIABLES
  order,       \* ids, oldest first
  completions  \* [ids in order -> completions]

storeVars == <<order, completions>>

CompletionInit == order = <<>> /\ completions = <<>>

Present(id) == id \in ToSet(order)

\* Mutant: what is saved again moves to the end.
SaveAtEnd(id, completion) ==
  /\ order' = Append(Remove(order, id), id)
  /\ completions' = [i \in ToSet(order) \cup {id} |->
                       IF i = id THEN completion ELSE completions[i]]

\* An id that is present keeps its place and gets the new completion.
SaveCompletion(id, completion) ==
  /\ order' = IF Present(id) THEN order ELSE Append(order, id)
  /\ completions' = [i \in ToSet(order) \cup {id} |->
                       IF i = id THEN completion ELSE completions[i]]

UpdateMetadata(id, metadata) ==
  /\ Present(id)
  /\ completions' = [completions EXCEPT ![id].metadata = metadata]
  /\ UNCHANGED order

Position(id) == CHOOSE k \in DOMAIN order : order[k] = id

\* Mutant: swap_remove, the last entry takes the place of the one removed.
SwapRemove(id) ==
  /\ Present(id)
  /\ order' = IF Last(order) = id THEN Front(order)
              ELSE [Front(order) EXCEPT ![Position(id)] = Last(order)]
  /\ completions' = [i \in ToSet(order) \ {id} |-> completions[i]]

\* shift_remove: the others keep their order.
RemoveCompletion(id) ==
  /\ Present(id)
  /\ order' = RemoveAt(order, Position(id))
  /\ completions' = [i \in ToSet(order) \ {id} |-> completions[i]]

-----------------------------------------------------------------------------
\* A cursor that is among the entries drops them up to itself; any other
\* cursor drops nothing.
AfterCursor(entries, after) ==
  LET at == {k \in DOMAIN entries : entries[k] = after}
  IN IF at = {} THEN entries
     ELSE SubSeq(entries, (CHOOSE k \in at : TRUE) + 1, Len(entries))

Directed(direction) == IF direction = "asc" THEN order ELSE Reverse(order)

\* Vec::retain: the entries that are in the set, in their order.
Retained(entries, set) ==
  LET retained[n \in 0 .. Len(entries)] ==
        IF n = 0 THEN <<>>
        ELSE IF entries[n] \in set THEN Append(retained[n - 1], entries[n])
        ELSE retained[n - 1]
  IN retained[Len(entries)]

Passing(filter) ==
  {id \in ToSet(order) : filter = None \/ completions[id].metadata = filter}

\* Filters apply before the cursor.
Listed(direction, filter) == Retained(Directed(direction), Passing(filter))

List(direction, filter, after, limit) ==
  LET rest == AfterCursor(Listed(direction, filter), after)
  IN IF limit = 0 \/ Len(rest) <= limit THEN rest ELSE SubSeq(rest, 1, limit)

=============================================================================
