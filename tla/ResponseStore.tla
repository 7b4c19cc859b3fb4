---------------------------- MODULE ResponseStore ----------------------------
(***************************************************************************)
(* The process-local store of Response objects (ResponseStore in           *)
(* src/store.rs): a map from response id to object behind one RwLock, so   *)
(* every operation is one atomic action.  An object is a record with an id *)
(* and the members of the request that its id does not cover.              *)
(***************************************************************************)

VARIABLE responses   \* the stored objects, at most one per id

ResponseInit == responses = {}

Stored(id) == \E o \in responses : o.id = id

\* Mutant: insert, the last object saved under an id stays.
SaveResponseOver(object) ==
  responses' = {o \in responses : o.id # object.id} \cup {object}

\* or_insert: the first object saved under an id stays.
SaveResponse(object) ==
  responses' = IF Stored(object.id) THEN responses ELSE responses \cup {object}

RemoveResponse(id) ==
  /\ Stored(id)
  /\ responses' = {o \in responses : o.id # id}

ClearResponses == responses' = {}

=============================================================================
