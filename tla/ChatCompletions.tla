--------------------------- MODULE ChatCompletions ---------------------------
(***************************************************************************)
(* The chat completion routes on the completion store: create, update,     *)
(* delete, and clients that page through the list (src/http/routes.rs,     *)
(* src/service.rs).                                                        *)
(*                                                                         *)
(* A handler takes the store's lock once, and what follows the save is     *)
(* synchronous, so each request is one action; a client that goes away     *)
(* before it leaves nothing.                                               *)
(***************************************************************************)
EXTENDS CompletionStore

CONSTANTS
  Requests,  \* the bodies clients post
  Updates,   \* the metadata they update completions with
  Pagers,    \* clients that page through the list
  Queries,   \* what those ask for
  MaxSeen    \* bound: a pager reads no page once it has seen so many entries

\* A body: its path (the script dataset, or a semantic case selected by a
\* directive), what its reply is chosen by (prompt), metadata, what else the
\* completion echoes (tuning: temperature, user, ...), and whether it is to be
\* stored.
ASSUME RequestAssumption ==
  /\ \A r \in Requests :
       r.path \in {"script", "semantic"} /\ r.store \in BOOLEAN
  /\ \A q \in Queries : q.direction \in {"asc", "desc"} /\ q.limit \in 0 .. 100
  /\ MaxSeen \in Nat

VARIABLE pager  \* [Pagers -> the state of a client that pages]

vars == <<storeVars, pager>>

\* The id is a digest; a semantic plan does not cover the metadata.
CompletionId(r) ==
  [prompt |-> r.prompt, path |-> r.path,
   metadata |-> IF r.path = "script" THEN r.metadata ELSE None]

Ids == {CompletionId(r) : r \in Requests}

ASSUME IdsAssumption == None \notin Ids

Completion(r) == [metadata |-> r.metadata, tuning |-> r.tuning]

\* A pager has a query, a cursor, what it has seen, and whether it was told
\* that there is more.  start, touched and lost are history: the entries listed
\* when it began, those deleted or updated since, and whether one of those was
\* its cursor at the time.
Idle == [state |-> "idle", query |-> None, after |-> None, seen |-> <<>>,
         start |-> {}, touched |-> {}, lost |-> FALSE]

Init ==
  /\ CompletionInit
  /\ pager = [p \in Pagers |-> Idle]

Touch(id) ==
  pager' = [p \in Pagers |->
              IF pager[p].state # "idle"
              THEN [pager[p] EXCEPT !.touched = @ \cup {id},
                                    !.lost = @ \/ pager[p].after = id]
              ELSE pager[p]]

\* create_chat_completion: the completion is stored before it is decided
\* whether an http_error fires, so what is answered makes no difference here.
CreateCompletion(r) ==
  /\ IF r.store THEN SaveCompletion(CompletionId(r), Completion(r))
                ELSE UNCHANGED storeVars
  /\ IF r.store /\ Present(CompletionId(r))
        /\ completions[CompletionId(r)].metadata # r.metadata
     THEN Touch(CompletionId(r))
     ELSE UNCHANGED pager

UpdateCompletion(id) ==
  /\ \E metadata \in Updates : UpdateMetadata(id, metadata)
  /\ Touch(id)

DeleteCompletion(id) ==
  /\ RemoveCompletion(id)
  /\ Touch(id)

BeginPaging(p) ==
  /\ pager[p].state = "idle"
  /\ \E query \in Queries :
       pager' = [pager EXCEPT ![p] =
                   [Idle EXCEPT !.state = "paging", !.query = query,
                                !.start = ToSet(Listed(query.direction, query.filter))]]
  /\ UNCHANGED storeVars

\* list_chat_completions: one entry more than the page is fetched to tell
\* whether there is more; the client goes on from the last entry it got.
ReadPage(p) ==
  LET query == pager[p].query
      fetched == List(query.direction, query.filter, pager[p].after, query.limit + 1)
      more == Len(fetched) > query.limit
      page == IF more THEN SubSeq(fetched, 1, query.limit) ELSE fetched
  IN /\ pager[p].state = "paging"
     /\ Len(pager[p].seen) < MaxSeen
     /\ pager' = [pager EXCEPT ![p] =
                    [pager[p] EXCEPT !.state = IF more THEN "paging" ELSE "done",
                                     !.seen = @ \o page,
                                     !.after = IF page = <<>> THEN @ ELSE Last(page)]]
     /\ UNCHANGED storeVars

Next ==
  \/ \E r \in Requests : CreateCompletion(r)
  \/ \E id \in ToSet(order) : UpdateCompletion(id) \/ DeleteCompletion(id)
  \/ \E p \in Pagers : BeginPaging(p) \/ ReadPage(p)

Spec == Init /\ [][Next]_vars

-----------------------------------------------------------------------------
\* Properties.

Precedes(i, j, direction) ==
  IF direction = "asc" THEN Position(i) < Position(j) ELSE Position(j) < Position(i)

\* While its cursor is left alone, a pager is told the entries in the order of
\* the list, and none twice: whatever is created, updated or deleted between
\* two pages, an entry that is not itself touched neither moves nor repeats.
PagesFollowTheList ==
  \A p \in Pagers : ~pager[p].lost =>
    \A i, j \in DOMAIN pager[p].seen :
      LET a == pager[p].seen[i]
          b == pager[p].seen[j]
      IN i < j /\ {a, b} \cap pager[p].touched = {} =>
           Precedes(a, b, pager[p].query.direction)

\* ... and once it is told that there is no more, it has been told every entry
\* that was listed when it began and was not touched since.
PagesTellAll ==
  \A p \in Pagers :
    pager[p].state = "done" /\ ~pager[p].lost =>
      pager[p].start \ pager[p].touched \subseteq ToSet(pager[p].seen)

=============================================================================
