-------------------------- MODULE MCChatCompletions --------------------------
(***************************************************************************)
(* ChatCompletions on small instances.                                     *)
(***************************************************************************)
EXTENDS ChatCompletions

CONSTANTS p1

Request(prompt, path, metadata, tuning) ==
  [prompt |-> prompt, path |-> path, metadata |-> metadata, tuning |-> tuning,
   store |-> TRUE]

Query(direction, filter, limit) ==
  [direction |-> direction, filter |-> filter, limit |-> limit]

\* Three completions: two told apart by their metadata, one posted with either
\* metadata; and one request that is not to be stored.
ThreeCompletions ==
  {Request("a", "script", "m1", "t1"), Request("a", "script", "m2", "t1"),
   Request("b", "semantic", "m1", "t1"), Request("b", "semantic", "m2", "t2"),
   [Request("c", "script", "m1", "t1") EXCEPT !.store = FALSE]}

Paging ==
  {Query(direction, filter, limit) :
     direction \in {"asc", "desc"}, filter \in {None, "m1"}, limit \in {1, 2}}
  \cup {Query("asc", None, 0)}

=============================================================================
