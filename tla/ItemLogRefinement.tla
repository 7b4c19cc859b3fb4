-------------------------- MODULE ItemLogRefinement --------------------------
(***************************************************************************)
(* The conversation store under create_response, its other clients and the *)
(* control plane implements ItemLog: sorting the items by generation,      *)
(* group, ordinal and id always yields a log that writers extend only at   *)
(* its end.                                                                *)
(***************************************************************************)
EXTENDS CreateResponse

SortedLog == [c \in ConversationIds |-> Log(items[c])]

AbstractLog == INSTANCE ItemLog
  WITH Conversations <- ConversationIds, open <- live, log <- SortedLog

\* Sorting by generation puts what is written last: commits, new batches and
\* batch retries extend the log at its end, and a deletion never reorders
\* the items that stay.
ImplementsItemLog == AbstractLog!Spec

=============================================================================
