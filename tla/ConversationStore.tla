-------------------------- MODULE ConversationStore --------------------------
(***************************************************************************)
(* The process-local conversation store (src/conversations.rs): a map from *)
(* content-derived conversation ids to records that own an item log.  The  *)
(* whole map sits behind one RwLock, so every store operation is a single  *)
(* atomic action on the variables live and items.  The actions here say    *)
(* only what happens to those two variables; the handlers that call them   *)
(* are in CreateResponse.                                                  *)
(*                                                                         *)
(* An item id is a digest of (domain, conversation, group, index, value).  *)
(* The digest is taken to be injective and an id is represented by what it *)
(* covers; texts never appear.                                             *)
(***************************************************************************)
EXTENDS Integers, Sequences, FiniteSets, FiniteSetsExt

CONSTANTS
  ConversationIds,  \* ids of the conversations clients create, one per body
  InitialLength,    \* [ConversationIds -> Nat]: initial items of that body
  Batches,          \* distinct batches posted to a conversation's items
  BatchLength,      \* [Batches -> Nat \ {0}]: items of a batch
  FirstOnTie,       \* which of two "msg_" ids sorts first, by its part
  None              \* no conversation, no predecessor, no request yet

ASSUME ConversationAssumption ==
  /\ InitialLength \in [ConversationIds -> Nat]
  /\ BatchLength \in [Batches -> Nat \ {0}]
  /\ FirstOnTie \in {"input", "message"}
  /\ None \notin ConversationIds

VARIABLES
  live,   \* the conversations the store holds
  items   \* items[c]: the items of c, at most one per id; {} when c is not live

(***************************************************************************)
(* Items.  The group is None for the initial items, a batch, or the id of  *)
(* the response whose commit inserted the item.  A response has "input"    *)
(* items, numbered, and at most one "reasoning" and one "message" output.  *)
(***************************************************************************)
ResponseParts == {"input", "reasoning", "message"}

\* Mutant: the digest does not cover the group.
ItemIdWithoutGroup(part, group, index) ==
  [part |-> part, group |-> None, index |-> index]

ItemId(part, group, index) == [part |-> part, group |-> group, index |-> index]

Item(id, generation, ordinal) ==
  [id |-> id, generation |-> generation, ordinal |-> ordinal]

Ids(set) == {i.id : i \in set}

\* What every set of items satisfies.
IsItemSet(set) ==
  \A i \in set : /\ i = Item(i.id, i.generation, i.ordinal)
                 /\ i.id = ItemId(i.id.part, i.id.group, i.id.index)
                 /\ i.generation \in Nat
                 /\ i.ordinal \in Nat

\* n items of one group, in order, as create, add_items and append_response
\* number their inputs.
InputItems(part, group, n, generation) ==
  {Item(ItemId(part, group, k), generation, k) : k \in 0 .. n - 1}

\* One past the largest generation present, 0 for an empty log.  (The code
\* saturates at u32::MAX, far above any reachable generation.)
NextGeneration(set) ==
  LET generations == {i.generation : i \in set}
  IN  IF generations = {} THEN 0 ELSE Max(generations) + 1

\* BTreeMap::entry(..).or_insert for a group of items: those whose id is
\* already present are left as they are.
OrInsert(set, new) == set \cup {i \in new : i.id \notin Ids(set)}

(***************************************************************************)
(* The order of the log: generation, group, ordinal, id.  Items of one     *)
(* generation share their group (GenerationHasOneGroup), so the group      *)
(* never decides.  Items of a group with equal ordinals are an input and   *)
(* an output: "msg_" sorts before "rs_", two "msg_" ids by their digests.  *)
(***************************************************************************)
IdBefore(a, b) ==
  /\ a.part # b.part
  /\ a.part # "reasoning"
  /\ b.part = "reasoning" \/ a.part = FirstOnTie

\* Mutant: the ordinal is compared before the generation.
BeforeByOrdinal(i, j) ==
  \/ i.ordinal < j.ordinal
  \/ /\ i.ordinal = j.ordinal
     /\ \/ i.generation < j.generation
        \/ i.generation = j.generation /\ IdBefore(i.id, j.id)

Before(i, j) ==
  \/ i.generation < j.generation
  \/ /\ i.generation = j.generation
     /\ \/ i.ordinal < j.ordinal
        \/ i.ordinal = j.ordinal /\ IdBefore(i.id, j.id)

\* The ids of a set of items, in log order.
Log(set) ==
  [k \in 1 .. Cardinality(set) |->
     (CHOOSE i \in set : Cardinality({j \in set : Before(j, i)}) = k - 1).id]

-----------------------------------------------------------------------------
(***************************************************************************)
(* The store's operations.                                                 *)
(***************************************************************************)
ConversationInit ==
  /\ live = {}
  /\ items = [c \in ConversationIds |-> {}]

\* Re-creating a conversation that is present changes nothing: its id is
\* derived from its body and the record is inserted only if vacant.
Create(c) ==
  /\ live' = live \cup {c}
  /\ items' = IF c \in live
              THEN items
              ELSE [items EXCEPT ![c] =
                      InputItems("initial", None, InitialLength[c], 0)]

\* Mutant: batches are written at generation 0, as initial items are.
AddBatchAtZero(c, b) ==
  /\ c \in live
  /\ items' = [items EXCEPT ![c] =
                 OrInsert(@, InputItems("batch", b, BatchLength[b], 0))]
  /\ UNCHANGED live

AddBatch(c, b) ==
  /\ c \in live
  /\ items' = [items EXCEPT ![c] =
                 OrInsert(@, InputItems("batch", b, BatchLength[b],
                                        NextGeneration(@)))]
  /\ UNCHANGED live

RemoveItem(c, id) ==
  /\ c \in live
  /\ id \in Ids(items[c])
  /\ items' = [items EXCEPT ![c] = {i \in @ : i.id # id}]
  /\ UNCHANGED live

\* Mutant: the record is dropped and its items stay.
RemoveConversationOnly(c) ==
  /\ c \in live
  /\ live' = live \ {c}
  /\ UNCHANGED items

RemoveConversation(c) ==
  /\ c \in live
  /\ live' = live \ {c}
  /\ items' = [items EXCEPT ![c] = {}]

ClearConversations ==
  /\ live' = {}
  /\ items' = [c \in ConversationIds |-> {}]

\* Mutant: only the conversation's existence is checked.
MayAppendUnchecked(c, generation) == c \in live

\* Mutant: the comparison is off by one.
MayAppendLater(c, generation) ==
  /\ c \in live
  /\ NextGeneration(items[c]) = generation + 1

\* append_response's check: the conversation exists and its next generation
\* is still the one the response was planned against.
MayAppend(c, generation) ==
  /\ c \in live
  /\ NextGeneration(items[c]) = generation

AppendGroup(c, group) ==
  /\ items' = [items EXCEPT ![c] = OrInsert(@, group)]
  /\ UNCHANGED live

=============================================================================
