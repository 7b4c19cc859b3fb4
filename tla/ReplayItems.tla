------------------------------ MODULE ReplayItems ------------------------------
(***************************************************************************)
(* What POST /v1/responses asks of a request before it looks anything up,  *)
(* and of the items of earlier answers that a client sends back in it      *)
(* (validate_response_request, validate_replay_items and insert_replay_id  *)
(* in src/http/routes.rs).                                                 *)
(***************************************************************************)
EXTENDS ResponseRendering

CONSTANTS
  SmallestCap,  \* the least max_output_tokens: 16
  MaxEntries,   \* metadata entries: 16
  MaxKey,       \* characters of a metadata key: 64
  MaxValue      \* characters of a metadata value: 512

ASSUME LimitsAssumption == {SmallestCap, MaxEntries, MaxKey, MaxValue} \subseteq Nat

OutputKinds == {"text", "refusal"}

IsAnswer(item) == IsMessage(item) /\ item.role = "assistant"
IsReasoning(item) == item.type = "reasoning"

\* Mutant: the digest of a reasoning item stays pending once a message has been
\* compared with it.
PendingKept(items, i) ==
  LET reasoning == {j \in 1 .. i - 1 : IsReasoning(items[j])}
  IN  IF reasoning = {} THEN None ELSE items[Max(reasoning)].id[2]

\* pending_reasoning_suffix as the loop comes to item i: the digest of the
\* last reasoning item, until an assistant message takes it.
Pending(items, i) ==
  LET emitted == {j \in 1 .. i - 1 : IsReasoning(items[j]) \/ IsAnswer(items[j])}
  IN  IF emitted = {} \/ IsAnswer(items[Max(emitted)]) THEN None
      ELSE items[Max(emitted)].id[2]

ValidMessage(items, i) ==
  LET message == items[i]
  IN  IF IsAnswer(message)
      THEN /\ message.id /= None /\ message.id[1] = "msg"
           /\ message.status = "completed"
           /\ message.kind \in OutputKinds
           /\ Pending(items, i) \in {None, message.id[2]}
      ELSE /\ message.id = None
           /\ message.status = None
           /\ message.kind \notin OutputKinds

ValidReasoning(item) ==
  /\ item.id[1] = "rs"
  /\ ~item.raw
  /\ item.status = "completed"
  /\ item.encrypted = Id("enc", item.id[2])

\* The ids of answers and reasoning items are unique within a request.
UniqueReplayIds(items) ==
  \A i, j \in DOMAIN items :
    items[i].id /= None /\ items[i].id = items[j].id => i = j

ValidReplay(items) ==
  /\ UniqueReplayIds(items)
  /\ \A i \in DOMAIN items : IF IsMessage(items[i]) THEN ValidMessage(items, i)
                             ELSE ValidReasoning(items[i])

\* ResponseInputContent::is_empty
HasContent(item) == IsMessage(item) => TokensOf(item.text) > 0

ValidMetadata(metadata) ==
  /\ Len(metadata) <= MaxEntries
  /\ \A i \in DOMAIN metadata : metadata[i].key <= MaxKey /\ metadata[i].value <= MaxValue

\* validate_response_request
ValidRequest(request) ==
  /\ request.input /= <<>>
  /\ \A i \in DOMAIN request.input : HasContent(request.input[i])
  /\ ValidReplay(request.input)
  /\ ValidMetadata(request.metadata)
  /\ ~request.tools
  /\ request.previous = None \/ request.conversation = None
  /\ request.cap /= None => request.cap >= SmallestCap
=============================================================================
