--------------------------- MODULE CreateResponse ---------------------------
(***************************************************************************)
(* POST /v1/responses with the two stores it works on, the other clients   *)
(* of those stores, and the control plane's scenario and reset             *)
(* (create_response in src/http/routes.rs, reset in src/http/control.rs).  *)
(*                                                                         *)
(* A handler runs as a task of a multi-threaded runtime.  It gives up      *)
(* control, and other tasks run, at each await: the predecessor lookup,    *)
(* the conversation snapshot, the commit delay or yield after it, the      *)
(* append and the save.  Between two awaits it reads nothing shared, so    *)
(* each action is the code from one lock to the next.  Optimistic          *)
(* concurrency is the whole protocol: snapshot, plan with no lock held,    *)
(* append only if the conversation's next generation has not moved.        *)
(***************************************************************************)
EXTENDS ConversationStore, ResponseStore

CONSTANTS
  Tasks,         \* request handlers; each serves one request
  Requests,      \* the bodies clients post
  Scenarios,     \* values of state.expire_previous_response clients may put
  MaxGeneration  \* bound: batches are added only below this generation

Kinds == {"message", "reasoning"}

\* What a plan renders: the outputs left by the token budget.
Outputs == {<<>>, <<"message">>, <<"reasoning">>, <<"reasoning", "message">>}

\* A body that passes validation: at least one input item.  fault says that
\* it is to be answered with an http_error or a plan error; metadata stands
\* for the members the response echoes but its id does not cover.
ASSUME RequestAssumption ==
  /\ None \notin Requests
  /\ Scenarios \subseteq BOOLEAN
  /\ MaxGeneration \in Nat
  /\ \A q \in Requests :
       /\ q.conversation \in ConversationIds \cup {None}
       /\ q.input \in Seq(Kinds) /\ Len(q.input) > 0
       /\ q.output \in Outputs
       /\ {q.instructions, q.fault, q.store} \subseteq BOOLEAN

VARIABLES
  expire,     \* the live scenario's state.expire_previous_response
  resetting,  \* the store the reset in progress clears next, or None
  pc,         \* where each task is; the last value is its answer
  request,    \* the body each task serves
  previous,   \* previous_response_id, then the stored object it names
  snapshot,   \* the items read when the task took its snapshot
  appended,   \* history: tasks whose append_response returned true
  removed     \* history: tasks whose conversation lost an item, or was
              \* deleted, after their snapshot

stores == <<live, items, responses>>
control == <<expire, resetting>>
local == <<request, previous, snapshot>>
history == <<appended, removed>>
vars == <<stores, control, pc, local, history>>

Running == {"lookup", "snapshot", "commit", "save"}
Answers == {"ok", "conflict", "not_found", "expired", "fault", "dropped"}

-----------------------------------------------------------------------------
(***************************************************************************)
(* Planning.  The plan digest, and so the response id, covers the semantic *)
(* request and its context: the predecessor's whole object, or the         *)
(* conversation with its ordered item ids.  It covers neither metadata nor *)
(* store nor the directive.                                                *)
(***************************************************************************)
Semantic(q) == [input |-> q.input, instructions |-> q.instructions,
                output |-> q.output]

\* items is the range of log, named for its own sake.
ConversationContext(c, set) ==
  [conversation |-> c, items |-> Ids(set), log |-> Log(set)]

Context(t) ==
  IF request[t].conversation # None
  THEN ConversationContext(request[t].conversation, snapshot[t])
  ELSE IF previous[t] # None THEN [previous |-> previous[t]] ELSE None

ResponseId(t) == [request |-> Semantic(request[t]), context |-> Context(t)]

Response(t) == [id |-> ResponseId(t), metadata |-> request[t].metadata]

Generation(t) == NextGeneration(snapshot[t])

\* Outputs are numbered from the count of canonical turns, which has one for
\* the instructions and none for a replayed reasoning item.
Offset(q) ==
  (IF q.instructions THEN 1 ELSE 0)
    + Cardinality({k \in 1 .. Len(q.input) : q.input[k] = "message"})

OutputItems(id, q, generation) ==
  {Item(ItemId(q.output[k], id, 0), generation, Offset(q) + k - 1) :
     k \in 1 .. Len(q.output)}

ResponseItems(t) ==
  LET q == request[t]
  IN  InputItems("input", ResponseId(t), Len(q.input), Generation(t))
        \cup OutputItems(ResponseId(t), q, Generation(t))

-----------------------------------------------------------------------------
(***************************************************************************)
(* The handler.                                                            *)
(***************************************************************************)
Init ==
  /\ ConversationInit
  /\ ResponseInit
  /\ expire = FALSE
  /\ resetting = None
  /\ pc = [t \in Tasks |-> "idle"]
  /\ request = [t \in Tasks |-> None]
  /\ previous = [t \in Tasks |-> None]
  /\ snapshot = [t \in Tasks |-> {}]
  /\ appended = {}
  /\ removed = {}

Goto(t, label) == pc' = [pc EXCEPT ![t] = label]

\* Predecessors a client can name: the ids it was answered with.
AnsweredIds == {ResponseId(t) : t \in {u \in Tasks : pc[u] = "ok"}}

\* Validation, the scenario load and the expiry check.  A request names a
\* conversation or a predecessor, never both.
Receive(t, q, id) ==
  /\ pc[t] = "idle"
  /\ q.conversation # None => id = None
  /\ request' = [request EXCEPT ![t] = q]
  /\ previous' = [previous EXCEPT ![t] = id]
  /\ Goto(t, CASE id # None /\ expire       -> "expired"
               [] id # None /\ ~expire      -> "lookup"
               [] q.conversation # None     -> "snapshot"
               [] OTHER                     -> "commit")
  /\ UNCHANGED <<stores, control, snapshot, history>>

Lookup(t) ==
  /\ pc[t] = "lookup"
  /\ \/ \E o \in responses :
          /\ o.id = previous[t]
          /\ previous' = [previous EXCEPT ![t] = o]
          /\ Goto(t, "commit")
     \/ /\ ~Stored(previous[t])
        /\ Goto(t, "not_found")
        /\ UNCHANGED previous
  /\ UNCHANGED <<stores, control, request, snapshot, history>>

Snapshot(t) ==
  /\ pc[t] = "snapshot"
  /\ LET c == request[t].conversation
     IN  IF c \in live
         THEN /\ snapshot' = [snapshot EXCEPT ![t] = items[c]]
              /\ Goto(t, "commit")
         ELSE Goto(t, "not_found") /\ UNCHANGED snapshot
  /\ UNCHANGED <<stores, control, request, previous, history>>

\* An http_error fault, or a plan that the fixtures refuse, answers after the
\* snapshot and before either store changes.
Fault(t) ==
  /\ pc[t] = "commit"
  /\ request[t].fault
  /\ Goto(t, "fault")
  /\ UNCHANGED <<stores, control, local, history>>

AfterCommit(t) == IF request[t].store THEN "save" ELSE "ok"

CommitWithoutConversation(t) ==
  /\ pc[t] = "commit"
  /\ ~request[t].fault
  /\ request[t].conversation = None
  /\ Goto(t, AfterCommit(t))
  /\ UNCHANGED <<stores, control, local, history>>

AppendResponse(t) ==
  LET c == request[t].conversation
  IN  /\ pc[t] = "commit"
      /\ ~request[t].fault
      /\ c # None
      /\ MayAppend(c, Generation(t))
      /\ AppendGroup(c, ResponseItems(t))
      /\ Goto(t, AfterCommit(t))
      /\ appended' = appended \cup {t}
      /\ UNCHANGED <<responses, control, local, removed>>

\* Mutant: the result of append_response is not looked at.
ConflictIgnored(t) ==
  LET c == request[t].conversation
  IN  /\ pc[t] = "commit"
      /\ ~request[t].fault
      /\ c # None
      /\ ~MayAppend(c, Generation(t))
      /\ Goto(t, AfterCommit(t))
      /\ UNCHANGED <<stores, control, local, history>>

\* Mutant: a conversation that is gone is not answered for.
ConflictOfLiveOnly(t) ==
  LET c == request[t].conversation
  IN  /\ pc[t] = "commit"
      /\ ~request[t].fault
      /\ c # None
      /\ c \in live
      /\ ~MayAppend(c, Generation(t))
      /\ Goto(t, "conflict")
      /\ UNCHANGED <<stores, control, local, history>>

\* 409 conversation_conflict, also when the conversation is gone.
Conflict(t) ==
  LET c == request[t].conversation
  IN  /\ pc[t] = "commit"
      /\ ~request[t].fault
      /\ c # None
      /\ ~MayAppend(c, Generation(t))
      /\ Goto(t, "conflict")
      /\ UNCHANGED <<stores, control, local, history>>

Save(t) ==
  /\ pc[t] = "save"
  /\ SaveResponse(Response(t))
  /\ Goto(t, "ok")
  /\ UNCHANGED <<live, items, control, local, history>>

\* The server drops a handler's future when its client goes away; the
\* handler then stops at the await it is in.
Disconnect(t) ==
  /\ pc[t] \in Running
  /\ Goto(t, "dropped")
  /\ UNCHANGED <<stores, control, local, history>>

Handle(t) ==
  \/ Lookup(t) \/ Snapshot(t) \/ Fault(t) \/ CommitWithoutConversation(t)
  \/ AppendResponse(t) \/ Conflict(t) \/ Save(t)

-----------------------------------------------------------------------------
(***************************************************************************)
(* The other routes on the two stores, and the control plane.              *)
(***************************************************************************)
\* Tasks that hold a snapshot of c.
Holders(c) == {t \in Tasks : /\ request[t] # None
                             /\ request[t].conversation = c
                             /\ pc[t] # "snapshot"}

CreateConversation(c) ==
  /\ Create(c)
  /\ UNCHANGED <<responses, control, pc, local, history>>

AddItems(c, b) ==
  /\ NextGeneration(items[c]) < MaxGeneration
  /\ AddBatch(c, b)
  /\ UNCHANGED <<responses, control, pc, local, history>>

DeleteItem(c, id) ==
  /\ RemoveItem(c, id)
  /\ removed' = removed \cup Holders(c)
  /\ UNCHANGED <<responses, control, pc, local, appended>>

DeleteConversation(c) ==
  /\ RemoveConversation(c)
  /\ removed' = removed \cup Holders(c)
  /\ UNCHANGED <<responses, control, pc, local, appended>>

DeleteResponse(id) ==
  /\ RemoveResponse(id)
  /\ UNCHANGED <<live, items, control, pc, local, history>>

PutScenario(e) ==
  /\ expire' = e
  /\ UNCHANGED <<stores, resetting, pc, local, history>>

\* POST /_mock/reset: the boot scenario, then one store after the other.  A
\* reset whose client goes away stops where it is; the next starts over.
ResetScenario ==
  /\ expire' = FALSE
  /\ resetting' = "responses"
  /\ UNCHANGED <<stores, pc, local, history>>

ResetResponses ==
  /\ resetting = "responses"
  /\ ClearResponses
  /\ resetting' = "conversations"
  /\ UNCHANGED <<live, items, expire, pc, local, history>>

ResetConversations ==
  /\ resetting = "conversations"
  /\ ClearConversations
  /\ resetting' = None
  /\ removed' = removed \cup UNION {Holders(c) : c \in ConversationIds}
  /\ UNCHANGED <<responses, expire, pc, local, appended>>

Clients ==
  \/ \E t \in Tasks, q \in Requests, id \in AnsweredIds \cup {None} :
       Receive(t, q, id)
  \/ \E t \in Tasks : Disconnect(t)
  \/ \E c \in ConversationIds :
       \/ CreateConversation(c)
       \/ \E b \in Batches : AddItems(c, b)
       \/ \E id \in Ids(items[c]) : DeleteItem(c, id)
       \/ DeleteConversation(c)
  \/ \E id \in Ids(responses) : DeleteResponse(id)
  \/ \E e \in Scenarios : PutScenario(e)
  \/ ResetScenario \/ ResetResponses \/ ResetConversations

Next == Clients \/ \E t \in Tasks : Handle(t)

Spec == Init /\ [][Next]_vars

\* Runnable tasks are scheduled and locks are held only for a map operation,
\* so a handler that stays at an await is eventually resumed.
FairSpec == Spec /\ \A t \in Tasks : WF_vars(Handle(t))

-----------------------------------------------------------------------------
(***************************************************************************)
(* Properties.                                                             *)
(***************************************************************************)
\* How far a task has come tells what it knows: it has a request once it is
\* received, a snapshot only after the snapshot step, and only tasks with a
\* conversation go through snapshot and append.  No item is left behind by
\* a deleted conversation.
Consistent ==
  /\ \A c \in ConversationIds \ live : items[c] = {}
  /\ \A t \in Tasks :
       /\ pc[t] = "idle" <=> request[t] = None
       /\ pc[t] \in {"idle", "lookup", "snapshot"} => snapshot[t] = {}
       /\ pc[t] = "snapshot" => request[t].conversation # None
       /\ pc[t] = "lookup" => request[t].conversation = None
       /\ t \in appended => /\ pc[t] \in {"save", "ok", "dropped"}
                            /\ request[t].conversation \in ConversationIds

\* Each item log is a set of well-formed items, and each task is in one of
\* the handler's states, with what it knows there.
TypeOK ==
  /\ live \subseteq ConversationIds
  /\ DOMAIN items = ConversationIds
  /\ \A c \in ConversationIds : IsItemSet(items[c])
  /\ expire \in BOOLEAN
  /\ resetting \in {None, "responses", "conversations"}
  /\ pc \in [Tasks -> {"idle"} \cup Running \cup Answers]
  /\ request \in [Tasks -> Requests \cup {None}]
  /\ DOMAIN previous = Tasks
  /\ DOMAIN snapshot = Tasks
  /\ \A t \in Tasks : IsItemSet(snapshot[t])
  /\ appended \subseteq Tasks
  /\ removed \subseteq Tasks
  /\ Consistent

\* A task that works on a conversation and has taken its snapshot of it.
Holds(t, c) == request[t] # None /\ request[t].conversation = c /\ c # None

\* Nothing that t's snapshot showed has been removed since.
Undisturbed(t) == t \notin removed

\* An id names one item of a conversation, however often batches are retried
\* and responses are committed.
UniqueIds ==
  \A c \in ConversationIds : \A i, j \in items[c] : i.id = j.id => i = j

\* Items of one generation come from one group, so a generation number never
\* covers two writes that both still have items in the log.
GenerationHasOneGroup ==
  \A c \in ConversationIds : \A i, j \in items[c] :
    i.generation = j.generation => i.id.group = j.id.group

\* While nothing is removed, the next generation detects every change: a task
\* about to commit still finds all it planned against, and whatever landed
\* since carries the generation it would commit at, or a later one.
GenerationDetectsChange ==
  \A t \in Tasks : \A c \in ConversationIds :
    Holds(t, c) /\ pc[t] = "commit" /\ Undisturbed(t) =>
      /\ c \in live
      /\ snapshot[t] \subseteq items[c]
      /\ \A i \in items[c] \ snapshot[t] : i.generation >= Generation(t)

\* Of the writers that planned against one generation of a conversation, one
\* commits.
OneWinnerPerGeneration ==
  \A t, u \in appended :
    /\ t # u
    /\ request[t].conversation = request[u].conversation
    /\ Undisturbed(t) /\ Undisturbed(u)
    => Generation(t) # Generation(u)

\* 409 is only answered when another write landed after the snapshot: there
\* is an item in the log of the generation the task hoped to write, or later.
NoSpuriousConflict ==
  \A t \in Tasks : \A c \in ConversationIds :
    Holds(t, c) /\ pc[t] = "conflict" /\ Undisturbed(t) =>
      c \in live /\ \E i \in items[c] : i.generation >= Generation(t)

\* A committed response's inputs and outputs are all in the log, under the
\* one generation it was planned against.
CommittedAsOneGroup ==
  \A t \in appended :
    Undisturbed(t) => ResponseItems(t) \subseteq items[request[t].conversation]

\* Only requests that committed leave a trace: a response's items in a log
\* are those of a task whose append succeeded, a stored object is one a task
\* was answered with, and if it names a conversation it was committed there.
OnlyCommitsLeaveTraces ==
  /\ \A c \in ConversationIds : \A i \in items[c] :
       i.id.part \in ResponseParts =>
         \E t \in appended : Holds(t, c) /\ i.id.group = ResponseId(t)
  /\ \A o \in responses : \E t \in Tasks :
       /\ pc[t] = "ok"
       /\ request[t].store
       /\ o = Response(t)
       /\ request[t].conversation # None => t \in appended

\* A stored object never changes while it stays in the store.
StoredObjectsAreImmutable ==
  [][\A o \in responses : \A p \in responses' : o.id = p.id => o = p]_vars

\* Every request is answered, whatever is deleted or reset under it.
EveryRequestAnswered ==
  \A t \in Tasks : pc[t] \in Running ~> pc[t] \in Answers

-----------------------------------------------------------------------------
(***************************************************************************)
(* What the documentation says without the reservation about removals; the *)
(* code does not keep it.                                                  *)
(***************************************************************************)
\* "A Response associated with a conversation commits only if the
\* conversation still has the exact item generation used to plan it ...
\* every stale writer gets 409": an append finds the items of its snapshot.
StaleWritersNeverCommit ==
  [][\A t \in appended' \ appended :
       items[request[t].conversation] = snapshot[t]]_vars

=============================================================================
