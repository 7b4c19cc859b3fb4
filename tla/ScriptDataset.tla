----------------------------- MODULE ScriptDataset -----------------------------
(***************************************************************************)
(* The rows of a chat dataset, where they come from (the sets of           *)
(* src/fixtures.rs, the interactions that src/live.rs and                  *)
(* src/bin/recorder.rs record) and the scripts they load as                *)
(* (src/dataset.rs).                                                       *)
(*                                                                         *)
(* A turn is a role and a text, which is the sequence of its tokens; an    *)
(* assistant's says besides how it finished and what usage was noted with  *)
(* it.  Refusals, tool and function calls and audio are carried along with *)
(* the turn and decide nothing.  An id is a number: its place among ids.   *)
(***************************************************************************)
EXTENDS TokenBudget

CONSTANTS
  Conversations  \* conversation ids

ASSUME ConversationsAssumption == Conversations \subseteq Nat

DatasetRoles == {"system", "user", "assistant", "tool"}
RowRoles == DatasetRoles \cup {"developer", "function"}

FinishReasons == {"stop", "length", "tool_calls", "function_call", "content_filter"}

ScriptTurn ==
  [role : RowRoles, text : Texts, finish : FinishReasons \cup {None},
   usage : [prompt : Nat, completion : Nat] \cup {None},
   payload : BOOLEAN, parts : BOOLEAN]

IsAssistant(turn) == turn.role = "assistant"

\* FixtureSet::lint.  A text of no tokens stands for content that is absent.
SetLints(turns) ==
  /\ turns /= <<>>
  /\ IsAssistant(Last(turns))
  /\ \E i \in DOMAIN turns : turns[i].role = "user"
  /\ \A i \in DOMAIN turns :
       /\ turns[i].role \in DatasetRoles
       /\ IF IsAssistant(turns[i])
          THEN turns[i].finish /= None /\ (turns[i].text /= <<>> \/ turns[i].payload)
          ELSE turns[i].finish = None /\ turns[i].text /= <<>>

\* rows_from_interaction: the messages, and the first choice of the response.
Interaction(messages, reply) == Append(messages, reply)

\* to_rows and rows_from_interaction number the turns of a conversation.
RowsOf(conversation, turns) ==
  [i \in DOMAIN turns |->
     [conversation |-> conversation, index |-> i - 1, turn |-> turns[i]]]

-----------------------------------------------------------------------------
\* The elements at some of a sequence's places, in their order.
ElementsAt(s, places) ==
  FlattenSeq([p \in DOMAIN s |-> IF p \in places THEN <<s[p]>> ELSE <<>>])

\* ConversationScripts::load: the turns of a conversation by their index, which
\* is less than the number of rows, those of the same index in the order of the
\* file.
TurnsOf(rows, conversation) ==
  LET turns == [p \in DOMAIN rows |-> rows[p].turn]
      Indexed(n) == {p \in DOMAIN rows :
                       rows[p].conversation = conversation /\ rows[p].index = n}
  IN  FlattenSeq([n \in DOMAIN rows |-> ElementsAt(turns, Indexed(n - 1))])

\* Conversations in which no assistant speaks are left out.
Spoken(rows) ==
  {rows[p].conversation : p \in {q \in DOMAIN rows : IsAssistant(rows[q].turn)}}

ScriptsOf(rows, ids) ==
  [s \in DOMAIN ids |-> [id |-> ids[s], turns |-> TurnsOf(rows, ids[s])]]

\* Mutant: scripts stay in the order of the map they were grouped in, which
\* depends on how many there are.
LoadInMapOrder(rows) ==
  LET count == Cardinality(Spoken(rows))
      Place(c) == ((c % (count + 1)) * count) + c
  IN  ScriptsOf(rows, SetToSortSeq(Spoken(rows), LAMBDA c, d : Place(c) < Place(d)))

\* The rest are in the order of their ids.
InOrder(ids) ==
  [k \in 1 .. Cardinality(ids) |->
     CHOOSE c \in ids : Cardinality({d \in ids : d < c}) = k - 1]

Load(rows) == ScriptsOf(rows, InOrder(Spoken(rows)))
=============================================================================
