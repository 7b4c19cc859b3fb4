------------------------------- MODULE Dialogue -------------------------------
(***************************************************************************)
(* One dialogue with POST /v1/responses carried on in each of the three    *)
(* ways it offers: by linking every request to the response before it, in  *)
(* a conversation, and by sending back what was said and answered          *)
(* (create_response and its validation in src/http/routes.rs, get_stored   *)
(* and save, snapshot and append_response of the two stores).              *)
(*                                                                         *)
(* The ways share nothing, so a round asks the same words in all three.    *)
(* CreateResponse models what other requests may do in between; here one   *)
(* client is answered at a time and what the answers hold is followed.     *)
(***************************************************************************)
EXTENDS ReplayItems

CONSTANTS
  Words,      \* texts of the user
  Plans,      \* what the fixtures may answer
  Settings,   \* the other members of a request
  MaxRounds   \* bound: rounds of the dialogue

Ways == {"link", "conversation", "replay"}
Terminals == {"completed", "incomplete", "failed", "cancelled"}

VisibleType == [kind : OutputKinds, text : Texts]

ASSUME PlansAssumption ==
  \A plan \in Plans :
    /\ plan.tokens \in Nat
    /\ plan.terminal \in Terminals
    /\ plan.reasoning /= None => plan.reasoning.summary \in Texts \cup {None}
    /\ plan.visible /= None => plan.visible \in VisibleType

ASSUME SettingsAssumption ==
  \A setting \in Settings :
    /\ setting.cap = None \/ setting.cap \in Nat
    /\ setting.instructions = None \/ setting.instructions \in Texts
    /\ {setting.summary, setting.tools} \subseteq BOOLEAN

ASSUME WordsAssumption == Words \subseteq Texts

\* Plans are compiled of the canonical request; ids are derived from it.
Digests == Ways \X Nat
Ciphers ==
  ({"enc"} \X Digests)
    \cup {plan.reasoning.encrypted : plan \in {p \in Plans : p.reasoning /= None}}

MessageType ==
  [type : {"message"}, role : {"user", "assistant"},
   id : ({"msg"} \X Digests) \cup {None},
   status : {"completed", "incomplete", None}, kind : OutputKinds \cup {"input"},
   text : Texts]

ReasoningType ==
  [type : {"reasoning"}, id : {"rs"} \X Digests, status : {"completed", "incomplete"},
   summary : Texts \cup {None}, raw : {FALSE}, encrypted : Ciphers]

ItemType == MessageType \cup ReasoningType

TurnType ==
  [role : {"developer", "user", "assistant"}, text : Texts,
   refusal : Texts \cup {None}]

ResponseType ==
  [id : {"resp"} \X Digests, status : Terminals, items : Seq(ItemType),
   input : Nat, output : Nat, reasoning : Nat, total : Nat]

AnswerType == [plan : Plans, cap : Nat \cup {None}, response : ResponseType]
StoredType == [response : ResponseType, turns : Seq(TurnType)]

\* What is absent is no id, turn, answer or response.
ASSUME NoneAssumption ==
  /\ None \notin {"msg"} \X Digests
  /\ None \notin VisibleType
  /\ None \notin TurnType
  /\ None \notin AnswerType
  /\ None \notin StoredType

VARIABLES
  round,       \* how many times the user has asked
  stored,      \* the response that is linked to, with its turns, or None
  items,       \* the conversation's items in order, with turn and tokens
  transcript,  \* per round answered, the items the client sends back
  answers      \* history: each way's answers with their plan and cap

dialogueVars == <<round, stored, items, transcript, answers>>

DialogueInit ==
  /\ round = 0
  /\ stored = None
  /\ items = <<>>
  /\ transcript = <<>>
  /\ answers = [w \in Ways |-> <<>>]

\* What the request of a way holds besides the words and its settings.
Request(w, words, setting) ==
  [input |-> (IF w = "replay" THEN FlattenSeq(transcript) ELSE <<>>)
               \o <<InputMessage("user", words)>>,
   instructions |-> setting.instructions,
   summary      |-> setting.summary,
   cap          |-> setting.cap,
   metadata     |-> setting.metadata,
   tools        |-> setting.tools,
   previous     |-> IF w = "link" /\ stored /= None THEN stored.response.id ELSE None,
   conversation |-> IF w = "conversation" THEN "conversation" ELSE None]

\* The turns put before the request's own.
ItemTurns ==
  FlattenSeq([i \in DOMAIN items |->
                IF items[i].turn = None THEN <<>> ELSE <<items[i].turn>>])

EarlierTurns(w) ==
  CASE w = "link" /\ stored /= None -> stored.turns
    [] w = "conversation" -> ItemTurns
    [] OTHER -> <<>>

Turns(w, request) == EarlierTurns(w) \o CanonicalTurns(request)

\* Mutant: the reasoning of a conversation's answers is not counted.
PriorTokensOfTurns(w) ==
  CASE w = "link" /\ stored /= None -> stored.response.total
    [] w = "conversation" -> InputTokens(ItemTurns)
    [] OTHER -> 0

\* The tokens of what came before.
PriorTokens(w) ==
  CASE w = "link" /\ stored /= None -> stored.response.total
    [] w = "conversation" ->
         InputTokens(ItemTurns)
           + SumOf([i \in DOMAIN items |-> items[i].reasoning])
    [] OTHER -> 0

\* save: the response with the turns of its request and its own.
Saved(request, answer) ==
  IF answer = None THEN stored
  ELSE [response |-> answer.response,
        turns |-> Append(Turns("link", request), ResponseTurn(answer.response))]

\* append_response: an output message keeps the turn of the whole response, a
\* reasoning item the reasoning tokens.
Appended(request, answer) ==
  IF answer = None THEN <<>>
  ELSE [i \in DOMAIN request.input |->
          [turn |-> Turn(request.input[i].role, request.input[i].text),
           reasoning |-> 0]]
         \o [i \in DOMAIN answer.response.items |->
               IF IsMessage(answer.response.items[i])
               THEN [turn |-> ResponseTurn(answer.response), reasoning |-> 0]
               ELSE [turn |-> None, reasoning |-> answer.response.reasoning]]

\* The client keeps a round that was answered.
Kept(words, answer) ==
  IF answer = None THEN <<>>
  ELSE <<<<InputMessage("user", words)>> \o answer.response.items>>

Digest(w) == <<w, round + 1>>

Answer(w, request, plan) ==
  IF ValidRequest(request) /\ ~CutPanics(plan, request.cap)
  THEN [plan |-> plan, cap |-> request.cap,
        response |-> Render(request, plan, Digest(w), PriorTokens(w))]
  ELSE None

\* One round.  Documents that match turns exactly answer the same turns alike.
Ask(words, setting) ==
  LET request == [w \in Ways |-> Request(w, words, setting)]
      Matched(w) == MatchTurns(Turns(w, request[w]))
      Alike(plans) == \A w, v \in Ways : Matched(w) = Matched(v) => plans[w] = plans[v]
  IN  /\ round < MaxRounds
      /\ round' = round + 1
      /\ \E plans \in {p \in [Ways -> Plans] : Alike(p)} :
           LET answer == [w \in Ways |-> Answer(w, request[w], plans[w])]
           IN  /\ answers' = [w \in Ways |-> Append(answers[w], answer[w])]
               /\ stored' = Saved(request["link"], answer["link"])
               /\ items' = items \o Appended(request["conversation"], answer["conversation"])
               /\ transcript' = transcript \o Kept(words, answer["replay"])

DialogueNext == \E words \in Words, setting \in Settings : Ask(words, setting)

DialogueSpec == DialogueInit /\ [][DialogueNext]_dialogueVars

-----------------------------------------------------------------------------
TypeOK ==
  /\ round \in Nat
  /\ stored \in StoredType \cup {None}
  /\ items \in Seq([turn : TurnType \cup {None}, reasoning : Nat])
  /\ transcript \in Seq(Seq(ItemType))
  /\ answers \in [Ways -> Seq(AnswerType \cup {None})]

Given(w) == {answers[w][i] : i \in DOMAIN answers[w]} \ {None}

Answered(w) == \A i \in DOMAIN answers[w] : answers[w][i] /= None

Shown(response) == ResponseTurn(response).text

\* The answer says something, and its reasoning is an item if it has any.
Audible(answer) ==
  /\ Shown(answer.response) /= <<>>
  /\ answer.response.reasoning > 0 =>
       \E i \in DOMAIN answer.response.items : IsReasoning(answer.response.items[i])

\* Completed, with ciphertext of the simulator's own.
Replayable(answer) ==
  /\ answer.response.status = "completed"
  /\ \A i \in DOMAIN answer.response.items : HasContent(answer.response.items[i])
  /\ answer.plan.reasoning /= None => answer.plan.reasoning.encrypted = None

\* The turns as they come out of messages, which do not tell that they refuse.
SentBack(turns) == [i \in DOMAIN turns |-> Turn(turns[i].role, turns[i].text)]

\* However a dialogue is carried on, the next request is planned from the same
\* turns, and what came before counts for the same number of input tokens by
\* link and in a conversation: a total carried along must agree with one summed
\* anew over the items.  What is sent back says the same once every round was
\* answered by link too, but a refusal comes back as a text (response_turn has
\* it once more in a member of its own, canonical_content_turn has not).
\* Instructions, kept by link only, are left out.
ContinuationsAgree ==
  (\A w \in Ways : \A answer \in Given(w) : Audible(answer))
  /\ (\A i \in DOMAIN EarlierTurns("link") : EarlierTurns("link")[i].role /= "developer")
  => /\ EarlierTurns("link") = EarlierTurns("conversation")
     /\ PriorTokens("link") = PriorTokens("conversation")
     /\ Answered("link") /\ Answered("replay") =>
          CanonicalTurns([input |-> FlattenSeq(transcript), instructions |-> None])
            = SentBack(EarlierTurns("link"))

\* Completed answers can be sent back, all of them or those of some rounds, as
\* long as each has a message: the state that the validation carries from item
\* to item never holds one answer against another.
Replay(rounds) ==
  FlattenSeq([i \in 1 .. Len(transcript) |->
                IF i \in rounds THEN transcript[i] ELSE <<>>])

RepliesCanBeReplayed ==
  (\A answer \in Given("replay") : Replayable(answer) /\ Shown(answer.response) /= <<>>)
  => \A rounds \in SUBSET DOMAIN transcript : ValidReplay(Replay(rounds))

\* The limit holds over reasoning and text together, reasoning is paid first,
\* and an answer is complete exactly when nothing of it was cut.
BudgetIsKept ==
  \A w \in Ways : \A answer \in Given(w) :
    LET response == answer.response
        plan == answer.plan
    IN  /\ answer.cap /= None => response.output <= answer.cap
        /\ Shown(response) /= <<>> => response.reasoning = FullReasoning(plan)
        /\ plan.terminal = "completed" =>
             (response.status = "completed"
                <=> response.output = FullReasoning(plan) + VisibleTokens(plan))
        /\ response.status = "completed" /\ plan.visible /= None =>
             Shown(response) = plan.visible.text

=============================================================================
