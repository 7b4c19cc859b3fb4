----------------------------- MODULE ScriptLibrary -----------------------------
(***************************************************************************)
(* The life of a chat dataset: built from fixture sets, grown by recorded  *)
(* interactions, loaded when the server starts, and answered from          *)
(* (src/bin/fixtures.rs, src/bin/regenerate_dataset.rs, src/live.rs,       *)
(* src/main.rs, create_chat_completion in src/http/routes.rs).             *)
(*                                                                         *)
(* A chat request reads the index and changes nothing of it, so requests   *)
(* are no actions: what each would be answered is a function of the state. *)
(* LiveBackend models recordings that overlap or are cut short; here each  *)
(* is written whole.                                                       *)
(***************************************************************************)
EXTENDS ChatAnswers

CONSTANTS
  Sets,          \* collections of fixture sets that are built into a dataset
  Sample,        \* the one built in, written when there is no dataset
  Interactions,  \* what may be recorded
  Requests,      \* the bodies clients post
  SemanticPlans, \* the plans of a request that names a semantic case
  MaxSources     \* bound: conversations of a dataset that is recorded to

Source == [conversation : Conversations, turns : Seq(ScriptTurn)]

ASSUME SourcesAssumption ==
  /\ Sample \in Sets /\ Sets \subseteq Seq(Source)
  /\ \A i \in Interactions :
       /\ i.conversation \in Conversations
       /\ i.messages \in Seq(ScriptTurn)
       /\ i.reply \in ScriptTurn /\ IsAssistant(i.reply)
  /\ MaxSources \in Nat

ChatMessage ==
  [role : RowRoles, text : Texts, content : BOOLEAN, tool_call : BOOLEAN]

ASSUME RequestsAssumption ==
  \A request \in Requests :
    /\ request.messages \in Seq(ChatMessage)
    /\ {request.max_completion_tokens, request.max_tokens, request.n} \subseteq Nat \cup {None}
    /\ DigestOf(Key(request)) \in Nat

ASSUME SemanticPlansAssumption ==
  \A plan \in SemanticPlans :
    plan.text \in Texts /\ plan.trace \in Texts \cup {None} /\ plan.tokens \in Nat

VARIABLES
  file,    \* the conversations whose rows the dataset has, or None without one
  loaded,  \* those the running server has loaded, or None
  index    \* the ScriptIndex built of them

vars == <<file, loaded, index>>

Init == file = None /\ loaded = None /\ index = <<>>

Rows(sources) ==
  FlattenSeq([i \in DOMAIN sources |-> RowsOf(sources[i].conversation, sources[i].turns)])

\* fixtures build, regenerate_dataset --force: sets that lint replace the file.
BuildDataset(sets) ==
  /\ \A i \in DOMAIN sets : SetLints(sets[i].turns)
  /\ file' = sets
  /\ UNCHANGED <<loaded, index>>

\* append_dataset_rows: behind the rows that are there, whatever their ids.
Record(interaction) ==
  LET recorded == [conversation |-> interaction.conversation,
                   turns |-> Interaction(interaction.messages, interaction.reply)]
  IN  /\ file /= None => Len(file) < MaxSources
      /\ file' = IF file = None THEN <<recorded>> ELSE Append(file, recorded)
      /\ UNCHANGED <<loaded, index>>

\* main: ensure_sample_dataset, then load; a dataset without replies is an
\* error the server does not start with.
Start ==
  LET present == IF file = None THEN Sample ELSE file
      scripts == Load(Rows(present))
  IN  /\ scripts /= <<>>
      /\ file' = present
      /\ loaded' = present
      /\ index' = Build(scripts)

Next ==
  \/ \E sets \in Sets : BuildDataset(sets)
  \/ \E interaction \in Interactions : Record(interaction)
  \/ Start

Spec == Init /\ [][Next]_vars

-----------------------------------------------------------------------------
\* The index is that of what was loaded, which has replies.
LibraryTypeOK ==
  /\ file \in Seq(Source) \cup {None}
  /\ loaded \in Seq(Source) \cup {None}
  /\ loaded /= None => Load(Rows(loaded)) /= <<>> /\ index = Build(Load(Rows(loaded)))

\* What a conversation answers to its k-th user turn, by the order of its turns.
UserTurnsOf(source) ==
  [k \in DOMAIN UserPlaces(source.turns) |-> Normal(source.turns[UserPlaces(source.turns)[k]].text)]

RepliesIn(source, k) ==
  {source.turns[q] : q \in
     {q \in DOMAIN source.turns :
        /\ IsAssistant(source.turns[q])
        /\ q > UserPlaces(source.turns)[k]
        /\ \A r \in UserPlaces(source.turns)[k] .. q - 1 : ~IsAssistant(source.turns[r])}}

\* A recorder that is run twice, or sets that share an id, put the turns of two
\* conversations under one id.
DistinctIds(sources) ==
  \A i, j \in DOMAIN sources : sources[i].conversation = sources[j].conversation => i = j

\* How many of the turns asked come up to the k-th user turn of a conversation.
Context(source, asked, k) ==
  Max({0} \cup {n \in 1 .. Least(k, Len(asked)) :
                  \A i \in 0 .. n - 1 : UserTurnsOf(source)[k - i] = asked[Len(asked) - i]})

\* What is answered now: to a request without semantic controls, and to one
\* that names a case.
Valid == {request \in Requests : ValidChat(request)}

\* The reply is the one that a conversation gave, directly, to the last user
\* turn asked, of all conversations one that had come to that turn through the
\* longest run of the turns asked before it.  It is called a prefix when some
\* conversation begins with all that was asked, and is then one of such a
\* beginning; only a turn that no conversation answers gets a reply by digest.
RepliesFollowTheirTurns ==
  loaded /= None /\ DistinctIds(loaded) => \A request \in Valid :
    LET asked == Asked(request)
        places == UNION {{i} \X DOMAIN UserTurnsOf(loaded[i]) : i \in DOMAIN loaded}
        Run(p) == Context(loaded[p[1]], asked, p[2])
        given == Select(index, request)
    IN  IF given.kind = "fallback"
        THEN \A p \in places : Run(p) = 0
        ELSE \E p \in places :
               /\ loaded[p[1]].conversation = given.script
               /\ given.reply \in RepliesIn(loaded[p[1]], p[2])
               /\ Run(p) > 0
               /\ \A o \in places : Run(o) <= Run(p)
               /\ given.kind = "conversation_prefix" => p[2] = Len(asked)
               /\ given.kind = "conversation_prefix" <=>
                    \E o \in places : Run(o) = o[2] /\ Run(o) = Len(asked)

\* A dataset that has grown by conversations with ids of their own answers a
\* request it matched before as before, or from a conversation that is new.
Grown ==
  /\ loaded /= None /\ loaded' /= None
  /\ IsPrefix(loaded, loaded')
  /\ DistinctIds(loaded')

GrowthKeepsMatches ==
  [][Grown =>
       \A request \in Valid :
         LET before == Select(index, request)
             after == Select(index', request)
         IN  before.kind /= "fallback" =>
               \/ after = before
               \/ \A i \in DOMAIN loaded : loaded[i].conversation /= after.script]_vars

\* The first choice of a completion keeps the limit, reasoning included, unless
\* the limit falls within a character; an answer that says it stopped by itself
\* is whole; and with one choice the usage is what is on the wire, unless the
\* reply declares its own and is neither cut nor given with reasoning.
CutWithin(text, cap) == Cuts(text, cap) /\ ~Decodes(SubSeq(text, 1, cap))

ScriptBudgetIsKept(request) ==
  LET cap == Cap(request)
      given == ScriptCompletion(index, request)
      first == given.choices[1]
      size == Len(first.tokens) + Len(first.reasoning)
  IN  /\ cap /= None => size <= cap \/ CutWithin(given.reply.text, cap)
      /\ first.finish = "stop" => Len(given.reply.text) - size \in {0, 2}
      /\ /\ ChoiceCount(request) = 1
         /\ \/ given.reply.usage = None \/ Cuts(given.reply.text, cap)
            \/ first.reasoning /= <<>>
         => given.completion = size

PlanBudgetIsKept(request, plan) ==
  LET cap == Cap(request)
      given == SemanticCompletion(plan, request)
  IN  /\ cap /= None => Len(given.tokens) + given.reasoning <= cap
      /\ given.finish = "stop" => given.tokens = plan.text
      /\ given.tokens /= <<>> => given.reasoning = FullTrace(plan)

ChatBudgetIsKept ==
  \A request \in Valid :
    /\ loaded /= None => ScriptBudgetIsKept(request)
    /\ \A plan \in SemanticPlans : PlanBudgetIsKept(request, plan)

\* "tokens produced by the configured tokenizer decode" (violated: a limit that
\* falls within a character makes the handler panic).
PlannedAnswersDecode ==
  loaded /= None =>
    \A request \in Valid, plan \in SemanticPlans : ~SemanticCompletion(plan, request).panics
=============================================================================
