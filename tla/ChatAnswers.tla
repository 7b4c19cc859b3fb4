------------------------------ MODULE ChatAnswers ------------------------------
(***************************************************************************)
(* What POST /v1/chat/completions asks of a request (src/http/validate.rs) *)
(* and the completion it answers with: from the script dataset or from a   *)
(* semantic plan, within the request's limit on tokens                     *)
(* (create_completion_dataset and create_semantic_completion in            *)
(* src/service.rs, split_reasoning in src/model.rs).                       *)
(***************************************************************************)
EXTENDS ScriptSelection

CONSTANTS
  Ranges,      \* the number parameters with the least and greatest of each
  MaxChoices,  \* the most choices: 128
  MaxStops,    \* the most stop sequences: 4
  MaxLogprobs, \* the most top_logprobs: 20
  Bias,        \* logit_bias values: -100 .. 100
  FunctionNames,  \* names that is_valid_function_name allows
  ThinkOpen,   \* the token of "<think>"
  ThinkClose   \* the token of "</think>"

\* max_completion_tokens.or(max_tokens)
Cap(request) ==
  IF request.max_completion_tokens /= None THEN request.max_completion_tokens
  ELSE request.max_tokens

ChoiceCount(request) == IF request.n = None THEN 1 ELSE request.n

ValidChatMessage(message) ==
  /\ message.role = "tool" => message.tool_call
  /\ message.role \in {"user", "system", "developer"} => message.content

\* validate
ValidChat(request) ==
  /\ request.messages /= <<>>
  /\ \A p \in DOMAIN request.numbers :
       request.numbers[p] \in Ranges[p][1] .. Ranges[p][2]
  /\ request.n /= None => request.n \in 1 .. MaxChoices
  /\ request.top_logprobs /= None =>
       request.top_logprobs <= MaxLogprobs /\ request.logprobs
  /\ Cap(request) /= 0
  /\ request.stops <= MaxStops
  /\ request.bias \subseteq Bias
  /\ request.tools \subseteq FunctionNames
  /\ request.tool_choice \in request.tools \cup {None}
  /\ \A i \in DOMAIN request.messages : ValidChatMessage(request.messages[i])

-----------------------------------------------------------------------------
\* count_prompt_tokens
PromptTokens(request) ==
  SumOf([i \in DOMAIN request.messages |-> Len(request.messages[i].text)])

\* split_reasoning: what stands within the tags at the start of a text, and
\* the rest; a text whose tag is not closed is all visible.
SplitReasoning(text) ==
  LET closes == {i \in DOMAIN text : text[i] = ThinkClose}
  IN  IF text = <<>> \/ text[1] /= ThinkOpen \/ closes = {}
      THEN [reasoning |-> <<>>, visible |-> text]
      ELSE [reasoning |-> SubSeq(text, 2, Min(closes) - 1),
            visible   |-> SubSeq(text, Min(closes) + 1, Len(text))]

\* Mutant: the text is cut only when it is longer than one token too many.
CutsOneLate(text, cap) == cap /= None /\ cap + 1 < Len(text)

Cuts(text, cap) == cap /= None /\ cap < Len(text)

\* The script path: a text whose cut does not decode is kept whole.
WithinCap(text, cap) ==
  IF Cuts(text, cap) /\ Decodes(SubSeq(text, 1, cap)) THEN SubSeq(text, 1, cap)
  ELSE text

\* The first choice.  Content in parts is not looked into unless it was cut;
\* tags around nothing stay in the text.
FirstChoice(reply, cap) ==
  LET kept == WithinCap(reply.text, cap)
      split == SplitReasoning(kept)
      whole == (reply.parts /\ ~Cuts(reply.text, cap)) \/ split.reasoning = <<>>
  IN  [tokens    |-> IF whole THEN kept ELSE split.visible,
       reasoning |-> IF whole THEN <<>> ELSE split.reasoning,
       finish    |-> CASE Cuts(reply.text, cap) -> "length"
                       [] ~Cuts(reply.text, cap) /\ reply.finish = None -> "stop"
                       [] OTHER -> reply.finish]

\* A further choice, which no limit applies to.
FurtherChoice(reply) ==
  LET split == SplitReasoning(reply.text)
  IN  [tokens |-> split.visible, reasoning |-> split.reasoning,
       finish |-> IF reply.finish = None THEN "stop" ELSE reply.finish]

\* Usage: as noted with the reply unless something was cut or split, and the
\* visible tokens of the further choices on top.
PromptUsage(reply, request) ==
  IF reply.usage = None THEN PromptTokens(request) ELSE reply.usage.prompt

CompletionUsage(reply, choices, cap) ==
  LET first == choices[1]
      further == Tail(choices)
  IN  (IF reply.usage = None \/ Cuts(reply.text, cap) \/ first.reasoning /= <<>>
       THEN Len(first.tokens) + Len(first.reasoning)
       ELSE reply.usage.completion)
        + SumOf([i \in DOMAIN further |-> Len(further[i].tokens)])

\* create_completion_dataset.  The digest of a plan covers metadata as well,
\* which no request here has.
ScriptCompletion(index, request) ==
  LET selection == Select(index, request)
      cap == Cap(request)
      first == FirstChoice(selection.reply, cap)
      plan == [key |-> Key(request), script |-> selection.script,
               text |-> selection.reply.text,
               length |-> Len(WithinCap(selection.reply.text, cap))]
      choices == <<first>> \o [i \in 1 .. ChoiceCount(request) - 1 |->
                                 FurtherChoice(Alternative(index, plan, i))]
  IN  [kind       |-> selection.kind,
       script     |-> selection.script,
       reply      |-> selection.reply,
       choices    |-> choices,
       prompt     |-> PromptUsage(selection.reply, request),
       completion |-> CompletionUsage(selection.reply, choices, cap)]

-----------------------------------------------------------------------------
\* The semantic path.  A plan has a trace, one visible output and the reasoning
\* tokens its variant declares.
FullTrace(plan) == IF plan.tokens > 0 THEN plan.tokens ELSE TokensOf(plan.trace)

\* truncate_reasoning: a share that does not decode is dropped.
CutTrace(trace, used, full) ==
  CASE trace = None \/ used = 0 -> None
    [] trace /= None /\ used > 0 /\ used >= full -> trace
    [] OTHER -> LET share == SubSeq(trace, 1, Least(Len(trace),
                                 IF DivCeil(Len(trace) * used, full) < 1 THEN 1
                                 ELSE DivCeil(Len(trace) * used, full)))
                IN  IF Decodes(share) /\ share /= <<>> THEN share ELSE None

\* create_semantic_completion: reasoning is paid first, and what is left of the
\* visible output has to decode: the handler panics when it does not.
SemanticCompletion(plan, request) ==
  LET cap == Cap(request)
      full == FullTrace(plan)
      over == cap /= None /\ cap < full + Len(plan.text)
      used == IF over THEN Least(full, cap) ELSE full
      shown == IF over THEN SubSeq(plan.text, 1, Least(cap - used, Len(plan.text)))
               ELSE plan.text
  IN  [panics     |-> ~Decodes(shown),
       tokens     |-> shown,
       trace      |-> IF over THEN CutTrace(plan.trace, used, full) ELSE plan.trace,
       reasoning  |-> used,
       finish     |-> IF ~over /\ plan.terminal = "completed" THEN "stop" ELSE "length",
       prompt     |-> PromptTokens(request),
       completion |-> (Len(shown) + used) * ChoiceCount(request)]
=============================================================================
