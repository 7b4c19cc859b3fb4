--------------------------- MODULE ResponseRendering ---------------------------
(***************************************************************************)
(* The Response object a plan is rendered as, and the turns and tokens it  *)
(* leaves to what comes after it (render_response_with_context and the     *)
(* canonical_* functions of src/responses.rs, response_turn of             *)
(* src/http/routes.rs).                                                    *)
(***************************************************************************)
EXTENDS TokenBudget, FiniteSetsExt

\* Item ids are a prefix and the digest of the plan they are rendered from.
Id(prefix, digest) == <<prefix, digest>>

\* A message a client writes itself, and the items the simulator renders.
InputMessage(role, text) ==
  [type |-> "message", role |-> role, id |-> None, status |-> None,
   kind |-> "input", text |-> text]

OutputMessage(digest, status, visible) ==
  [type |-> "message", role |-> "assistant", id |-> Id("msg", digest),
   status |-> status, kind |-> visible.kind, text |-> visible.text]

ReasoningItem(digest, status, summary, encrypted) ==
  [type |-> "reasoning", id |-> Id("rs", digest), status |-> status,
   summary |-> summary, raw |-> FALSE, encrypted |-> encrypted]

\* canonical_turn, and canonical_content_turn of a message: instructions are a
\* turn of the developer, a message is a turn, a reasoning item is none.  The
\* turn of a message has no refusal, also when the message is one.
Turn(role, text) == [role |-> role, text |-> text, refusal |-> None]

\* match_turns: what a document is matched with.
MatchTurns(turns) == [i \in DOMAIN turns |-> <<turns[i].role, turns[i].text>>]

IsMessage(item) == item.type = "message"

TurnsIn(input) ==
  FlattenSeq([i \in DOMAIN input |->
                IF IsMessage(input[i]) THEN <<Turn(input[i].role, input[i].text)>>
                ELSE <<>>])

CanonicalTurns(request) ==
  (IF request.instructions = None THEN <<>>
   ELSE <<Turn("developer", request.instructions)>>)
    \o TurnsIn(request.input)

\* canonical_input_tokens
InputTokens(turns) == SumOf([i \in DOMAIN turns |-> TokensOf(turns[i].text)])

\* A budget spent makes a completed answer an incomplete one, and no other.
ResponseStatus(plan, budget) ==
  IF budget.exhausted /\ plan.terminal = "completed" THEN "incomplete"
  ELSE plan.terminal

ItemStatus(status) == IF status = "completed" THEN "completed" ELSE "incomplete"

\* The items of what the budget left: a reasoning node always has ciphertext,
\* its summary only when the request asks for one.
OutputItems(request, budget, digest, status) ==
  (IF budget.reasoning = None THEN <<>>
   ELSE <<ReasoningItem(digest, ItemStatus(status),
            IF request.summary THEN budget.reasoning.summary ELSE None,
            IF budget.reasoning.encrypted = None THEN Id("enc", digest)
            ELSE budget.reasoning.encrypted)>>)
    \o (IF budget.visible = None THEN <<>>
        ELSE <<OutputMessage(digest, ItemStatus(status), budget.visible)>>)

\* render_response_with_context; the texts are counted as they are shown.
Render(request, plan, digest, prior) ==
  LET budget == BudgetOutputs(plan, request.cap)
      status == ResponseStatus(plan, budget)
      input == prior + InputTokens(CanonicalTurns(request))
      output == budget.tokens
                  + (IF budget.visible = None THEN 0 ELSE Len(budget.visible.text))
  IN  [id        |-> Id("resp", digest),
       status    |-> status,
       items     |-> OutputItems(request, budget, digest, status),
       input     |-> input,
       output    |-> output,
       reasoning |-> budget.tokens,
       total     |-> input + output]

\* response_turn: the output text, or else the refusal, or else no text; a
\* refusal is told once more as such.
ResponseTurn(response) ==
  LET messages == {i \in DOMAIN response.items : IsMessage(response.items[i])}
      first == response.items[Min(messages)]
      turn == Turn("assistant", IF messages = {} THEN <<>> ELSE first.text)
  IN  IF messages /= {} /\ first.kind = "refusal"
      THEN [turn EXCEPT !.refusal = turn.text] ELSE turn
=============================================================================
