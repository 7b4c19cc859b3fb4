----------------------------- MODULE MCDialogue -----------------------------
(***************************************************************************)
(* Rounds of one dialogue for TLC.  Tokens are strings; "<" ends within a  *)
(* character.  The plans differ in what the ways of carrying on a dialogue *)
(* and a budget tell apart: reasoning with a message, alone with a summary *)
(* of no tokens, counted but not shown in an answer that ends incomplete;  *)
(* a refusal; a text cut within a character; an answer without text.       *)
(***************************************************************************)
EXTENDS Dialogue

Text(text) == [kind |-> "text", text |-> text]

Refusal(text) == [kind |-> "refusal", text |-> text]

Plan(reasoning, visible, tokens, terminal) ==
  [reasoning |-> reasoning, visible |-> visible, tokens |-> tokens,
   terminal |-> terminal]

Reasoning(summary, encrypted) == [summary |-> summary, encrypted |-> encrypted]

DialoguePlans ==
  { Plan(None, Text(<<"a", "<", "<", "b">>), 0, "completed"),
    Plan(Reasoning(<<"<", "c", "d">>, None), Text(<<"a", "b">>), 2, "completed"),
    Plan(Reasoning(<<>>, None), None, 2, "completed"),
    Plan(None, Text(<<"a">>), 1, "incomplete"),
    Plan(None, Refusal(<<"no">>), 0, "completed") }

Setting(cap, summary, instructions) ==
  [cap |-> cap, summary |-> summary, instructions |-> instructions,
   metadata |-> <<>>, tools |-> FALSE]

DialogueSettings ==
  { Setting(None, FALSE, None),
    Setting(1, TRUE, None),
    Setting(3, FALSE, <<"be", "brief">>),
    [Setting(None, FALSE, None) EXCEPT !.metadata = <<[key |-> 1, value |-> 3]>>] }

DialogueWords == { <<"hi">> }
=============================================================================
