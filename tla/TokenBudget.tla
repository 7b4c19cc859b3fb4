------------------------------ MODULE TokenBudget ------------------------------
(***************************************************************************)
(* What a limit on output tokens leaves of a planned answer of the         *)
(* Responses route (budget_outputs in src/responses.rs, token_pieces in    *)
(* src/sim/stream.rs).                                                     *)
(*                                                                         *)
(* A text is the sequence of its tokens.  A character of several bytes may *)
(* be spread over tokens, and a limit fall between two of them.            *)
(***************************************************************************)
EXTENDS Integers, Sequences, FiniteSets, SequencesExt

CONSTANTS
  Tokens,       \* what texts are made of
  Open,         \* tokens that end within a character
  Replacement,  \* the token of U+FFFD, which an incomplete character is read as
  None          \* a member that is absent

Texts == Seq(Tokens)

ASSUME TextAssumption ==
  /\ Open \subseteq Tokens
  /\ Replacement \in Tokens \ Open
  /\ None \notin Texts

TokensOf(text) == IF text = None THEN 0 ELSE Len(text)

SumOf(counts) == FoldLeft(LAMBDA sum, count : sum + count, 0, counts)

Least(m, n) == IF m <= n THEN m ELSE n

\* ceil(m / n)
DivCeil(m, n) == (m + n - 1) \div n

\* tokenizer.decode fails on tokens that end within a character.
Decodes(tokens) == tokens = <<>> \/ tokens[Len(tokens)] \notin Open

\* How many of the first n tokens are up to the end of a character.
Complete(text, n) ==
  Cardinality({i \in 1 .. n : \E j \in i .. n : text[j] \notin Open})

\* Mutant: what is left of an incomplete character is kept token by token.
PiecesTokenwise(text, n) ==
  SubSeq(text, 1, Complete(text, n))
    \o [i \in 1 .. 2 * (n - Complete(text, n)) |-> Replacement]

\* token_pieces of the first n tokens, concatenated: what is left of an
\* incomplete character becomes one U+FFFD.
Pieces(text, n) ==
  SubSeq(text, 1, Complete(text, n))
    \o (IF Complete(text, n) = n THEN <<>> ELSE <<Replacement>>)

-----------------------------------------------------------------------------
(* The Responses route.  A plan has at most one reasoning and one visible  *)
(* node, and the reasoning tokens its variant declares (0 for none).       *)

FullReasoning(plan) ==
  IF plan.tokens > 0 THEN plan.tokens
  ELSE IF plan.reasoning = None THEN 0 ELSE TokensOf(plan.reasoning.summary)

VisibleTokens(plan) == IF plan.visible = None THEN 0 ELSE Len(plan.visible.text)

Exhausts(plan, cap) ==
  cap /= None /\ cap < FullReasoning(plan) + VisibleTokens(plan)

\* truncate_reasoning_summary: a share of the summary that is rounded up.
CutSummary(summary, used, full) ==
  CASE summary = None \/ used = 0 -> None
    [] summary /= None /\ used > 0 /\ used >= full -> summary
    [] OTHER -> LET share == DivCeil(Len(summary) * used, full)
                IN  Pieces(summary, IF share < 1 THEN 1 ELSE share)

\* Mutant: the visible output is cut as if the reasoning had cost nothing.
TakeVisibleWholeCap(plan, cap) ==
  IF plan.visible = None \/ cap = 0 THEN None
  ELSE [plan.visible EXCEPT !.text = Pieces(@, Least(cap, Len(@)))]

\* take_visible: the output within what the reasoning has left, or none.
TakeVisible(plan, cap) ==
  LET remaining == cap - Least(FullReasoning(plan), cap)
  IN  IF plan.visible = None \/ remaining = 0 THEN None
      ELSE [plan.visible EXCEPT !.text = Pieces(@, Least(remaining, Len(@)))]

\* A summary of no tokens has none to keep: tokens[..used.max(1)] panics.
CutPanics(plan, cap) ==
  /\ Exhausts(plan, cap)
  /\ plan.reasoning /= None
  /\ plan.reasoning.summary = <<>>
  /\ 0 < cap /\ cap < FullReasoning(plan)

\* budget_outputs: reasoning is paid for first.
BudgetOutputs(plan, cap) ==
  LET full == FullReasoning(plan)
      used == Least(full, cap)
  IN  IF ~Exhausts(plan, cap)
      THEN [reasoning |-> plan.reasoning, visible |-> plan.visible,
            tokens |-> full, exhausted |-> FALSE]
      ELSE [reasoning |->
              IF plan.reasoning = None THEN None
              ELSE [summary   |-> CutSummary(plan.reasoning.summary, used, full),
                    encrypted |-> IF used = full THEN plan.reasoning.encrypted
                                  ELSE None],
            visible   |-> TakeVisible(plan, cap),
            tokens    |-> used,
            exhausted |-> TRUE]
=============================================================================
