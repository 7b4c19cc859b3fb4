----------------------------- MODULE AnswersProofs -----------------------------
(***************************************************************************)
(* Theorems about what is answered, for any texts, plans, settings and     *)
(* datasets: a dialogue is the same however it is carried on, its answers  *)
(* keep their limits and can be sent back (Dialogue); the replies of a     *)
(* dataset follow the turns they were recorded for, keep to their limits,  *)
(* and are kept when the dataset grows (ScriptLibrary).                    *)
(***************************************************************************)
EXTENDS Dialogue, ScriptLibrary, DataFacts, FiniteSetTheorems, SequenceTheorems, TLAPS

(***************************************************************************)
(* What a limit leaves of a plan.                                          *)
(***************************************************************************)
LEMMA LeastIsLeast ==
  ASSUME NEW m \in Nat, NEW n \in Nat
  PROVE  Least(m, n) \in Nat /\ Least(m, n) <= m /\ Least(m, n) <= n
         /\ Least(m, n) \in {m, n}
BY DEF Least

LEMMA CompleteInRange ==
  ASSUME NEW text, NEW n \in Nat
  PROVE  Complete(text, n) \in 0 .. n
<1> DEFINE S == {i \in 1 .. n : \E j \in i .. n : text[j] \notin Open}
<1>1. IsFiniteSet(1 .. n) /\ Cardinality(1 .. n) = n
  BY IntervalCount
<1>2. S \subseteq 1 .. n
  OBVIOUS
<1> HIDE DEF S
<1>3. Cardinality(S) \in Nat /\ Cardinality(S) <= Cardinality(1 .. n)
  BY <1>1, <1>2, FS_Subset, FS_CardinalityType
<1>4. Complete(text, n) = Cardinality(S)
  BY DEF Complete, S
<1> QED BY <1>1, <1>3, <1>4

LEMMA PiecesShape ==
  ASSUME NEW text \in Texts, NEW n \in 0 .. Len(text)
  PROVE  Pieces(text, n) \in Texts /\ Len(Pieces(text, n)) <= n
<1> DEFINE c == Complete(text, n)
           kept == SubSeq(text, 1, c)
           rest == IF c = n THEN <<>> ELSE <<Replacement>>
<1>1. text \in Seq(Tokens) /\ Len(text) \in Nat /\ n \in Nat /\ n <= Len(text)
  BY DEF Texts
<1>2. c \in Nat /\ c <= n
  <2>1. Complete(text, n) \in 0 .. n
    BY <1>1, CompleteInRange
  <2> QED BY <1>1, <2>1
<1> HIDE DEF c
<1>3. kept \in Seq(Tokens) /\ Len(kept) = c
  <2>1. \A i \in 1 .. c : text[i] \in Tokens
    BY <1>1, <1>2
  <2>2. kept \in Seq(Tokens)
    BY <1>1, <1>2
  <2>3. Len(kept) = c
    BY <1>1, <1>2
  <2> QED BY <2>2, <2>3
<1>4. rest \in Seq(Tokens) /\ Len(rest) = IF c = n THEN 0 ELSE 1
  BY TextAssumption
<1>5. Pieces(text, n) = kept \o rest
  BY DEF Pieces, c
<1> HIDE DEF kept, rest
<1>6. kept \o rest \in Seq(Tokens) /\ Len(kept \o rest) = Len(kept) + Len(rest)
  BY <1>3, <1>4, ConcatPlaces
<1> QED BY <1>1, <1>2, <1>3, <1>4, <1>5, <1>6 DEF Texts

LEMMA PlanShape ==
  ASSUME NEW plan \in Plans
  PROVE  /\ FullReasoning(plan) \in Nat /\ VisibleTokens(plan) \in Nat
         /\ plan.reasoning # None =>
              plan.reasoning.summary = None \/ plan.reasoning.summary \in Texts
         /\ plan.visible # None =>
              /\ plan.visible \in VisibleType /\ plan.visible.text \in Texts
              /\ VisibleTokens(plan) = Len(plan.visible.text)
<1>1. /\ plan.tokens \in Nat
      /\ plan.reasoning # None => plan.reasoning.summary \in Texts \cup {None}
      /\ plan.visible # None => plan.visible \in VisibleType
  BY PlansAssumption
<1>2. \A text \in Texts : Len(text) \in Nat /\ text # None /\ TokensOf(text) = Len(text)
  BY TextAssumption DEF Texts, TokensOf
<1>3. FullReasoning(plan) \in Nat
  BY <1>1, <1>2 DEF FullReasoning, TokensOf
<1>4. plan.visible # None => plan.visible.text \in Texts
  BY <1>1 DEF VisibleType
<1>5. VisibleTokens(plan) \in Nat
  BY <1>2, <1>4 DEF VisibleTokens
<1> QED BY <1>1, <1>3, <1>4, <1>5 DEF VisibleTokens

LEMMA TakeVisibleShape ==
  ASSUME NEW plan \in Plans, NEW cap \in Nat, TakeVisible(plan, cap) # None
  PROVE  /\ plan.visible # None /\ FullReasoning(plan) < cap
         /\ TakeVisible(plan, cap) \in VisibleType
         /\ TakeVisible(plan, cap).text \in Texts
         /\ Len(TakeVisible(plan, cap).text) <= cap - FullReasoning(plan)
<1> DEFINE full == FullReasoning(plan)
           remaining == cap - Least(full, cap)
           text == plan.visible.text
           cut == Pieces(text, Least(remaining, Len(text)))
<1>1. full \in Nat
  BY PlanShape
<1>2. remaining # 0 /\ plan.visible # None
  BY DEF TakeVisible
<1>3. full < cap /\ remaining = cap - full /\ remaining \in Nat
  BY <1>1, <1>2 DEF Least
<1>4. plan.visible \in VisibleType /\ text \in Texts /\ Len(text) \in Nat
  BY <1>2, PlanShape DEF Texts
<1>5. Least(remaining, Len(text)) \in 0 .. Len(text) /\ Least(remaining, Len(text)) <= remaining
  <2> HIDE DEF remaining, text
  <2> QED BY <1>3, <1>4, LeastIsLeast
<1>6. cut \in Texts /\ Len(cut) <= Least(remaining, Len(text))
  <2> HIDE DEF remaining, text
  <2> QED BY <1>4, <1>5, PiecesShape
<1>7. TakeVisible(plan, cap) = [plan.visible EXCEPT !.text = cut]
  BY <1>2 DEF TakeVisible
<1>8. Len(cut) <= remaining
  <2>1. Len(cut) \in Nat
    BY <1>6 DEF Texts
  <2>2. Least(remaining, Len(text)) \in Nat
    BY <1>4, <1>5
  <2> HIDE DEF remaining, text, cut
  <2> QED BY <1>3, <1>5, <1>6, <2>1, <2>2
<1> HIDE DEF cut
<1>9. TakeVisible(plan, cap) \in VisibleType /\ TakeVisible(plan, cap).text = cut
  BY <1>4, <1>6, <1>7 DEF VisibleType
<1> QED BY <1>2, <1>3, <1>6, <1>8, <1>9

\* A summary that is cut keeps at least one of its tokens.
LEMMA CutSummaryShape ==
  ASSUME NEW summary, summary = None \/ summary \in Texts,
         NEW used \in Nat, NEW full \in Nat, summary # <<>> \/ used = 0 \/ used >= full
  PROVE  CutSummary(summary, used, full) = None \/ CutSummary(summary, used, full) \in Texts
<1>1. CASE summary = None \/ used = 0
  BY <1>1 DEF CutSummary
<1>2. CASE summary # None /\ used > 0 /\ used >= full
  BY <1>2 DEF CutSummary
<1>3. CASE summary # None /\ used > 0 /\ used < full
  <2> DEFINE n == Len(summary)
             share == DivCeil(n * used, full)
             kept == IF share < 1 THEN 1 ELSE share
  <2>1. CutSummary(summary, used, full) = Pieces(summary, kept)
    BY <1>3 DEF CutSummary
  <2>2. summary \in Texts /\ n \in Nat /\ n >= 1
    <3>1. summary \in Texts /\ summary # <<>>
      BY <1>3
    <3> QED BY <3>1 DEF Texts
  <2>3. share \in Int /\ share <= n
    <3> HIDE DEF n
    <3>1. /\ n * used \in Nat /\ n * full \in Nat /\ n * used + n <= n * full
      <4>1. used + 1 <= full
        BY <1>3
      <4>2. n * (used + 1) <= n * full
        BY <2>2, <4>1
      <4>3. n * (used + 1) = n * used + n
        BY <2>2
      <4>4. n * used \in Nat /\ n * full \in Nat
        BY <2>2
      <4> QED BY <4>2, <4>3, <4>4
    <3> DEFINE a == n * used
               b == n * full
    <3>2. a \in Nat /\ b \in Nat /\ a + n <= b /\ share = (a + full - 1) \div full
      BY <3>1 DEF DivCeil
    <3>3. (a + full - 1) \div full \in Int
      BY <1>3, <3>2
    <3>4. a + full - 1 < b + full /\ a + full - 1 \in Nat
      <4> HIDE DEF a, b
      <4> QED BY <1>3, <2>2, <3>2
    <3>5. b + full = full * (n + 1)
      BY <2>2
    <3>6. \A x \in Nat, y \in Nat : x < full * y => x \div full < y
      BY <1>3
    <3>7. (a + full - 1) \div full < n + 1
      <4>1. n + 1 \in Nat /\ a + full - 1 \in Nat /\ a + full - 1 < full * (n + 1)
        <5> DEFINE c == full * (n + 1)
        <5>1. c = b + full
          BY <3>5
        <5> HIDE DEF c, b, a
        <5> QED BY <2>2, <3>4, <5>1 DEF c
      <4> HIDE DEF a
      <4> QED BY <3>6, <4>1
    <3> QED BY <2>2, <3>2, <3>3, <3>7
  <2>4. kept \in 0 .. Len(summary)
    <3> HIDE DEF share
    <3> QED BY <2>2, <2>3
  <2>5. Pieces(summary, kept) \in Texts
    <3> HIDE DEF kept
    <3> QED BY <2>2, <2>4, PiecesShape
  <2> QED BY <2>1, <2>5
<1> QED BY <1>1, <1>2, <1>3

\* What is left of a plan, and that it keeps the limit.
ShownLength(budget) == IF budget.visible = None THEN 0 ELSE Len(budget.visible.text)

BudgetShaped(plan, budget) ==
  /\ budget.tokens \in Nat /\ budget.exhausted \in BOOLEAN
  /\ budget.reasoning # None =>
       /\ plan.reasoning # None
       /\ budget.reasoning.summary = None \/ budget.reasoning.summary \in Texts
       /\ budget.reasoning.encrypted \in {None, plan.reasoning.encrypted}
  /\ budget.visible # None =>
       budget.visible \in VisibleType /\ budget.visible.text \in Texts

BudgetWithin(plan, cap, budget) ==
  /\ cap # None => budget.tokens + ShownLength(budget) <= cap
  /\ budget.exhausted => cap # None /\ cap < FullReasoning(plan) + VisibleTokens(plan)
  /\ budget.visible # None => budget.tokens = FullReasoning(plan)
  /\ ~budget.exhausted => /\ budget.tokens = FullReasoning(plan)
                          /\ budget.visible = plan.visible

LEMMA WholeBudget ==
  ASSUME NEW plan \in Plans, NEW cap, cap = None \/ cap \in Nat,
         ~Exhausts(plan, cap), NEW budget, budget = BudgetOutputs(plan, cap)
  PROVE  BudgetShaped(plan, budget) /\ BudgetWithin(plan, cap, budget)
<1>1. /\ budget.reasoning = plan.reasoning /\ budget.visible = plan.visible
      /\ budget.tokens = FullReasoning(plan) /\ budget.exhausted = FALSE
  BY DEF BudgetOutputs
<1>2. /\ FullReasoning(plan) \in Nat /\ VisibleTokens(plan) \in Nat
      /\ plan.reasoning # None =>
              plan.reasoning.summary = None \/ plan.reasoning.summary \in Texts
      /\ plan.visible # None =>
              /\ plan.visible \in VisibleType /\ plan.visible.text \in Texts
              /\ VisibleTokens(plan) = Len(plan.visible.text)
  BY PlanShape
<1>3. ShownLength(budget) = VisibleTokens(plan)
  BY <1>1, <1>2 DEF ShownLength, VisibleTokens
<1>4. cap # None => FullReasoning(plan) + VisibleTokens(plan) <= cap
  BY <1>2 DEF Exhausts
<1>5. BudgetShaped(plan, budget)
  BY <1>1, <1>2 DEF BudgetShaped
<1> QED BY <1>1, <1>3, <1>4, <1>5 DEF BudgetWithin

LEMMA CutBudget ==
  ASSUME NEW plan \in Plans, NEW cap, cap = None \/ cap \in Nat,
         Exhausts(plan, cap), ~CutPanics(plan, cap),
         NEW budget, budget = BudgetOutputs(plan, cap)
  PROVE  BudgetShaped(plan, budget) /\ BudgetWithin(plan, cap, budget)
<1> DEFINE full == FullReasoning(plan)
           used == Least(full, cap)
<1>1. cap \in Nat /\ cap # None /\ cap < full + VisibleTokens(plan)
  BY DEF Exhausts
<1>2. full \in Nat /\ used \in Nat /\ used <= cap /\ used <= full /\ used \in {full, cap}
  BY <1>1, PlanShape, LeastIsLeast
<1> HIDE DEF full, used
<1>3. /\ budget.tokens = used /\ budget.exhausted = TRUE
      /\ budget.visible = TakeVisible(plan, cap)
      /\ plan.reasoning = None => budget.reasoning = None
      /\ plan.reasoning # None =>
           /\ budget.reasoning.summary = CutSummary(plan.reasoning.summary, used, full)
           /\ budget.reasoning.encrypted \in {None, plan.reasoning.encrypted}
  BY DEF BudgetOutputs, full, used
<1>4. ASSUME plan.reasoning # None
      PROVE  budget.reasoning.summary = None \/ budget.reasoning.summary \in Texts
  <2> DEFINE summary == plan.reasoning.summary
  <2>1. summary = None \/ summary \in Texts
    BY <1>4, PlanShape
  <2>2. summary # <<>> \/ used = 0 \/ used >= full
    <3>1. summary = <<>> => ~(0 < cap /\ cap < full)
      BY <1>4 DEF CutPanics, full
    <3> QED BY <1>1, <1>2, <3>1
  <2> HIDE DEF summary
  <2>3. CutSummary(summary, used, full) = None \/ CutSummary(summary, used, full) \in Texts
    BY <1>2, <2>1, <2>2, CutSummaryShape
  <2> QED BY <1>3, <1>4, <2>3 DEF summary
<1>5. ASSUME budget.visible # None
      PROVE  /\ used = full /\ budget.visible \in VisibleType
             /\ budget.visible.text \in Texts
             /\ Len(budget.visible.text) <= cap - full
  <2>1. /\ FullReasoning(plan) < cap
        /\ TakeVisible(plan, cap) \in VisibleType
        /\ TakeVisible(plan, cap).text \in Texts
        /\ Len(TakeVisible(plan, cap).text) <= cap - FullReasoning(plan)
    BY <1>1, <1>3, <1>5, TakeVisibleShape
  <2>2. full < cap
    BY <2>1 DEF full
  <2>3. used = full
    BY <1>1, <1>2, <2>2
  <2> QED BY <1>3, <2>1, <2>3 DEF full
<1>6. used + ShownLength(budget) <= cap
  <2>1. CASE budget.visible = None
    BY <1>1, <1>2, <2>1 DEF ShownLength
  <2>2. CASE budget.visible # None
    <3>1. Len(budget.visible.text) \in Nat
      BY <1>5, <2>2 DEF Texts
    <3>2. ShownLength(budget) = Len(budget.visible.text)
      BY <2>2 DEF ShownLength
    <3> QED BY <1>1, <1>2, <1>5, <2>2, <3>1, <3>2
  <2> QED BY <2>1, <2>2
<1>7. BudgetShaped(plan, budget)
  BY <1>2, <1>3, <1>4, <1>5 DEF BudgetShaped
<1>8. BudgetWithin(plan, cap, budget)
  BY <1>1, <1>3, <1>5, <1>6 DEF BudgetWithin, full
<1> QED BY <1>7, <1>8

LEMMA BudgetKeepsLimit ==
  ASSUME NEW plan \in Plans, NEW cap, cap = None \/ cap \in Nat,
         ~CutPanics(plan, cap), NEW budget, budget = BudgetOutputs(plan, cap)
  PROVE  BudgetShaped(plan, budget) /\ BudgetWithin(plan, cap, budget)
BY WholeBudget, CutBudget

(***************************************************************************)
(* What is rendered.                                                       *)
(***************************************************************************)
Renders(answer, digest) ==
  LET budget == BudgetOutputs(answer.plan, answer.cap)
      status == ResponseStatus(answer.plan, budget)
  IN  /\ answer.plan \in Plans
      /\ answer.cap = None \/ answer.cap \in Nat
      /\ ~CutPanics(answer.plan, answer.cap)
      /\ answer.response.status = status
      /\ answer.response.reasoning = budget.tokens
      /\ answer.response.output = budget.tokens + ShownLength(budget)
      /\ \E setting \in Settings :
           answer.response.items = OutputItems(setting, budget, digest, status)

MessagePart(digest, status, budget) ==
  IF budget.visible = None THEN <<>>
  ELSE <<OutputMessage(digest, ItemStatus(status), budget.visible)>>

ReasoningPart(setting, digest, status, budget) ==
  IF budget.reasoning = None THEN <<>>
  ELSE <<ReasoningItem(digest, ItemStatus(status),
           IF setting.summary THEN budget.reasoning.summary ELSE None,
           IF budget.reasoning.encrypted = None THEN Id("enc", digest)
           ELSE budget.reasoning.encrypted)>>

LEMMA MinOfOne ==
  ASSUME NEW n \in Int
  PROVE  Min({n}) = n
BY DEF Min

LEMMA TwoInARow ==
  ASSUME NEW a, NEW b
  PROVE  <<a>> \o <<b>> = <<a, b>>
<1>1. <<a>> \in Seq({a, b}) /\ <<b>> \in Seq({a, b}) /\ <<a, b>> \in Seq({a, b})
  OBVIOUS
<1>2. /\ <<a>> \o <<b>> \in Seq({a, b}) /\ Len(<<a>> \o <<b>>) = 2
      /\ (<<a>> \o <<b>>)[1] = a /\ (<<a>> \o <<b>>)[2] = b
  BY <1>1
<1> DEFINE s == <<a>> \o <<b>>
           t == <<a, b>>
<1>3. Len(t) = 2 /\ t[1] = a /\ t[2] = b
  OBVIOUS
<1>4. s \in Seq({a, b}) /\ t \in Seq({a, b}) /\ Len(s) = Len(t)
  BY <1>1, <1>2, <1>3
<1>5. \A i \in 1 .. Len(s) : s[i] = t[i]
  <2>1. \A i \in 1 .. 2 : i = 1 \/ i = 2
    OBVIOUS
  <2> HIDE DEF s, t
  <2> QED BY <1>2, <1>3, <2>1 DEF s
<1> HIDE DEF s, t
<1>6. s = t
  BY <1>4, <1>5, SeqEqual
<1> QED BY <1>6 DEF s, t

\* The turn that is left of what the budget shows.
SpokenText(budget) == IF budget.visible = None THEN <<>> ELSE budget.visible.text

SpokenTurn(budget) ==
  LET turn == Turn("assistant", SpokenText(budget))
  IN  IF budget.visible # None /\ budget.visible.kind = "refusal"
      THEN [turn EXCEPT !.refusal = turn.text] ELSE turn

LEMMA SpokenTurnIs ==
  ASSUME NEW budget
  PROVE  SpokenTurn(budget)
           = [role |-> "assistant", text |-> SpokenText(budget),
              refusal |-> IF budget.visible # None /\ budget.visible.kind = "refusal"
                          THEN SpokenText(budget) ELSE None]
BY DEF SpokenTurn, Turn

\* The turn of a response is that of its message.
LEMMA ResponseTurnIs ==
  ASSUME NEW setting, NEW budget, NEW digest, NEW status, NEW response,
         response.items = OutputItems(setting, budget, digest, status)
  PROVE  ResponseTurn(response) = SpokenTurn(budget)
<1> DEFINE reasoning == ReasoningPart(setting, digest, status, budget)
           message == MessagePart(digest, status, budget)
           all == response.items
           messages == {i \in DOMAIN all : IsMessage(all[i])}
<1>1. all = reasoning \o message
  BY DEF OutputItems, ReasoningPart, MessagePart
<1>2. /\ reasoning = <<>> \/ (Len(reasoning) = 1 /\ reasoning = <<reasoning[1]>>
                               /\ reasoning[1].type = "reasoning")
      /\ budget.visible = None => message = <<>>
      /\ budget.visible # None => /\ message = <<message[1]>>
                                  /\ message[1].type = "message"
                                  /\ message[1].text = budget.visible.text
                                  /\ message[1].kind = budget.visible.kind
  BY DEF ReasoningPart, MessagePart, ReasoningItem, OutputMessage
<1> HIDE DEF reasoning, message
<1>3. ASSUME IF messages = {} THEN budget.visible = None
             ELSE /\ budget.visible # None
                  /\ all[Min(messages)].text = budget.visible.text
                  /\ all[Min(messages)].kind = budget.visible.kind
      PROVE  ResponseTurn(response) = SpokenTurn(budget)
  BY <1>3 DEF ResponseTurn, SpokenTurn, SpokenText
<1>4. CASE budget.visible = None
  <2>1. all = reasoning
    BY <1>1, <1>2, <1>4
  <2>2. messages = {}
    BY <1>2, <2>1 DEF IsMessage
  <2> QED BY <1>3, <1>4, <2>2
<1>5. CASE budget.visible # None
  <2>1. CASE reasoning = <<>>
    <3>1. all = <<message[1]>>
      BY <1>1, <1>2, <1>5, <2>1
    <3>2. messages = {1} /\ all[1] = message[1]
      BY <1>2, <1>5, <3>1 DEF IsMessage
    <3>3. Min({1}) = 1
      BY MinOfOne
    <3> HIDE DEF messages, all
    <3> QED BY <1>2, <1>3, <1>5, <3>2, <3>3
  <2>2. CASE reasoning # <<>>
    <3>1. all = <<reasoning[1], message[1]>>
      <4>1. reasoning = <<reasoning[1]>> /\ message = <<message[1]>>
        BY <1>2, <1>5, <2>2
      <4>2. all = <<reasoning[1]>> \o <<message[1]>>
        BY <1>1, <4>1, Zenon
      <4> QED BY <4>2, TwoInARow
    <3>2. all[1] = reasoning[1] /\ all[2] = message[1] /\ DOMAIN all = {1, 2}
      BY <3>1
    <3>3. messages = {2}
      BY <1>2, <1>5, <2>2, <3>2 DEF IsMessage
    <3>4. Min({2}) = 2
      BY MinOfOne
    <3> HIDE DEF messages, all
    <3> QED BY <1>2, <1>3, <1>5, <3>2, <3>3, <3>4
  <2> QED BY <2>1, <2>2
<1> QED BY <1>4, <1>5

\* The limit holds of what was rendered.
LEMMA RenderedKeepsBudget ==
  ASSUME NEW answer, NEW digest, Renders(answer, digest)
  PROVE  LET response == answer.response
             plan == answer.plan
         IN  /\ answer.cap /= None => response.output <= answer.cap
             /\ Shown(response) /= <<>> => response.reasoning = FullReasoning(plan)
             /\ plan.terminal = "completed" =>
                  (response.status = "completed"
                     <=> response.output = FullReasoning(plan) + VisibleTokens(plan))
             /\ response.status = "completed" /\ plan.visible /= None =>
                  Shown(response) = plan.visible.text
<1> DEFINE plan == answer.plan
           cap == answer.cap
           response == answer.response
           budget == BudgetOutputs(plan, cap)
           status == ResponseStatus(plan, budget)
           full == FullReasoning(plan)
           visible == VisibleTokens(plan)
<1>1. /\ plan \in Plans /\ (cap = None \/ cap \in Nat) /\ ~CutPanics(plan, cap)
      /\ response.status = status /\ response.reasoning = budget.tokens
      /\ response.output = budget.tokens + ShownLength(budget)
  BY DEF Renders
<1>2. PICK setting \in Settings : response.items = OutputItems(setting, budget, digest, status)
  BY DEF Renders
<1>3. Shown(response) = IF budget.visible = None THEN <<>> ELSE budget.visible.text
  <2> HIDE DEF budget, status, response
  <2>1. ResponseTurn(response) = SpokenTurn(budget)
    BY <1>2, ResponseTurnIs
  <2> QED BY <2>1, SpokenTurnIs DEF Shown, SpokenText
<1>4. BudgetShaped(plan, budget) /\ BudgetWithin(plan, cap, budget)
  <2> HIDE DEF plan, cap
  <2> QED BY <1>1, BudgetKeepsLimit
<1>5. full \in Nat /\ visible \in Nat
      /\ plan.visible # None => visible = Len(plan.visible.text)
  BY <1>1, PlanShape
<1>6. ShownLength(budget) \in Nat
  BY <1>4 DEF ShownLength, BudgetShaped, Texts
<1>7. status = "completed" <=> plan.terminal = "completed" /\ ~budget.exhausted
  BY <1>4 DEF ResponseStatus, BudgetShaped
<1>8. ~budget.exhausted => ShownLength(budget) = visible
  BY <1>4 DEF BudgetWithin, ShownLength, VisibleTokens
<1> HIDE DEF budget, status, full, visible, plan, cap, response
<1>9. cap # None => response.output <= cap
  BY <1>1, <1>4 DEF BudgetWithin
<1>10. Shown(response) # <<>> => response.reasoning = full
  BY <1>1, <1>3, <1>4 DEF BudgetWithin, full
<1>11. ~budget.exhausted => response.output = full + visible
  BY <1>1, <1>4, <1>8 DEF BudgetWithin, full
<1>12. budget.exhausted => response.output # full + visible
  <2> SUFFICES ASSUME budget.exhausted PROVE response.output # full + visible
    OBVIOUS
  <2>1. cap \in Nat /\ cap < full + visible /\ response.output <= cap
    BY <1>1, <1>4, <1>9 DEF BudgetWithin, full, visible
  <2>2. response.output \in Nat
    BY <1>1, <1>4, <1>6 DEF BudgetShaped
  <2> QED BY <1>5, <2>1, <2>2
<1>13. budget.exhausted \in BOOLEAN
  BY <1>4 DEF BudgetShaped
<1>14. plan.terminal = "completed" =>
         (response.status = "completed" <=> response.output = full + visible)
  BY <1>1, <1>7, <1>11, <1>12, <1>13
<1>15. response.status = "completed" /\ plan.visible # None => Shown(response) = plan.visible.text
  BY <1>1, <1>3, <1>4, <1>7 DEF BudgetWithin
<1> QED BY <1>9, <1>10, <1>14, <1>15 DEF plan, cap, response, full, visible

(***************************************************************************)
(* Sums.                                                                   *)
(***************************************************************************)
\* f[k] is the sum of the first k counts.
Sums(counts, f) ==
  /\ f \in [0 .. Len(counts) -> Nat]
  /\ f[0] = 0
  /\ \A k \in 1 .. Len(counts) : f[k] = f[k - 1] + counts[k]

\* The fold over every set of places, as FoldLeft defines it.
AddsUp(counts, m, h) ==
  h = [s \in SUBSET (1 .. m) |-> IF s = {} THEN 0 ELSE h[s \ {Max(s)}] + counts[Max(s)]]

LEMMA MaxOfPlaces ==
  ASSUME NEW m \in Nat, NEW s \in SUBSET (1 .. m), s # {}
  PROVE  Max(s) \in s /\ \A y \in s : Max(s) >= y
<1>1. s \in SUBSET Nat /\ \A y \in s : y <= m
  OBVIOUS
<1>2. \E x \in s : \A y \in s : x >= y
  BY <1>1, GreatestExists
<1> QED BY <1>2 DEF Max

LEMMA AddsUpExists ==
  ASSUME NEW counts, NEW n \in Nat
  PROVE  \E h : AddsUp(counts, n, h)
<1> DEFINE T == {m \in Nat : \E h : AddsUp(counts, m, h)}
<1>1. 0 \in T
  <2> DEFINE h == [s \in SUBSET (1 .. 0) |-> 0]
  <2>1. \A s \in SUBSET (1 .. 0) : s = {}
    OBVIOUS
  <2>2. h = [s \in SUBSET (1 .. 0) |-> IF s = {} THEN 0 ELSE h[s \ {Max(s)}] + counts[Max(s)]]
    BY <2>1
  <2>3. AddsUp(counts, 0, h)
    BY <2>2 DEF AddsUp
  <2> QED BY <2>3
<1>2. ASSUME NEW m \in Nat, m \in T PROVE m + 1 \in T
  <2>1. PICK h : AddsUp(counts, m, h)
    BY <1>2
  <2>2. \A s \in SUBSET (1 .. m) :
          h[s] = IF s = {} THEN 0 ELSE h[s \ {Max(s)}] + counts[Max(s)]
    BY <2>1 DEF AddsUp
  <2> DEFINE g == [s \in SUBSET (1 .. m + 1) |->
                     IF m + 1 \in s THEN h[s \ {m + 1}] + counts[m + 1] ELSE h[s]]
             body(s) == IF s = {} THEN 0 ELSE g[s \ {Max(s)}] + counts[Max(s)]
  <2>3. ASSUME NEW s \in SUBSET (1 .. m + 1) PROVE g[s] = body(s)
    <3>1. g[s] = IF m + 1 \in s THEN h[s \ {m + 1}] + counts[m + 1] ELSE h[s]
      OBVIOUS
    <3>2. CASE m + 1 \in s
      <4>1. Max(s) = m + 1
        <5>0. m + 1 \in Nat /\ s \in SUBSET (1 .. m + 1) /\ s # {}
          BY <3>2
        <5>1. Max(s) \in s /\ \A y \in s : Max(s) >= y
          BY <5>0, MaxOfPlaces
        <5>2. Max(s) >= m + 1 /\ Max(s) \in 1 .. m + 1
          BY <3>2, <5>1
        <5> QED BY <5>2
      <4>2. s \ {m + 1} \in SUBSET (1 .. m + 1) /\ m + 1 \notin s \ {m + 1}
        OBVIOUS
      <4>3. g[s \ {m + 1}] = h[s \ {m + 1}]
        BY <4>2
      <4> HIDE DEF g
      <4> QED BY <3>1, <3>2, <4>1, <4>3
    <3>3. CASE m + 1 \notin s /\ s # {}
      <4>1. s \in SUBSET (1 .. m)
        <5> SUFFICES ASSUME NEW y \in s PROVE y \in 1 .. m
          OBVIOUS
        <5>1. y \in 1 .. m + 1 /\ y # m + 1
          BY <3>3
        <5> QED BY <5>1
      <4>2. s \ {Max(s)} \in SUBSET (1 .. m + 1) /\ m + 1 \notin s \ {Max(s)}
        BY <3>3
      <4>3. g[s \ {Max(s)}] = h[s \ {Max(s)}]
        BY <4>2
      <4> HIDE DEF g
      <4> QED BY <2>2, <3>1, <3>3, <4>1, <4>3
    <3>4. CASE s = {}
      <4>1. s \in SUBSET (1 .. m)
        BY <3>4
      <4> HIDE DEF g
      <4> QED BY <2>2, <3>1, <3>4, <4>1
    <3> QED BY <3>2, <3>3, <3>4
  <2>4. g = [s \in SUBSET (1 .. m + 1) |-> g[s]]
    OBVIOUS
  <2> HIDE DEF g
  <2>5. g = [s \in SUBSET (1 .. m + 1) |-> body(s)]
    BY <2>3, <2>4
  <2>6. AddsUp(counts, m + 1, g)
    BY <2>5 DEF AddsUp
  <2> QED BY <2>6
<1> HIDE DEF T
<1>3. Nat \subseteq T
  BY <1>1, <1>2, SetInduction
<1> QED BY <1>3 DEF T

\* SumOf folds to the last partial sum, however the partial sums were found.
LEMMA SumOfIs ==
  ASSUME NEW counts \in Seq(Nat)
  PROVE  /\ \E f : Sums(counts, f)
         /\ \A f : Sums(counts, f) => SumOf(counts) = f[Len(counts)]
<1> DEFINE n == Len(counts)
           h == CHOOSE h : AddsUp(counts, n, h)
<1>1. n \in Nat /\ DOMAIN counts = 1 .. n /\ \A k \in 1 .. n : counts[k] \in Nat
  OBVIOUS
<1>2. SumOf(counts) = h[1 .. n]
  BY <1>1 DEF SumOf, FoldLeft, MapThenFoldSet, AddsUp
<1>3. AddsUp(counts, n, h)
  BY <1>1, AddsUpExists
<1> HIDE DEF h
<1>4. \A s \in SUBSET (1 .. n) :
        h[s] = IF s = {} THEN 0 ELSE h[s \ {Max(s)}] + counts[Max(s)]
  BY <1>3 DEF AddsUp
<1>5. h[1 .. 0] = 0
  <2>1. 1 .. 0 = {} /\ {} \in SUBSET (1 .. n)
    OBVIOUS
  <2> QED BY <1>4, <2>1
<1>6. ASSUME NEW k \in Nat, k + 1 <= n
      PROVE  h[1 .. k + 1] = h[1 .. k] + counts[k + 1]
  <2> DEFINE s == 1 .. k + 1
  <2>1. s \in SUBSET (1 .. n) /\ s # {} /\ k + 1 \in s
    <3>1. k + 1 \in s
      BY <1>6
    <3>2. \A x \in s : x \in 1 .. n
      BY <1>1, <1>6
    <3> HIDE DEF s
    <3> QED BY <3>1, <3>2
  <2>2. Max(s) = k + 1
    <3>1. k + 1 \in Nat /\ s \in SUBSET (1 .. k + 1)
      OBVIOUS
    <3>2. Max(s) \in s /\ Max(s) >= k + 1
      BY <2>1, <3>1, MaxOfPlaces
    <3> QED BY <3>2
  <2>3. s \ {k + 1} = 1 .. k
    OBVIOUS
  <2> HIDE DEF s
  <2>4. h[s] = h[1 .. k] + counts[k + 1]
    BY <1>4, <2>1, <2>2, <2>3
  <2> QED BY <2>4 DEF s
<1> DEFINE T == {k \in Nat : k <= n => h[1 .. k] \in Nat}
<1>7. Nat \subseteq T
  <2>1. 0 \in T
    BY <1>5
  <2>2. ASSUME NEW k \in Nat, k \in T PROVE k + 1 \in T
    <3> SUFFICES ASSUME k + 1 <= n PROVE h[1 .. k + 1] \in Nat
      OBVIOUS
    <3>1. h[1 .. k] \in Nat /\ counts[k + 1] \in Nat
      BY <1>1, <2>2
    <3>2. h[1 .. k + 1] = h[1 .. k] + counts[k + 1]
      BY <1>6
    <3> QED BY <3>1, <3>2
  <2> HIDE DEF T
  <2> QED BY <2>1, <2>2, SetInduction
<1>8. Sums(counts, [k \in 0 .. n |-> h[1 .. k]])
  <2> DEFINE f == [k \in 0 .. n |-> h[1 .. k]]
  <2>1. f \in [0 .. n -> Nat]
    BY <1>7
  <2>2. f[0] = 0
    BY <1>1, <1>5
  <2>3. ASSUME NEW k \in 1 .. n PROVE f[k] = f[k - 1] + counts[k]
    <3>1. k - 1 \in Nat /\ (k - 1) + 1 = k /\ k <= n /\ k - 1 \in 0 .. n /\ k \in 0 .. n
      BY <1>1
    <3>2. h[1 .. (k - 1) + 1] = h[1 .. k - 1] + counts[(k - 1) + 1]
      BY <1>6, <3>1
    <3> QED BY <3>1, <3>2
  <2> QED BY <2>1, <2>2, <2>3 DEF Sums
<1>9. ASSUME NEW f, Sums(counts, f) PROVE SumOf(counts) = f[n]
  <2> DEFINE R == {k \in Nat : k <= n => h[1 .. k] = f[k]}
  <2>1. 0 \in R
    BY <1>5, <1>9 DEF Sums
  <2>2. ASSUME NEW k \in Nat, k \in R PROVE k + 1 \in R
    <3> SUFFICES ASSUME k + 1 <= n PROVE h[1 .. k + 1] = f[k + 1]
      OBVIOUS
    <3>1. k + 1 \in 1 .. n /\ (k + 1) - 1 = k /\ k <= n
      BY <1>1
    <3>2. f[k + 1] = f[k] + counts[k + 1]
      BY <1>9, <3>1 DEF Sums
    <3>3. h[1 .. k + 1] = h[1 .. k] + counts[k + 1]
      BY <1>6
    <3> QED BY <2>2, <3>1, <3>2, <3>3
  <2> HIDE DEF R
  <2>3. Nat \subseteq R
    BY <2>1, <2>2, SetInduction
  <2> QED BY <1>1, <1>2, <2>3 DEF R
<1> QED BY <1>8, <1>9

LEMMA SumOfIsNat ==
  ASSUME NEW counts \in Seq(Nat)
  PROVE  SumOf(counts) \in Nat
<1>1. PICK f : Sums(counts, f)
  BY SumOfIs
<1>2. SumOf(counts) = f[Len(counts)]
  BY <1>1, SumOfIs
<1>3. Len(counts) \in Nat
  OBVIOUS
<1> QED BY <1>1, <1>2, <1>3 DEF Sums

LEMMA SumOfNothing == SumOf(<<>>) = 0
<1>1. <<>> \in Seq(Nat) /\ Len(<<>>) = 0
  OBVIOUS
<1>2. PICK f : Sums(<<>>, f)
  BY <1>1, SumOfIs
<1>3. SumOf(<<>>) = f[Len(<<>>)]
  BY <1>1, <1>2, SumOfIs
<1> QED BY <1>1, <1>2, <1>3 DEF Sums

LEMMA SumOfOne ==
  ASSUME NEW n \in Nat
  PROVE  SumOf(<<n>>) = n
<1>1. <<n>> \in Seq(Nat) /\ Len(<<n>>) = 1 /\ <<n>>[1] = n
  OBVIOUS
<1>2. PICK f : Sums(<<n>>, f)
  BY <1>1, SumOfIs
<1>3. SumOf(<<n>>) = f[Len(<<n>>)]
  BY <1>1, <1>2, SumOfIs
<1>4. f[0] = 0 /\ f[1] = f[0] + n
  BY <1>1, <1>2 DEF Sums
<1> QED BY <1>1, <1>3, <1>4

LEMMA SumOfBoth ==
  ASSUME NEW a \in Seq(Nat), NEW b \in Seq(Nat)
  PROVE  SumOf(a \o b) = SumOf(a) + SumOf(b)
<1> DEFINE ab == a \o b
           m == Len(a)
           n == Len(b)
<1>1. /\ ab \in Seq(Nat) /\ Len(ab) = m + n
      /\ \A k \in 1 .. m : ab[k] = a[k]
      /\ \A k \in 1 .. n : ab[m + k] = b[k]
  BY ConcatPlaces
<1>2. m \in Nat /\ n \in Nat
  OBVIOUS
<1>3. PICK f : Sums(a, f)
  BY SumOfIs
<1>4. PICK g : Sums(b, g)
  BY SumOfIs
<1> HIDE DEF ab, m, n
<1>5. /\ f \in [0 .. m -> Nat] /\ f[0] = 0 /\ \A k \in 1 .. m : f[k] = f[k - 1] + a[k]
      /\ g \in [0 .. n -> Nat] /\ g[0] = 0 /\ \A k \in 1 .. n : g[k] = g[k - 1] + b[k]
  BY <1>3, <1>4 DEF Sums, m, n
<1> DEFINE h == [k \in 0 .. m + n |-> IF k <= m THEN f[k] ELSE f[m] + g[k - m]]
<1>6. Sums(ab, h)
  <2>1. h \in [0 .. m + n -> Nat]
    <3> SUFFICES ASSUME NEW k \in 0 .. m + n
                 PROVE  (IF k <= m THEN f[k] ELSE f[m] + g[k - m]) \in Nat
      OBVIOUS
    <3>1. k <= m => k \in 0 .. m
      BY <1>2
    <3>2. ~(k <= m) => k - m \in 0 .. n
      BY <1>2
    <3>3. f[m] \in Nat
      BY <1>2, <1>5
    <3> QED BY <1>5, <3>1, <3>2, <3>3
  <2>2. h[0] = 0
    BY <1>2, <1>5
  <2>3. ASSUME NEW k \in 1 .. m + n PROVE h[k] = h[k - 1] + ab[k]
    <3>1. k \in 0 .. m + n /\ k - 1 \in 0 .. m + n
      BY <1>2
    <3>2. CASE k <= m
      <4>1. k \in 1 .. m /\ k - 1 <= m
        BY <1>2, <3>2
      <4> QED BY <1>1, <1>5, <3>1, <3>2, <4>1
    <3>3. CASE k = m + 1
      <4>1. 1 \in 1 .. n /\ k - m = 1 /\ k - 1 = m /\ ~(k <= m) /\ m <= m /\ 1 - 1 = 0
        BY <1>2, <3>3
      <4>2. h[k] = f[m] + g[1] /\ h[k - 1] = f[m]
        BY <3>1, <4>1
      <4>3. g[1] = g[0] + b[1]
        BY <1>5, <4>1
      <4>4. ab[k] = b[1] /\ b[1] \in Nat
        <5>1. ab[m + 1] = b[1]
          BY <1>1, <4>1
        <5>2. b[1] \in Nat
          BY <4>1 DEF n
        <5> QED BY <3>3, <5>1, <5>2
      <4>5. f[m] \in Nat
        BY <1>2, <1>5
      <4> QED BY <1>5, <4>2, <4>3, <4>4, <4>5
    <3>4. CASE k > m + 1
      <4> DEFINE i == k - m
      <4>1. i \in 1 .. n /\ k - 1 - m = i - 1 /\ ~(k <= m) /\ ~(k - 1 <= m) /\ i - 1 \in 0 .. n
             /\ m + i = k /\ i \in 0 .. n
        BY <1>2, <3>4
      <4>2. h[k] = f[m] + g[i] /\ h[k - 1] = f[m] + g[i - 1]
        BY <3>1, <4>1
      <4> HIDE DEF i, h
      <4>3. g[i] = g[i - 1] + b[i] /\ g[i - 1] \in Nat
        BY <1>5, <4>1
      <4>4. ab[k] = b[i] /\ b[i] \in Nat
        <5>1. ab[m + i] = b[i]
          BY <1>1, <4>1
        <5>2. b[i] \in Nat
          BY <4>1 DEF n
        <5> QED BY <4>1, <5>1, <5>2
      <4>5. f[m] \in Nat
        BY <1>2, <1>5
      <4> QED BY <4>2, <4>3, <4>4, <4>5
    <3>5. k <= m \/ k = m + 1 \/ k > m + 1
      BY <1>2
    <3> QED BY <3>2, <3>3, <3>4, <3>5
  <2> HIDE DEF h
  <2> QED BY <1>1, <2>1, <2>2, <2>3 DEF Sums
<1>7. h[m + n] = f[m] + g[n]
  <2>1. m + n \in 0 .. m + n /\ (m + n) - m = n
    BY <1>2
  <2>2. CASE n = 0
    BY <1>2, <1>5, <2>1, <2>2
  <2>3. CASE n # 0
    <3>1. ~(m + n <= m)
      BY <1>2, <2>3
    <3> QED BY <2>1, <3>1
  <2> QED BY <2>2, <2>3
<1> HIDE DEF h
<1>8. SumOf(ab) = h[m + n]
  BY <1>1, <1>6, SumOfIs
<1>9. SumOf(a) = f[m] /\ SumOf(b) = g[n]
  BY <1>3, <1>4, SumOfIs DEF m, n
<1> QED BY <1>7, <1>8, <1>9 DEF ab

(***************************************************************************)
(* Concatenations of many.                                                 *)
(***************************************************************************)
\* f[k] is the first k sequences, one after the other.
Joins(A, seqs, f) ==
  /\ f \in [0 .. Len(seqs) -> Seq(A)]
  /\ f[0] = <<>>
  /\ \A k \in 1 .. Len(seqs) : f[k] = f[k - 1] \o seqs[k]

Associates(A) == \A x, y, z \in Seq(A) : x \o (y \o z) = (x \o y) \o z

LEMMA ConcatAssociates ==
  ASSUME NEW A
  PROVE  Associates(A)
BY ConcatAssociative, SMT DEF Associates

LEMMA FlattenIs ==
  ASSUME NEW A, NEW seqs \in Seq(Seq(A))
  PROVE  /\ \E f : Joins(A, seqs, f)
         /\ \A f : Joins(A, seqs, f) => FlattenSeq(seqs) = f[Len(seqs)]
<1> DEFINE n == Len(seqs)
<1>1. n \in Nat /\ \A k \in 1 .. n : seqs[k] \in Seq(A)
  OBVIOUS
<1>2. PICK g : /\ Flattens(seqs, n, g)
               /\ FlattenSeq(seqs) = IF n = 0 THEN <<>> ELSE g[n]
  BY FlattenUnfolds
<1> HIDE DEF n
<1>3. \A k \in 1 .. n : g[k] = IF k = 1 THEN seqs[k] ELSE g[k - 1] \o seqs[k]
  BY <1>2 DEF Flattens
<1> DEFINE T == {k \in Nat : k \in 1 .. n => g[k] \in Seq(A)}
<1>4. Nat \subseteq T
  <2>1. 0 \in T
    OBVIOUS
  <2>2. ASSUME NEW k \in Nat, k \in T PROVE k + 1 \in T
    <3> SUFFICES ASSUME k + 1 \in 1 .. n PROVE g[k + 1] \in Seq(A)
      OBVIOUS
    <3>1. CASE k = 0
      BY <1>1, <1>3, <3>1
    <3>2. CASE k # 0
      <4>1. k \in 1 .. n /\ k + 1 # 1 /\ (k + 1) - 1 = k
        BY <1>1, <3>2
      <4>2. g[k] \in Seq(A) /\ seqs[k + 1] \in Seq(A)
        BY <1>1, <2>2, <4>1
      <4>3. g[k + 1] = g[k] \o seqs[k + 1]
        BY <1>3, <4>1
      <4> QED BY <4>2, <4>3
    <3> QED BY <3>1, <3>2
  <2> HIDE DEF T
  <2> QED BY <2>1, <2>2, SetInduction
<1> DEFINE F == [k \in 0 .. n |-> IF k = 0 THEN <<>> ELSE g[k]]
<1>5. Joins(A, seqs, F)
  <2>1. F \in [0 .. n -> Seq(A)]
    <3> SUFFICES ASSUME NEW k \in 0 .. n PROVE (IF k = 0 THEN <<>> ELSE g[k]) \in Seq(A)
      OBVIOUS
    <3>1. k # 0 => k \in T /\ k \in 1 .. n
      BY <1>1, <1>4
    <3> QED BY <3>1
  <2>2. F[0] = <<>>
    BY <1>1
  <2>3. ASSUME NEW k \in 1 .. n PROVE F[k] = F[k - 1] \o seqs[k]
    <3>1. F[k] = g[k] /\ k - 1 \in 0 .. n /\ seqs[k] \in Seq(A)
      BY <1>1
    <3>2. CASE k = 1
      <4>1. F[k - 1] = <<>>
        BY <3>1, <3>2
      <4>2. <<>> \o seqs[k] = seqs[k]
        BY <3>1
      <4> QED BY <1>3, <3>1, <3>2, <4>1, <4>2
    <3>3. CASE k # 1
      <4>1. F[k - 1] = g[k - 1]
        BY <1>1, <3>1, <3>3
      <4> QED BY <1>3, <3>1, <3>3, <4>1
    <3> QED BY <3>2, <3>3
  <2> HIDE DEF F
  <2> QED BY <2>1, <2>2, <2>3 DEF Joins, n
<1>6. ASSUME NEW f, Joins(A, seqs, f) PROVE FlattenSeq(seqs) = f[n]
  <2> DEFINE R == {k \in Nat : k \in 1 .. n => f[k] = g[k]}
  <2>0. /\ f[0] = <<>> /\ \A k \in 1 .. n : f[k] = f[k - 1] \o seqs[k]
    BY <1>6 DEF Joins, n
  <2>1. 0 \in R
    OBVIOUS
  <2>2. ASSUME NEW k \in Nat, k \in R PROVE k + 1 \in R
    <3> SUFFICES ASSUME k + 1 \in 1 .. n PROVE f[k + 1] = g[k + 1]
      OBVIOUS
    <3>0. f[k + 1] = f[k] \o seqs[k + 1] /\ seqs[k + 1] \in Seq(A)
      <4>1. (k + 1) - 1 = k
        OBVIOUS
      <4>2. f[k + 1] = f[(k + 1) - 1] \o seqs[k + 1]
        BY <2>0
      <4> QED BY <1>1, <4>1, <4>2
    <3>1. CASE k = 0
      <4>1. <<>> \o seqs[k + 1] = seqs[k + 1]
        BY <3>0, ConcatEmptySeq
      <4>2. k + 1 = 1 /\ f[k] = <<>>
        BY <2>0, <3>1
      <4>3. g[k + 1] = seqs[k + 1]
        BY <1>3, <4>2
      <4> QED BY <3>0, <4>1, <4>2, <4>3
    <3>2. CASE k # 0
      <4>1. k \in 1 .. n /\ k + 1 # 1
        BY <1>1, <3>2
      <4>2. (k + 1) - 1 = k /\ f[k] = g[k]
        BY <2>2, <4>1
      <4>3. g[k + 1] = g[(k + 1) - 1] \o seqs[k + 1]
        BY <1>3, <4>1
      <4> QED BY <3>0, <4>2, <4>3
    <3> QED BY <3>1, <3>2
  <2> HIDE DEF R
  <2>3. Nat \subseteq R
    BY <2>1, <2>2, SetInduction
  <2>4. n # 0 => n \in 1 .. n
    BY <1>1
  <2> QED BY <1>1, <1>2, <2>0, <2>3, <2>4 DEF R
<1> QED BY <1>5, <1>6 DEF n

LEMMA FlattenTyped ==
  ASSUME NEW A, NEW seqs \in Seq(Seq(A))
  PROVE  FlattenSeq(seqs) \in Seq(A)
<1>1. PICK f : Joins(A, seqs, f)
  BY FlattenIs
<1>2. FlattenSeq(seqs) = f[Len(seqs)]
  BY <1>1, FlattenIs
<1>3. Len(seqs) \in Nat
  OBVIOUS
<1> QED BY <1>1, <1>2, <1>3 DEF Joins

LEMMA FlattenNothing == FlattenSeq(<<>>) = <<>>
BY DEF FlattenSeq

LEMMA FlattenOne ==
  ASSUME NEW A, NEW seq \in Seq(A)
  PROVE  FlattenSeq(<<seq>>) = seq
<1>1. <<seq>> \in Seq(Seq(A)) /\ Len(<<seq>>) = 1 /\ <<seq>>[1] = seq
  OBVIOUS
<1>2. PICK f : Joins(A, <<seq>>, f)
  BY <1>1, FlattenIs
<1>3. FlattenSeq(<<seq>>) = f[Len(<<seq>>)]
  BY <1>1, <1>2, FlattenIs
<1>4. f[0] = <<>> /\ f[1] = f[0] \o seq
  <2>1. f[0] = <<>> /\ \A k \in 1 .. 1 : f[k] = f[k - 1] \o <<seq>>[k]
    BY <1>1, <1>2 DEF Joins
  <2>2. 1 \in 1 .. 1 /\ 1 - 1 = 0
    OBVIOUS
  <2>3. f[1] = f[1 - 1] \o <<seq>>[1]
    BY <2>1, <2>2
  <2> QED BY <1>1, <2>1, <2>2, <2>3
<1>5. <<>> \o seq = seq
  OBVIOUS
<1> QED BY <1>1, <1>3, <1>4, <1>5

LEMMA FlattenBoth ==
  ASSUME NEW A, NEW a \in Seq(Seq(A)), NEW b \in Seq(Seq(A))
  PROVE  FlattenSeq(a \o b) = FlattenSeq(a) \o FlattenSeq(b)
<1> DEFINE S == Seq(A)
           ab == a \o b
           m == Len(a)
           n == Len(b)
<1>1. /\ ab \in Seq(S) /\ Len(ab) = m + n
      /\ \A k \in 1 .. m : ab[k] = a[k]
      /\ \A k \in 1 .. n : ab[m + k] = b[k]
  <2>1. a \in Seq(S) /\ b \in Seq(S)
    OBVIOUS
  <2> HIDE DEF S
  <2> QED BY <2>1, ConcatPlaces
<1>2. m \in Nat /\ n \in Nat
  OBVIOUS
<1>3. PICK f : Joins(A, a, f)
  BY FlattenIs
<1>4. PICK g : Joins(A, b, g)
  BY FlattenIs
<1>0. \A k \in 1 .. n : b[k] \in Seq(A)
  OBVIOUS
<1> HIDE DEF ab, m, n
<1>5. /\ f \in [0 .. m -> Seq(A)] /\ f[0] = <<>> /\ \A k \in 1 .. m : f[k] = f[k - 1] \o a[k]
      /\ g \in [0 .. n -> Seq(A)] /\ g[0] = <<>> /\ \A k \in 1 .. n : g[k] = g[k - 1] \o b[k]
  BY <1>3, <1>4 DEF Joins, m, n
<1> DEFINE h == [k \in 0 .. m + n |-> IF k <= m THEN f[k] ELSE f[m] \o g[k - m]]
<1>m. f[m] \in Seq(A)
  BY <1>2, <1>5
<1>6. Joins(A, ab, h)
  <2>1. h \in [0 .. m + n -> Seq(A)]
    <3> SUFFICES ASSUME NEW k \in 0 .. m + n
                 PROVE  (IF k <= m THEN f[k] ELSE f[m] \o g[k - m]) \in Seq(A)
      OBVIOUS
    <3>1. k <= m => k \in 0 .. m
      BY <1>2
    <3>2. ~(k <= m) => g[k - m] \in Seq(A)
      <4>1. ~(k <= m) => k - m \in 0 .. n
        BY <1>2
      <4> QED BY <1>5, <4>1
    <3>3. k <= m => f[k] \in Seq(A)
      BY <1>5, <3>1
    <3>4. \A u, v \in Seq(A) : u \o v \in Seq(A)
      OBVIOUS
    <3> QED BY <1>m, <3>2, <3>3, <3>4
  <2>2. h[0] = <<>>
    BY <1>2, <1>5
  <2>3. ASSUME NEW k \in 1 .. m + n PROVE h[k] = h[k - 1] \o ab[k]
    <3>1. k \in 0 .. m + n /\ k - 1 \in 0 .. m + n
      BY <1>2
    <3>2. CASE k <= m
      <4>1. k \in 1 .. m /\ k - 1 <= m
        BY <1>2, <3>2
      <4>2. h[k] = f[k] /\ h[k - 1] = f[k - 1]
        BY <3>1, <3>2, <4>1
      <4> HIDE DEF h
      <4> QED BY <1>1, <1>5, <4>1, <4>2
    <3>3. CASE ~(k <= m)
      <4> DEFINE i == k - m
      <4>1. i \in 1 .. n /\ k - 1 - m = i - 1 /\ i - 1 \in 0 .. n
             /\ m + i = k /\ i \in 0 .. n
        BY <1>2, <3>3
      <4>2. h[k] = f[m] \o g[i]
        BY <3>1, <3>3
      <4>3. h[k - 1] = f[m] \o g[i - 1]
        <5>1. CASE k - 1 <= m
          <6>1. k - 1 = m /\ i = 1
            BY <1>2, <3>3, <5>1
          <6>2. h[k - 1] = f[m] /\ i - 1 = 0
            BY <3>1, <5>1, <6>1
          <6> HIDE DEF h, i
          <6>3. f[m] \o <<>> = f[m]
            BY <1>m
          <6> QED BY <1>5, <6>2, <6>3
        <5>2. CASE ~(k - 1 <= m)
          <6>1. h[k - 1] = f[m] \o g[k - 1 - m]
            BY <3>1, <5>2
          <6> HIDE DEF h, i
          <6> QED BY <4>1, <6>1
        <5> QED BY <5>1, <5>2
      <4> HIDE DEF i, h
      <4>4. g[i] = g[i - 1] \o b[i] /\ g[i - 1] \in Seq(A) /\ b[i] \in Seq(A)
        BY <1>0, <1>5, <4>1
      <4>5. ab[k] = b[i]
        <5>1. ab[m + i] = b[i]
          BY <1>1, <4>1
        <5> QED BY <4>1, <5>1
      <4>6. f[m] \o (g[i - 1] \o b[i]) = (f[m] \o g[i - 1]) \o b[i]
        <5>1. Associates(A) /\ f[m] \in Seq(A)
          BY <1>m, ConcatAssociates
        <5> QED BY <4>4, <5>1, Zenon DEF Associates
      <4> QED BY <4>2, <4>3, <4>4, <4>5, <4>6
    <3> QED BY <3>2, <3>3
  <2> HIDE DEF h
  <2> QED BY <1>1, <2>1, <2>2, <2>3 DEF Joins
<1>7. h[m + n] = f[m] \o g[n]
  <2>1. m + n \in 0 .. m + n /\ (m + n) - m = n
    BY <1>2
  <2>2. CASE n = 0
    <3>1. h[m + n] = f[m] /\ g[n] = <<>>
      BY <1>2, <1>5, <2>1, <2>2
    <3> HIDE DEF h
    <3> QED BY <3>1, <1>m
  <2>3. CASE n # 0
    <3>1. ~(m + n <= m)
      BY <1>2, <2>3
    <3> QED BY <2>1, <3>1
  <2> QED BY <2>2, <2>3
<1> HIDE DEF h
<1>8. FlattenSeq(ab) = h[m + n]
  BY <1>1, <1>6, FlattenIs DEF S
<1>9. FlattenSeq(a) = f[m] /\ FlattenSeq(b) = g[n]
  BY <1>3, <1>4, FlattenIs DEF m, n
<1> QED BY <1>7, <1>8, <1>9 DEF ab

(***************************************************************************)
(* Turns and tokens of a sequence, taken element by element.               *)
(***************************************************************************)
Mapped(f, s) == [i \in DOMAIN s |-> f[s[i]]]

IsMap(f, A, B) == f \in [A -> B]

MapsTo(f, s, B) ==
  /\ Mapped(f, s) \in Seq(B) /\ Len(Mapped(f, s)) = Len(s)
  /\ \A i \in 1 .. Len(s) : Mapped(f, s)[i] = f[s[i]]

LEMMA MappedTyped ==
  ASSUME NEW A, NEW B, NEW f, IsMap(f, A, B), NEW s \in Seq(A)
  PROVE  MapsTo(f, s, B)
<1>1. Len(s) \in Nat /\ DOMAIN s = 1 .. Len(s) /\ \A i \in 1 .. Len(s) : s[i] \in A
  OBVIOUS
<1>2. \A i \in 1 .. Len(s) : f[s[i]] \in B
  BY <1>1 DEF IsMap
<1> QED BY <1>1, <1>2 DEF Mapped, MapsTo

LEMMA MappedBoth ==
  ASSUME NEW A, NEW B, NEW f, IsMap(f, A, B), NEW a \in Seq(A), NEW b \in Seq(A)
  PROVE  Mapped(f, a \o b) = Mapped(f, a) \o Mapped(f, b)
<1> DEFINE ab == a \o b
           fa == Mapped(f, a)
           fb == Mapped(f, b)
           fab == Mapped(f, ab)
           m == Len(a)
           n == Len(b)
<1>1. /\ ab \in Seq(A) /\ Len(ab) = m + n
      /\ \A k \in 1 .. m : ab[k] = a[k]
      /\ \A k \in 1 .. n : ab[m + k] = b[k]
  BY ConcatPlaces
<1>2. m \in Nat /\ n \in Nat
  OBVIOUS
<1> HIDE DEF ab
<1>m. \A s \in Seq(A) : MapsTo(f, s, B)
  BY MappedTyped
<1> HIDE DEF fa, fb, fab
<1>3. /\ fa \in Seq(B) /\ Len(fa) = m /\ \A i \in 1 .. m : fa[i] = f[a[i]]
      /\ fb \in Seq(B) /\ Len(fb) = n /\ \A i \in 1 .. n : fb[i] = f[b[i]]
  BY <1>m DEF fa, fb, MapsTo
<1>4. fab \in Seq(B) /\ Len(fab) = m + n /\ \A i \in 1 .. m + n : fab[i] = f[ab[i]]
  BY <1>1, <1>m DEF fab, MapsTo
<1> HIDE DEF m, n
<1> DEFINE both == fa \o fb
<1>5. /\ both \in Seq(B) /\ Len(both) = m + n
      /\ \A k \in 1 .. m : both[k] = fa[k]
      /\ \A k \in 1 .. n : both[m + k] = fb[k]
  <2>1. fa \in Seq(B) /\ fb \in Seq(B)
    BY <1>3
  <2>2. /\ fa \o fb \in Seq(B) /\ Len(fa \o fb) = Len(fa) + Len(fb)
        /\ \A k \in 1 .. Len(fa) : (fa \o fb)[k] = fa[k]
        /\ \A k \in 1 .. Len(fb) : (fa \o fb)[Len(fa) + k] = fb[k]
    BY <2>1, ConcatPlaces
  <2> QED BY <1>3, <2>2
<1> HIDE DEF both
<1>6. \A i \in 1 .. m + n : fab[i] = both[i]
  <2> SUFFICES ASSUME NEW i \in 1 .. m + n PROVE fab[i] = both[i]
    OBVIOUS
  <2>1. CASE i <= m
    <3>1. i \in 1 .. m
      BY <1>2, <2>1
    <3>2. fab[i] = f[ab[i]]
      BY <1>4
    <3>3. ab[i] = a[i] /\ both[i] = fa[i] /\ fa[i] = f[a[i]]
      BY <1>1, <1>3, <1>5, <3>1
    <3> QED BY <3>2, <3>3
  <2>2. CASE ~(i <= m)
    <3> DEFINE k == i - m
    <3>1. k \in 1 .. n /\ i = m + k
      BY <1>2, <2>2
    <3> HIDE DEF k
    <3>2. fab[i] = f[ab[i]]
      BY <1>4
    <3>3. ab[i] = b[k] /\ both[i] = fb[k]
      BY <1>1, <1>5, <3>1
    <3>4. fb[k] = f[b[k]]
      BY <1>3, <3>1
    <3> QED BY <3>2, <3>3, <3>4
  <2> QED BY <2>1, <2>2
<1>7. fab = both
  BY <1>4, <1>5, <1>6, SeqEqual
<1> QED BY <1>7 DEF fab, both, fa, fb, ab

LEMMA MappedOne ==
  ASSUME NEW f, NEW e
  PROVE  Mapped(f, <<e>>) = <<f[e]>>
BY DEF Mapped

LEMMA MappedNothing ==
  ASSUME NEW f
  PROVE  Mapped(f, <<>>) = <<>>
BY DEF Mapped

TurnOf == [item \in ItemType |-> IF IsMessage(item) THEN <<Turn(item.role, item.text)>> ELSE <<>>]

TokensIn == [turn \in TurnType |-> TokensOf(turn.text)]

LEMMA TurnOfTyped == IsMap(TurnOf, ItemType, Seq(TurnType))
<1> SUFFICES ASSUME NEW item \in ItemType
             PROVE  (IF IsMessage(item) THEN <<Turn(item.role, item.text)>> ELSE <<>>) \in Seq(TurnType)
  BY DEF TurnOf, IsMap
<1>1. CASE IsMessage(item)
  <2>1. item \in MessageType
    BY <1>1 DEF IsMessage, ItemType, ReasoningType
  <2>2. Turn(item.role, item.text) \in TurnType
    BY <2>1 DEF MessageType, TurnType, Turn
  <2> QED BY <1>1, <2>2
<1>2. CASE ~IsMessage(item)
  BY <1>2
<1> QED BY <1>1, <1>2

LEMMA TokensInTyped == IsMap(TokensIn, TurnType, Nat)
<1> SUFFICES ASSUME NEW turn \in TurnType PROVE TokensOf(turn.text) \in Nat
  BY DEF TokensIn, IsMap
<1>1. turn.text \in Seq(Tokens)
  BY DEF TurnType, Texts
<1>2. Len(turn.text) \in Nat
  BY <1>1
<1> QED BY <1>2 DEF TokensOf

LEMMA TurnsInIs ==
  ASSUME NEW input \in Seq(ItemType)
  PROVE  TurnsIn(input) = FlattenSeq(Mapped(TurnOf, input)) /\ Mapped(TurnOf, input) \in Seq(Seq(TurnType))
<1>1. \A i \in DOMAIN input : input[i] \in ItemType
  OBVIOUS
<1>2. \A i \in DOMAIN input :
        TurnOf[input[i]] = IF IsMessage(input[i]) THEN <<Turn(input[i].role, input[i].text)>> ELSE <<>>
  BY <1>1 DEF TurnOf
<1>3. Mapped(TurnOf, input)
        = [i \in DOMAIN input |-> IF IsMessage(input[i]) THEN <<Turn(input[i].role, input[i].text)>> ELSE <<>>]
  BY <1>2 DEF Mapped
<1>4. Mapped(TurnOf, input) \in Seq(Seq(TurnType))
  <2> DEFINE B == Seq(TurnType)
  <2>1. IsMap(TurnOf, ItemType, B)
    BY TurnOfTyped
  <2> HIDE DEF B
  <2>2. Mapped(TurnOf, input) \in Seq(B)
    BY <2>1, MappedTyped DEF MapsTo
  <2> QED BY <2>2 DEF B
<1> QED BY <1>3, <1>4 DEF TurnsIn

LEMMA TurnsInTyped ==
  ASSUME NEW input \in Seq(ItemType)
  PROVE  TurnsIn(input) \in Seq(TurnType)
BY TurnsInIs, FlattenTyped

LEMMA TurnsInBoth ==
  ASSUME NEW a \in Seq(ItemType), NEW b \in Seq(ItemType)
  PROVE  TurnsIn(a \o b) = TurnsIn(a) \o TurnsIn(b)
<1> DEFINE ab == a \o b
           B == Seq(TurnType)
<1>1. ab \in Seq(ItemType)
  OBVIOUS
<1>2. IsMap(TurnOf, ItemType, B)
  BY TurnOfTyped
<1> HIDE DEF B
<1>3. Mapped(TurnOf, a \o b) = Mapped(TurnOf, a) \o Mapped(TurnOf, b)
  BY <1>2, MappedBoth
<1> HIDE DEF ab
<1>4. TurnsIn(ab) = FlattenSeq(Mapped(TurnOf, ab))
  BY <1>1, TurnsInIs
<1>5. /\ TurnsIn(a) = FlattenSeq(Mapped(TurnOf, a)) /\ Mapped(TurnOf, a) \in Seq(Seq(TurnType))
      /\ TurnsIn(b) = FlattenSeq(Mapped(TurnOf, b)) /\ Mapped(TurnOf, b) \in Seq(Seq(TurnType))
  BY TurnsInIs
<1>6. FlattenSeq(Mapped(TurnOf, a) \o Mapped(TurnOf, b))
        = FlattenSeq(Mapped(TurnOf, a)) \o FlattenSeq(Mapped(TurnOf, b))
  BY <1>5, FlattenBoth
<1> QED BY <1>3, <1>4, <1>5, <1>6 DEF ab

LEMMA TurnsInOne ==
  ASSUME NEW item \in ItemType
  PROVE  TurnsIn(<<item>>)
           = IF IsMessage(item) THEN <<Turn(item.role, item.text)>> ELSE <<>>
<1> DEFINE turns == IF IsMessage(item) THEN <<Turn(item.role, item.text)>> ELSE <<>>
<1>1. <<item>> \in Seq(ItemType)
  OBVIOUS
<1>2. TurnsIn(<<item>>) = FlattenSeq(Mapped(TurnOf, <<item>>))
  BY <1>1, TurnsInIs
<1>3. Mapped(TurnOf, <<item>>) = <<TurnOf[item]>> /\ TurnOf[item] = turns
  BY MappedOne DEF TurnOf
<1>4. turns \in Seq(TurnType)
  <2>1. TurnOf[item] \in Seq(TurnType)
    BY TurnOfTyped DEF IsMap
  <2> QED BY <1>3, <2>1
<1> HIDE DEF turns
<1>5. FlattenSeq(<<turns>>) = turns
  BY <1>4, FlattenOne
<1> QED BY <1>2, <1>3, <1>5 DEF turns

LEMMA TurnsInNothing == TurnsIn(<<>>) = <<>>
<1>1. <<>> \in Seq(ItemType)
  OBVIOUS
<1> QED BY <1>1, TurnsInIs, MappedNothing, FlattenNothing

\* Turns as they come out of messages say the same, and are matched the same.
PlainTurn == [turn \in TurnType |-> Turn(turn.role, turn.text)]

LEMMA PlainTurnTyped == IsMap(PlainTurn, TurnType, TurnType)
<1> SUFFICES ASSUME NEW turn \in TurnType PROVE Turn(turn.role, turn.text) \in TurnType
  BY DEF PlainTurn, IsMap
<1> QED BY DEF Turn, TurnType

LEMMA SentBackIs ==
  ASSUME NEW turns \in Seq(TurnType)
  PROVE  SentBack(turns) = Mapped(PlainTurn, turns)
<1>1. \A i \in DOMAIN turns : turns[i] \in TurnType
  OBVIOUS
<1>2. \A i \in DOMAIN turns : PlainTurn[turns[i]] = Turn(turns[i].role, turns[i].text)
  BY <1>1 DEF PlainTurn
<1> QED BY <1>2 DEF Mapped, SentBack

LEMMA SentBackTyped ==
  ASSUME NEW turns \in Seq(TurnType)
  PROVE  SentBack(turns) \in Seq(TurnType)
BY SentBackIs, PlainTurnTyped, MappedTyped DEF MapsTo

LEMMA SentBackBoth ==
  ASSUME NEW a \in Seq(TurnType), NEW b \in Seq(TurnType)
  PROVE  SentBack(a \o b) = SentBack(a) \o SentBack(b)
<1> DEFINE ab == a \o b
<1>1. ab \in Seq(TurnType)
  OBVIOUS
<1>2. Mapped(PlainTurn, a \o b) = Mapped(PlainTurn, a) \o Mapped(PlainTurn, b)
  BY PlainTurnTyped, MappedBoth
<1> HIDE DEF ab
<1>3. SentBack(ab) = Mapped(PlainTurn, ab)
  BY <1>1, SentBackIs
<1>4. SentBack(a) = Mapped(PlainTurn, a) /\ SentBack(b) = Mapped(PlainTurn, b)
  BY SentBackIs
<1> QED BY <1>2, <1>3, <1>4 DEF ab

LEMMA SentBackOne ==
  ASSUME NEW turn \in TurnType
  PROVE  /\ SentBack(<<turn>>) = <<Turn(turn.role, turn.text)>>
         /\ Turn(turn.role, turn.text) \in TurnType
<1>1. <<turn>> \in Seq(TurnType)
  OBVIOUS
<1>2. SentBack(<<turn>>) = <<PlainTurn[turn]>>
  BY <1>1, SentBackIs, MappedOne
<1> QED BY <1>2, PlainTurnTyped DEF PlainTurn, IsMap

LEMMA SentBackPlain ==
  ASSUME NEW role, NEW text, Turn(role, text) \in TurnType
  PROVE  SentBack(<<Turn(role, text)>>) = <<Turn(role, text)>>
<1> DEFINE turn == Turn(role, text)
<1>1. Turn(turn.role, turn.text) = turn
  BY DEF Turn
<1> HIDE DEF turn
<1>2. turn \in TurnType
  BY DEF turn
<1> QED BY <1>1, <1>2, SentBackOne DEF turn

LEMMA SentBackMatches ==
  ASSUME NEW turns \in Seq(TurnType)
  PROVE  MatchTurns(SentBack(turns)) = MatchTurns(turns)
<1>1. DOMAIN SentBack(turns) = DOMAIN turns
  BY DEF SentBack
<1>2. \A i \in DOMAIN turns :
        SentBack(turns)[i].role = turns[i].role /\ SentBack(turns)[i].text = turns[i].text
  BY DEF SentBack, Turn
<1> QED BY <1>1, <1>2 DEF MatchTurns

LEMMA InputTokensIs ==
  ASSUME NEW turns \in Seq(TurnType)
  PROVE  InputTokens(turns) = SumOf(Mapped(TokensIn, turns)) /\ Mapped(TokensIn, turns) \in Seq(Nat)
<1>1. \A i \in DOMAIN turns : turns[i] \in TurnType
  OBVIOUS
<1>2. \A i \in DOMAIN turns : TokensIn[turns[i]] = TokensOf(turns[i].text)
  BY <1>1 DEF TokensIn
<1>3. Mapped(TokensIn, turns) = [i \in DOMAIN turns |-> TokensOf(turns[i].text)]
  BY <1>2 DEF Mapped
<1>4. Mapped(TokensIn, turns) \in Seq(Nat)
  BY TokensInTyped, MappedTyped DEF MapsTo
<1> QED BY <1>3, <1>4 DEF InputTokens

LEMMA InputTokensTyped ==
  ASSUME NEW turns \in Seq(TurnType)
  PROVE  InputTokens(turns) \in Nat
BY InputTokensIs, SumOfIsNat

LEMMA InputTokensBoth ==
  ASSUME NEW a \in Seq(TurnType), NEW b \in Seq(TurnType)
  PROVE  InputTokens(a \o b) = InputTokens(a) + InputTokens(b)
<1> DEFINE ab == a \o b
<1>1. ab \in Seq(TurnType)
  OBVIOUS
<1>2. Mapped(TokensIn, a \o b) = Mapped(TokensIn, a) \o Mapped(TokensIn, b)
  BY TokensInTyped, MappedBoth
<1> HIDE DEF ab
<1>3. InputTokens(ab) = SumOf(Mapped(TokensIn, ab))
  BY <1>1, InputTokensIs
<1>4. /\ InputTokens(a) = SumOf(Mapped(TokensIn, a)) /\ Mapped(TokensIn, a) \in Seq(Nat)
      /\ InputTokens(b) = SumOf(Mapped(TokensIn, b)) /\ Mapped(TokensIn, b) \in Seq(Nat)
  BY InputTokensIs
<1>5. SumOf(Mapped(TokensIn, a) \o Mapped(TokensIn, b))
        = SumOf(Mapped(TokensIn, a)) + SumOf(Mapped(TokensIn, b))
  BY <1>4, SumOfBoth
<1> QED BY <1>2, <1>3, <1>4, <1>5 DEF ab

LEMMA InputTokensOne ==
  ASSUME NEW turn \in TurnType
  PROVE  InputTokens(<<turn>>) = TokensOf(turn.text)
<1>1. <<turn>> \in Seq(TurnType)
  OBVIOUS
<1>2. InputTokens(<<turn>>) = SumOf(Mapped(TokensIn, <<turn>>))
  BY <1>1, InputTokensIs
<1>3. Mapped(TokensIn, <<turn>>) = <<TokensIn[turn]>> /\ TokensIn[turn] = TokensOf(turn.text)
  BY MappedOne DEF TokensIn
<1>4. TokensIn[turn] \in Nat
  BY TokensInTyped DEF IsMap
<1>5. SumOf(<<TokensIn[turn]>>) = TokensIn[turn]
  BY <1>4, SumOfOne
<1> QED BY <1>2, <1>3, <1>5

LEMMA InputTokensNothing == InputTokens(<<>>) = 0
<1>1. <<>> \in Seq(TurnType)
  OBVIOUS
<1> QED BY <1>1, InputTokensIs, MappedNothing, SumOfNothing

(***************************************************************************)
(* What a conversation keeps.                                              *)
(***************************************************************************)
KeptType == [turn : TurnType \cup {None}, reasoning : Nat]

TurnsKept(list) ==
  FlattenSeq([i \in DOMAIN list |-> IF list[i].turn = None THEN <<>> ELSE <<list[i].turn>>])

ReasoningKept(list) == SumOf([i \in DOMAIN list |-> list[i].reasoning])

KeptTurn == [kept \in KeptType |-> IF kept.turn = None THEN <<>> ELSE <<kept.turn>>]

KeptReasoning == [kept \in KeptType |-> kept.reasoning]

LEMMA KeptTurnTyped == IsMap(KeptTurn, KeptType, Seq(TurnType))
<1> SUFFICES ASSUME NEW kept \in KeptType
             PROVE  (IF kept.turn = None THEN <<>> ELSE <<kept.turn>>) \in Seq(TurnType)
  BY DEF KeptTurn, IsMap
<1>1. kept.turn # None => kept.turn \in TurnType
  BY DEF KeptType
<1> QED BY <1>1

LEMMA KeptReasoningTyped == IsMap(KeptReasoning, KeptType, Nat)
<1>1. \A kept \in KeptType : kept.reasoning \in Nat
  BY DEF KeptType
<1> QED BY <1>1 DEF KeptReasoning, IsMap

LEMMA TurnsKeptIs ==
  ASSUME NEW list \in Seq(KeptType)
  PROVE  TurnsKept(list) = FlattenSeq(Mapped(KeptTurn, list))
         /\ Mapped(KeptTurn, list) \in Seq(Seq(TurnType))
<1>1. \A i \in DOMAIN list : list[i] \in KeptType
  OBVIOUS
<1>2. \A i \in DOMAIN list :
        KeptTurn[list[i]] = IF list[i].turn = None THEN <<>> ELSE <<list[i].turn>>
  BY <1>1 DEF KeptTurn
<1>3. Mapped(KeptTurn, list)
        = [i \in DOMAIN list |-> IF list[i].turn = None THEN <<>> ELSE <<list[i].turn>>]
  BY <1>2 DEF Mapped
<1>4. Mapped(KeptTurn, list) \in Seq(Seq(TurnType))
  <2> DEFINE B == Seq(TurnType)
  <2>1. IsMap(KeptTurn, KeptType, B)
    BY KeptTurnTyped
  <2> HIDE DEF B
  <2>2. Mapped(KeptTurn, list) \in Seq(B)
    BY <2>1, MappedTyped DEF MapsTo
  <2> QED BY <2>2 DEF B
<1> QED BY <1>3, <1>4 DEF TurnsKept

LEMMA TurnsKeptTyped ==
  ASSUME NEW list \in Seq(KeptType)
  PROVE  TurnsKept(list) \in Seq(TurnType)
BY TurnsKeptIs, FlattenTyped

LEMMA TurnsKeptBoth ==
  ASSUME NEW a \in Seq(KeptType), NEW b \in Seq(KeptType)
  PROVE  TurnsKept(a \o b) = TurnsKept(a) \o TurnsKept(b)
<1> DEFINE ab == a \o b
           B == Seq(TurnType)
<1>1. ab \in Seq(KeptType)
  OBVIOUS
<1>2. IsMap(KeptTurn, KeptType, B)
  BY KeptTurnTyped
<1> HIDE DEF B
<1>3. Mapped(KeptTurn, a \o b) = Mapped(KeptTurn, a) \o Mapped(KeptTurn, b)
  BY <1>2, MappedBoth
<1> HIDE DEF ab
<1>4. TurnsKept(ab) = FlattenSeq(Mapped(KeptTurn, ab))
  BY <1>1, TurnsKeptIs
<1>5. /\ TurnsKept(a) = FlattenSeq(Mapped(KeptTurn, a)) /\ Mapped(KeptTurn, a) \in Seq(Seq(TurnType))
      /\ TurnsKept(b) = FlattenSeq(Mapped(KeptTurn, b)) /\ Mapped(KeptTurn, b) \in Seq(Seq(TurnType))
  BY TurnsKeptIs
<1>6. FlattenSeq(Mapped(KeptTurn, a) \o Mapped(KeptTurn, b))
        = FlattenSeq(Mapped(KeptTurn, a)) \o FlattenSeq(Mapped(KeptTurn, b))
  BY <1>5, FlattenBoth
<1> QED BY <1>3, <1>4, <1>5, <1>6 DEF ab

LEMMA TurnsKeptOne ==
  ASSUME NEW kept \in KeptType
  PROVE  TurnsKept(<<kept>>) = IF kept.turn = None THEN <<>> ELSE <<kept.turn>>
<1> DEFINE turns == IF kept.turn = None THEN <<>> ELSE <<kept.turn>>
<1>1. <<kept>> \in Seq(KeptType)
  OBVIOUS
<1>2. TurnsKept(<<kept>>) = FlattenSeq(Mapped(KeptTurn, <<kept>>))
  BY <1>1, TurnsKeptIs
<1>3. Mapped(KeptTurn, <<kept>>) = <<KeptTurn[kept]>> /\ KeptTurn[kept] = turns
  BY MappedOne DEF KeptTurn
<1>4. turns \in Seq(TurnType)
  <2>1. KeptTurn[kept] \in Seq(TurnType)
    BY KeptTurnTyped DEF IsMap
  <2> QED BY <1>3, <2>1
<1> HIDE DEF turns
<1>5. FlattenSeq(<<turns>>) = turns
  BY <1>4, FlattenOne
<1> QED BY <1>2, <1>3, <1>5 DEF turns

LEMMA TurnsKeptNothing == TurnsKept(<<>>) = <<>>
<1>1. <<>> \in Seq(KeptType)
  OBVIOUS
<1> QED BY <1>1, TurnsKeptIs, MappedNothing, FlattenNothing

LEMMA ReasoningKeptIs ==
  ASSUME NEW list \in Seq(KeptType)
  PROVE  ReasoningKept(list) = SumOf(Mapped(KeptReasoning, list))
         /\ Mapped(KeptReasoning, list) \in Seq(Nat)
<1>1. \A i \in DOMAIN list : list[i] \in KeptType
  OBVIOUS
<1>2. \A i \in DOMAIN list : KeptReasoning[list[i]] = list[i].reasoning
  BY <1>1 DEF KeptReasoning
<1>3. Mapped(KeptReasoning, list) = [i \in DOMAIN list |-> list[i].reasoning]
  BY <1>2 DEF Mapped
<1>4. Mapped(KeptReasoning, list) \in Seq(Nat)
  BY KeptReasoningTyped, MappedTyped DEF MapsTo
<1> QED BY <1>3, <1>4 DEF ReasoningKept

LEMMA ReasoningKeptTyped ==
  ASSUME NEW list \in Seq(KeptType)
  PROVE  ReasoningKept(list) \in Nat
BY ReasoningKeptIs, SumOfIsNat

LEMMA ReasoningKeptBoth ==
  ASSUME NEW a \in Seq(KeptType), NEW b \in Seq(KeptType)
  PROVE  ReasoningKept(a \o b) = ReasoningKept(a) + ReasoningKept(b)
<1> DEFINE ab == a \o b
<1>1. ab \in Seq(KeptType)
  OBVIOUS
<1>2. Mapped(KeptReasoning, a \o b) = Mapped(KeptReasoning, a) \o Mapped(KeptReasoning, b)
  BY KeptReasoningTyped, MappedBoth
<1> HIDE DEF ab
<1>3. ReasoningKept(ab) = SumOf(Mapped(KeptReasoning, ab))
  BY <1>1, ReasoningKeptIs
<1>4. /\ ReasoningKept(a) = SumOf(Mapped(KeptReasoning, a)) /\ Mapped(KeptReasoning, a) \in Seq(Nat)
      /\ ReasoningKept(b) = SumOf(Mapped(KeptReasoning, b)) /\ Mapped(KeptReasoning, b) \in Seq(Nat)
  BY ReasoningKeptIs
<1>5. SumOf(Mapped(KeptReasoning, a) \o Mapped(KeptReasoning, b))
        = SumOf(Mapped(KeptReasoning, a)) + SumOf(Mapped(KeptReasoning, b))
  BY <1>4, SumOfBoth
<1> QED BY <1>2, <1>3, <1>4, <1>5 DEF ab

LEMMA ReasoningKeptOne ==
  ASSUME NEW kept \in KeptType
  PROVE  ReasoningKept(<<kept>>) = kept.reasoning
<1>1. <<kept>> \in Seq(KeptType)
  OBVIOUS
<1>2. ReasoningKept(<<kept>>) = SumOf(Mapped(KeptReasoning, <<kept>>))
  BY <1>1, ReasoningKeptIs
<1>3. Mapped(KeptReasoning, <<kept>>) = <<KeptReasoning[kept]>> /\ KeptReasoning[kept] = kept.reasoning
  BY MappedOne DEF KeptReasoning
<1>4. KeptReasoning[kept] \in Nat
  BY KeptReasoningTyped DEF IsMap
<1>5. SumOf(<<KeptReasoning[kept]>>) = KeptReasoning[kept]
  BY <1>4, SumOfOne
<1> QED BY <1>2, <1>3, <1>5

LEMMA ReasoningKeptNothing == ReasoningKept(<<>>) = 0
<1>1. <<>> \in Seq(KeptType)
  OBVIOUS
<1> QED BY <1>1, ReasoningKeptIs, MappedNothing, SumOfNothing

(***************************************************************************)
(* Types of what is rendered.                                              *)
(***************************************************************************)
LEMMA ReasoningPartTyped ==
  ASSUME NEW plan \in Plans, NEW budget, BudgetShaped(plan, budget),
         NEW digest \in Digests, NEW setting, NEW status
  PROVE  ReasoningPart(setting, digest, status, budget) \in Seq(ReasoningType)
<1>1. CASE budget.reasoning = None
  BY <1>1 DEF ReasoningPart
<1>2. CASE budget.reasoning # None
  <2> DEFINE summary == IF setting.summary THEN budget.reasoning.summary ELSE None
             encrypted == IF budget.reasoning.encrypted = None THEN Id("enc", digest)
                          ELSE budget.reasoning.encrypted
             item == ReasoningItem(digest, ItemStatus(status), summary, encrypted)
  <2>1. summary \in Texts \cup {None}
    BY <1>2 DEF BudgetShaped
  <2>2. encrypted \in Ciphers
    <3>1. CASE budget.reasoning.encrypted = None
      BY <3>1 DEF Ciphers, Id
    <3>2. CASE budget.reasoning.encrypted # None
      <4>1. plan.reasoning # None /\ encrypted = plan.reasoning.encrypted
        BY <1>2, <3>2 DEF BudgetShaped
      <4>2. plan.reasoning.encrypted \in {p.reasoning.encrypted : p \in {q \in Plans : q.reasoning # None}}
        BY <4>1
      <4> HIDE DEF encrypted
      <4> QED BY <4>1, <4>2 DEF Ciphers
    <3> QED BY <3>1, <3>2
  <2>3. ItemStatus(status) \in {"completed", "incomplete"}
    BY DEF ItemStatus
  <2> HIDE DEF summary, encrypted
  <2>4. item \in ReasoningType
    BY <2>1, <2>2, <2>3 DEF ReasoningItem, ReasoningType, Id
  <2> HIDE DEF item
  <2>5. ReasoningPart(setting, digest, status, budget) = <<item>>
    BY <1>2 DEF ReasoningPart, item, summary, encrypted
  <2> QED BY <2>4, <2>5
<1> QED BY <1>1, <1>2

LEMMA MessagePartTyped ==
  ASSUME NEW plan \in Plans, NEW budget, BudgetShaped(plan, budget),
         NEW digest \in Digests, NEW status
  PROVE  MessagePart(digest, status, budget) \in Seq(MessageType)
<1>1. CASE budget.visible = None
  BY <1>1 DEF MessagePart
<1>2. CASE budget.visible # None
  <2> DEFINE item == OutputMessage(digest, ItemStatus(status), budget.visible)
  <2>1. budget.visible.kind \in OutputKinds /\ budget.visible.text \in Texts
    BY <1>2 DEF BudgetShaped, VisibleType
  <2>2. ItemStatus(status) \in {"completed", "incomplete"}
    BY DEF ItemStatus
  <2>3. item \in MessageType
    BY <2>1, <2>2 DEF OutputMessage, MessageType, Id
  <2> HIDE DEF item
  <2>4. MessagePart(digest, status, budget) = <<item>>
    BY <1>2 DEF MessagePart, item
  <2> QED BY <2>3, <2>4
<1> QED BY <1>1, <1>2

LEMMA OutputIsParts ==
  ASSUME NEW setting, NEW budget, NEW digest, NEW status
  PROVE  OutputItems(setting, budget, digest, status)
           = ReasoningPart(setting, digest, status, budget) \o MessagePart(digest, status, budget)
BY DEF OutputItems, ReasoningPart, MessagePart

LEMMA OutputTyped ==
  ASSUME NEW plan \in Plans, NEW budget, BudgetShaped(plan, budget),
         NEW digest \in Digests, NEW setting, NEW status
  PROVE  OutputItems(setting, budget, digest, status) \in Seq(ItemType)
<1> DEFINE r == ReasoningPart(setting, digest, status, budget)
           m == MessagePart(digest, status, budget)
<1>1. r \in Seq(ReasoningType) /\ m \in Seq(MessageType)
  BY ReasoningPartTyped, MessagePartTyped
<1>2. OutputItems(setting, budget, digest, status) = r \o m
  BY OutputIsParts
<1> HIDE DEF r, m
<1>3. r \in Seq(ItemType) /\ m \in Seq(ItemType)
  BY <1>1 DEF ItemType
<1>4. r \o m \in Seq(ItemType)
  BY <1>3
<1> QED BY <1>2, <1>4

(***************************************************************************)
(* One round.                                                              *)
(***************************************************************************)
AnswerOf(w, words, setting, plans) == Answer(w, Request(w, words, setting), plans[w])

PlannedAlike(words, setting, plans) ==
  \A w, v \in Ways :
    MatchTurns(Turns(w, Request(w, words, setting)))
      = MatchTurns(Turns(v, Request(v, words, setting)))
    => plans[w] = plans[v]

LEMMA AskIs ==
  ASSUME NEW words \in Words, NEW setting \in Settings, Ask(words, setting)
  PROVE  /\ round' = round + 1
         /\ \E plans \in [Ways -> Plans] :
              /\ PlannedAlike(words, setting, plans)
              /\ answers' = [w \in Ways |-> Append(answers[w], AnswerOf(w, words, setting, plans))]
              /\ stored' = Saved(Request("link", words, setting),
                                 AnswerOf("link", words, setting, plans))
              /\ items' = items \o Appended(Request("conversation", words, setting),
                                            AnswerOf("conversation", words, setting, plans))
              /\ transcript' = transcript \o Kept(words, AnswerOf("replay", words, setting, plans))
<1> DEFINE request == [w \in Ways |-> Request(w, words, setting)]
           Alike(plans) ==
             \A w, v \in Ways :
               MatchTurns(Turns(w, request[w])) = MatchTurns(Turns(v, request[v]))
               => plans[w] = plans[v]
           answer(plans) == [w \in Ways |-> Answer(w, request[w], plans[w])]
<1>1. round' = round + 1
  BY DEF Ask
<1>2. PICK plans \in {p \in [Ways -> Plans] : Alike(p)} :
        /\ answers' = [w \in Ways |-> Append(answers[w], answer(plans)[w])]
        /\ stored' = Saved(request["link"], answer(plans)["link"])
        /\ items' = items \o Appended(request["conversation"], answer(plans)["conversation"])
        /\ transcript' = transcript \o Kept(words, answer(plans)["replay"])
  BY DEF Ask
<1>3. \A w \in Ways : request[w] = Request(w, words, setting)
  OBVIOUS
<1>4. \A w \in Ways : answer(plans)[w] = AnswerOf(w, words, setting, plans)
  BY <1>3 DEF AnswerOf
<1>5. "link" \in Ways /\ "conversation" \in Ways /\ "replay" \in Ways
  BY DEF Ways
<1>6. PlannedAlike(words, setting, plans)
  <2>1. Alike(plans)
    BY <1>2
  <2> HIDE DEF answer
  <2> QED BY <1>3, <2>1 DEF PlannedAlike
<1>7. plans \in [Ways -> Plans]
  BY <1>2
<1>8. answers' = [w \in Ways |-> Append(answers[w], AnswerOf(w, words, setting, plans))]
  <2>1. answers' = [w \in Ways |-> Append(answers[w], answer(plans)[w])]
    BY <1>2
  <2> HIDE DEF request, answer
  <2> QED BY <1>4, <2>1
<1>9. /\ stored' = Saved(Request("link", words, setting), AnswerOf("link", words, setting, plans))
      /\ items' = items \o Appended(Request("conversation", words, setting),
                                    AnswerOf("conversation", words, setting, plans))
      /\ transcript' = transcript \o Kept(words, AnswerOf("replay", words, setting, plans))
  <2>1. /\ stored' = Saved(request["link"], answer(plans)["link"])
        /\ items' = items \o Appended(request["conversation"], answer(plans)["conversation"])
        /\ transcript' = transcript \o Kept(words, answer(plans)["replay"])
    BY <1>2
  <2> HIDE DEF request, answer
  <2> QED BY <1>3, <1>4, <1>5, <2>1
<1> HIDE DEF request, answer, Alike
<1> QED BY <1>1, <1>6, <1>7, <1>8, <1>9

\* The request of a way.
LEMMA RequestShape ==
  ASSUME TypeOK, NEW w \in Ways, NEW words \in Words, NEW setting \in Settings
  PROVE  LET request == Request(w, words, setting)
         IN  /\ request.input \in Seq(ItemType)
             /\ w # "replay" => request.input = <<InputMessage("user", words)>>
             /\ w = "replay" =>
                  request.input = FlattenSeq(transcript) \o <<InputMessage("user", words)>>
             /\ request.instructions = setting.instructions
             /\ request.summary = setting.summary /\ request.cap = setting.cap
             /\ InputMessage("user", words) \in MessageType
             /\ words \in Texts
<1> DEFINE request == Request(w, words, setting)
           said == InputMessage("user", words)
<1>1. words \in Texts
  BY WordsAssumption
<1>2. said \in MessageType
  BY <1>1 DEF InputMessage, MessageType
<1>3. said \in ItemType
  BY <1>2 DEF ItemType
<1>4. /\ request.input = (IF w = "replay" THEN FlattenSeq(transcript) ELSE <<>>) \o <<said>>
      /\ request.instructions = setting.instructions
      /\ request.summary = setting.summary /\ request.cap = setting.cap
  BY DEF Request
<1>5. FlattenSeq(transcript) \in Seq(ItemType)
  BY FlattenTyped DEF TypeOK
<1> HIDE DEF said, request
<1>6. <<said>> \in Seq(ItemType) /\ <<>> \o <<said>> = <<said>>
  BY <1>3
<1>7. w # "replay" => request.input = <<said>>
  BY <1>4, <1>6
<1>8. w = "replay" => request.input = FlattenSeq(transcript) \o <<said>>
  BY <1>4
<1>9. request.input \in Seq(ItemType)
  <2> DEFINE earlier == FlattenSeq(transcript)
             one == <<said>>
  <2>1. earlier \in Seq(ItemType) /\ one \in Seq(ItemType)
    BY <1>5, <1>6
  <2>2. request.input = one \/ request.input = earlier \o one
    BY <1>7, <1>8
  <2> HIDE DEF earlier, one
  <2>3. earlier \o one \in Seq(ItemType)
    BY <2>1
  <2> QED BY <2>1, <2>2, <2>3
<1> QED BY <1>1, <1>2, <1>4, <1>7, <1>8, <1>9 DEF said, request

LEMMA CanonicalTyped ==
  ASSUME NEW request, request.input \in Seq(ItemType),
         request.instructions = None \/ request.instructions \in Texts
  PROVE  CanonicalTurns(request) \in Seq(TurnType)
<1> DEFINE head == IF request.instructions = None THEN <<>>
                   ELSE <<Turn("developer", request.instructions)>>
<1>1. head \in Seq(TurnType)
  <2>1. CASE request.instructions = None
    BY <2>1
  <2>2. CASE request.instructions # None
    <3>1. Turn("developer", request.instructions) \in TurnType
      BY <2>2 DEF Turn, TurnType
    <3> QED BY <2>2, <3>1
  <2> QED BY <2>1, <2>2
<1>2. TurnsIn(request.input) \in Seq(TurnType)
  BY TurnsInTyped
<1> HIDE DEF head
<1>3. head \o TurnsIn(request.input) \in Seq(TurnType)
  BY <1>1, <1>2
<1> QED BY <1>3 DEF CanonicalTurns, head

LEMMA EarlierTyped ==
  ASSUME TypeOK, NEW w \in Ways
  PROVE  EarlierTurns(w) \in Seq(TurnType) /\ PriorTokens(w) \in Nat
         /\ ItemTurns = TurnsKept(items) /\ items \in Seq(KeptType)
         /\ PriorTokens("conversation") = InputTokens(TurnsKept(items)) + ReasoningKept(items)
<1>1. items \in Seq(KeptType)
  BY DEF TypeOK, KeptType
<1>2. ItemTurns = TurnsKept(items)
  BY DEF ItemTurns, TurnsKept
<1>3. TurnsKept(items) \in Seq(TurnType) /\ ReasoningKept(items) \in Nat
  BY <1>1, TurnsKeptTyped, ReasoningKeptTyped
<1>4. InputTokens(TurnsKept(items)) \in Nat
  BY <1>3, InputTokensTyped
<1>5. PriorTokens("conversation") = InputTokens(TurnsKept(items)) + ReasoningKept(items)
  BY <1>2 DEF PriorTokens, ReasoningKept
<1>6. stored # None => stored.turns \in Seq(TurnType) /\ stored.response.total \in Nat
  BY DEF TypeOK, StoredType, ResponseType
<1>7. EarlierTurns(w) \in Seq(TurnType)
  <2>1. <<>> \in Seq(TurnType)
    OBVIOUS
  <2> QED BY <1>2, <1>3, <1>6, <2>1 DEF EarlierTurns, Ways
<1>8. PriorTokens(w) \in Nat
  <2>1. w = "conversation" \/ PriorTokens(w) \in {0, stored.response.total}
    BY DEF PriorTokens, Ways
  <2>2. w # "conversation" => PriorTokens(w) = 0 \/ (stored # None /\ PriorTokens(w) = stored.response.total)
    BY DEF PriorTokens, Ways
  <2> QED BY <1>3, <1>4, <1>5, <1>6, <2>1, <2>2
<1> QED BY <1>1, <1>2, <1>5, <1>7, <1>8

LEMMA RenderTyped ==
  ASSUME NEW request, NEW plan \in Plans, NEW digest \in Digests, NEW prior \in Nat,
         request.input \in Seq(ItemType),
         request.instructions = None \/ request.instructions \in Texts,
         request.cap = None \/ request.cap \in Nat,
         ~CutPanics(plan, request.cap)
  PROVE  LET response == Render(request, plan, digest, prior)
             budget == BudgetOutputs(plan, request.cap)
             status == ResponseStatus(plan, budget)
         IN  /\ response \in ResponseType
             /\ response.status = status
             /\ response.items = OutputItems(request, budget, digest, status)
             /\ response.reasoning = budget.tokens
             /\ response.output = budget.tokens + ShownLength(budget)
             /\ response.total = prior + InputTokens(CanonicalTurns(request))
                                   + (budget.tokens + ShownLength(budget))
<1> DEFINE response == Render(request, plan, digest, prior)
           budget == BudgetOutputs(plan, request.cap)
           status == ResponseStatus(plan, budget)
           input == prior + InputTokens(CanonicalTurns(request))
           output == budget.tokens + ShownLength(budget)
           listed == OutputItems(request, budget, digest, status)
<1>1. response = [id |-> Id("resp", digest), status |-> status, items |-> listed,
                  input |-> input, output |-> output, reasoning |-> budget.tokens,
                  total |-> input + output]
  BY DEF Render, ShownLength
<1>2. BudgetShaped(plan, budget)
  <2> DEFINE cap == request.cap
  <2>1. (cap = None \/ cap \in Nat) /\ ~CutPanics(plan, cap)
    OBVIOUS
  <2> HIDE DEF cap
  <2>2. BudgetShaped(plan, BudgetOutputs(plan, cap))
    BY <2>1, BudgetKeepsLimit
  <2> QED BY <2>2 DEF cap
<1>3. status \in Terminals
  <2>1. plan.terminal \in Terminals
    BY PlansAssumption
  <2> HIDE DEF budget
  <2> QED BY <2>1 DEF ResponseStatus, Terminals
<1> HIDE DEF budget
<1>4. listed \in Seq(ItemType)
  <2> HIDE DEF status
  <2> QED BY <1>2, OutputTyped
<1>5. CanonicalTurns(request) \in Seq(TurnType)
  BY CanonicalTyped
<1>6. InputTokens(CanonicalTurns(request)) \in Nat
  BY <1>5, InputTokensTyped
<1>7. budget.tokens \in Nat /\ ShownLength(budget) \in Nat
  BY <1>2 DEF BudgetShaped, ShownLength, Texts
<1>8. input \in Nat /\ output \in Nat /\ input + output \in Nat
  BY <1>6, <1>7
<1>9. Id("resp", digest) \in {"resp"} \X Digests
  BY DEF Id
<1> HIDE DEF status, listed, input, output
<1>10. response \in ResponseType
  BY <1>1, <1>3, <1>4, <1>7, <1>8, <1>9 DEF ResponseType
<1>11. /\ response.status = status /\ response.items = listed /\ response.reasoning = budget.tokens
       /\ response.output = output /\ response.total = input + output
  BY <1>1
<1> HIDE DEF response
<1> QED BY <1>10, <1>11 DEF response, listed, input, output, status, budget

\* What Answer gives, told without its LETs.
AnswerGiven(w, words, setting, plans, answer) ==
  LET request == Request(w, words, setting)
      budget == BudgetOutputs(plans[w], setting.cap)
  IN  /\ ValidRequest(request) /\ ~CutPanics(plans[w], setting.cap)
      /\ answer \in AnswerType
      /\ answer.plan = plans[w] /\ answer.cap = setting.cap
      /\ Renders(answer, Digest(w))
      /\ answer.response.total
           = PriorTokens(w) + InputTokens(CanonicalTurns(request))
               + (budget.tokens + ShownLength(budget))

LEMMA AnswerShape ==
  ASSUME TypeOK, NEW w \in Ways, NEW words \in Words, NEW setting \in Settings,
         NEW plans \in [Ways -> Plans]
  PROVE  LET answer == AnswerOf(w, words, setting, plans)
         IN  IF ValidRequest(Request(w, words, setting)) /\ ~CutPanics(plans[w], setting.cap)
             THEN answer # None /\ AnswerGiven(w, words, setting, plans, answer)
             ELSE answer = None
<1> DEFINE request == Request(w, words, setting)
           plan == plans[w]
           prior == PriorTokens(w)
           answer == AnswerOf(w, words, setting, plans)
           budget == BudgetOutputs(plan, setting.cap)
           status == ResponseStatus(plan, budget)
<1>1. /\ request.input \in Seq(ItemType) /\ request.instructions = setting.instructions
      /\ request.cap = setting.cap /\ request.summary = setting.summary
  BY RequestShape
<1>2. /\ setting.cap = None \/ setting.cap \in Nat
      /\ setting.instructions = None \/ setting.instructions \in Texts
  BY SettingsAssumption
<1>3. prior \in Nat /\ plan \in Plans
  BY EarlierTyped
<1>4. Digest(w) \in Digests
  BY DEF Digest, Digests, TypeOK
<1>5. answer = IF ValidRequest(request) /\ ~CutPanics(plan, request.cap)
               THEN [plan |-> plan, cap |-> request.cap,
                     response |-> Render(request, plan, Digest(w), prior)]
               ELSE None
  BY DEF AnswerOf, Answer
<1> HIDE DEF answer, prior, plan, request
<1>6. CASE ~(ValidRequest(request) /\ ~CutPanics(plan, setting.cap))
  <2>1. answer = None
    BY <1>1, <1>5, <1>6
  <2> QED BY <1>6, <2>1 DEF answer, request, plan
<1>7. CASE ValidRequest(request) /\ ~CutPanics(plan, setting.cap)
  <2> DEFINE response == Render(request, plan, Digest(w), prior)
  <2>1. answer = [plan |-> plan, cap |-> setting.cap, response |-> response]
    BY <1>1, <1>5, <1>7
  <2>2. /\ request.input \in Seq(ItemType)
        /\ request.instructions = None \/ request.instructions \in Texts
        /\ request.cap = None \/ request.cap \in Nat
        /\ ~CutPanics(plan, request.cap)
    BY <1>1, <1>2, <1>7
  <2>3. /\ response \in ResponseType
        /\ response.status = ResponseStatus(plan, BudgetOutputs(plan, request.cap))
        /\ response.items = OutputItems(request, BudgetOutputs(plan, request.cap), Digest(w),
                              ResponseStatus(plan, BudgetOutputs(plan, request.cap)))
        /\ response.reasoning = BudgetOutputs(plan, request.cap).tokens
        /\ response.output = BudgetOutputs(plan, request.cap).tokens + ShownLength(BudgetOutputs(plan, request.cap))
        /\ response.total = prior + InputTokens(CanonicalTurns(request))
                 + (BudgetOutputs(plan, request.cap).tokens + ShownLength(BudgetOutputs(plan, request.cap)))
    BY <1>3, <1>4, <2>2, RenderTyped
  <2> HIDE DEF response, budget, status
  <2>4. /\ response.status = status /\ response.items = OutputItems(request, budget, Digest(w), status)
        /\ response.reasoning = budget.tokens /\ response.output = budget.tokens + ShownLength(budget)
        /\ response.total = prior + InputTokens(CanonicalTurns(request)) + (budget.tokens + ShownLength(budget))
    BY <1>1, <2>3 DEF budget, status
  <2>5. OutputItems(request, budget, Digest(w), status) = OutputItems(setting, budget, Digest(w), status)
    BY <1>1 DEF OutputItems
  <2>6. /\ answer.plan = plan /\ answer.cap = setting.cap /\ answer.response = response
        /\ answer \in AnswerType
    BY <1>2, <1>3, <2>1, <2>3 DEF AnswerType
  <2>7. Renders(answer, Digest(w))
    <3>1. \E s \in Settings : response.items = OutputItems(s, budget, Digest(w), status)
      BY <2>4, <2>5
    <3>2. answer.plan \in Plans /\ (answer.cap = None \/ answer.cap \in Nat)
           /\ ~CutPanics(answer.plan, answer.cap)
      BY <1>2, <1>3, <1>7, <2>6
    <3>3. budget = BudgetOutputs(answer.plan, answer.cap)
      BY <2>6 DEF budget
    <3>4. status = ResponseStatus(answer.plan, budget)
      BY <2>6 DEF status
    <3> QED BY <2>4, <2>6, <3>1, <3>2, <3>3, <3>4 DEF Renders
  <2>8. AnswerGiven(w, words, setting, plans, answer)
    BY <1>7, <2>4, <2>6, <2>7 DEF AnswerGiven, request, plan, budget, prior
  <2>9. answer # None
    BY <2>6, NoneAssumption
  <2> QED BY <1>7, <2>8, <2>9 DEF answer, request, plan
<1> QED BY <1>6, <1>7

\* Every answer was rendered of its plan and limit, in the round it is listed.
Rendered ==
  \A w \in Ways :
    /\ Len(answers[w]) = round
    /\ \A i \in 1 .. round : answers[w][i] # None => Renders(answers[w][i], <<w, i>>)

DialogueInv == TypeOK /\ Rendered

LEMMA ShownTurnTyped ==
  ASSUME NEW answer, NEW digest, Renders(answer, digest)
  PROVE  /\ ResponseTurn(answer.response) \in TurnType
         /\ LET budget == BudgetOutputs(answer.plan, answer.cap)
            IN  /\ ResponseTurn(answer.response) = SpokenTurn(budget)
                /\ ResponseTurn(answer.response).role = "assistant"
                /\ Shown(answer.response) = SpokenText(budget)
<1> DEFINE plan == answer.plan
           cap == answer.cap
           response == answer.response
           budget == BudgetOutputs(plan, cap)
           status == ResponseStatus(plan, budget)
           text == SpokenText(budget)
<1>1. plan \in Plans /\ (cap = None \/ cap \in Nat) /\ ~CutPanics(plan, cap)
  BY DEF Renders
<1>2. PICK setting \in Settings : response.items = OutputItems(setting, budget, digest, status)
  BY DEF Renders
<1>3. BudgetShaped(plan, budget)
  <2> HIDE DEF plan, cap
  <2> QED BY <1>1, BudgetKeepsLimit
<1> HIDE DEF budget, status, response
<1>4. ResponseTurn(response) = SpokenTurn(budget)
  BY <1>2, ResponseTurnIs
<1>5. text \in Texts
  <2>1. <<>> \in Texts
    BY DEF Texts
  <2> QED BY <1>3, <2>1 DEF BudgetShaped, SpokenText
<1>6. PICK refusal \in Texts \cup {None} :
        ResponseTurn(response) = [role |-> "assistant", text |-> text, refusal |-> refusal]
  <2> DEFINE refused == IF budget.visible # None /\ budget.visible.kind = "refusal"
                        THEN text ELSE None
  <2>1. ResponseTurn(response) = [role |-> "assistant", text |-> text, refusal |-> refused]
    BY <1>4, SpokenTurnIs
  <2> HIDE DEF text
  <2>2. refused \in Texts \cup {None}
    BY <1>5
  <2> HIDE DEF refused
  <2> QED BY <2>1, <2>2
<1> HIDE DEF text
<1>7. ResponseTurn(response) \in TurnType
  BY <1>5, <1>6 DEF TurnType
<1>8. ResponseTurn(response).role = "assistant" /\ Shown(response) = text
  BY <1>6 DEF Shown
<1> QED BY <1>4, <1>7, <1>8 DEF text, budget, response

LEMMA TurnsTyped ==
  ASSUME TypeOK, NEW w \in Ways, NEW words \in Words, NEW setting \in Settings
  PROVE  /\ CanonicalTurns(Request(w, words, setting)) \in Seq(TurnType)
         /\ Turns(w, Request(w, words, setting)) \in Seq(TurnType)
<1> DEFINE request == Request(w, words, setting)
           own == CanonicalTurns(request)
           earlier == EarlierTurns(w)
<1>1. request.input \in Seq(ItemType) /\ request.instructions = setting.instructions
  BY RequestShape
<1>2. setting.instructions = None \/ setting.instructions \in Texts
  BY SettingsAssumption
<1>3. own \in Seq(TurnType)
  <2> HIDE DEF request
  <2> QED BY <1>1, <1>2, CanonicalTyped
<1>4. earlier \in Seq(TurnType)
  BY EarlierTyped
<1>5. Turns(w, request) = earlier \o own
  BY DEF Turns
<1> HIDE DEF own, earlier, request
<1>6. earlier \o own \in Seq(TurnType)
  BY <1>3, <1>4
<1> QED BY <1>3, <1>5, <1>6 DEF own, request

\* What append_response adds of an answered round.
LEMMA AppendedTyped ==
  ASSUME TypeOK, NEW words \in Words, NEW setting \in Settings,
         NEW answer \in AnswerType, NEW digest, Renders(answer, digest)
  PROVE  LET head == <<[turn |-> Turn("user", words), reasoning |-> 0]>>
             listed == answer.response.items
             tail == [i \in DOMAIN listed |->
                        IF IsMessage(listed[i])
                        THEN [turn |-> ResponseTurn(answer.response), reasoning |-> 0]
                        ELSE [turn |-> None, reasoning |-> answer.response.reasoning]]
         IN  /\ head \in Seq(KeptType) /\ tail \in Seq(KeptType)
             /\ Appended(Request("conversation", words, setting), answer) = head \o tail
<1> DEFINE request == Request("conversation", words, setting)
           said == InputMessage("user", words)
           head == <<[turn |-> Turn("user", words), reasoning |-> 0]>>
           listed == answer.response.items
           tail == [i \in DOMAIN listed |->
                      IF IsMessage(listed[i])
                      THEN [turn |-> ResponseTurn(answer.response), reasoning |-> 0]
                      ELSE [turn |-> None, reasoning |-> answer.response.reasoning]]
           first == [i \in DOMAIN request.input |->
                       [turn |-> Turn(request.input[i].role, request.input[i].text),
                        reasoning |-> 0]]
<1>1. request.input = <<said>> /\ words \in Texts
  <2>1. "conversation" \in Ways /\ "conversation" # "replay"
    BY DEF Ways
  <2> QED BY <2>1, RequestShape
<1>2. said.role = "user" /\ said.text = words
  BY DEF InputMessage
<1>3. answer # None
  BY NoneAssumption
<1>4. Appended(request, answer) = first \o tail
  BY <1>3 DEF Appended
<1>5. first = head
  <2> HIDE DEF said, request
  <2>1. DOMAIN <<said>> = 1 .. 1 /\ <<said>>[1] = said
    OBVIOUS
  <2>2. first = [i \in 1 .. 1 |-> [turn |-> Turn("user", words), reasoning |-> 0]]
    BY <1>1, <1>2, <2>1
  <2> HIDE DEF first
  <2> QED BY <2>2
<1>6. Turn("user", words) \in TurnType
  BY <1>1 DEF Turn, TurnType
<1>7. [turn |-> Turn("user", words), reasoning |-> 0] \in KeptType
  BY <1>6 DEF KeptType
<1>8. head \in Seq(KeptType)
  BY <1>7
<1>9. listed \in Seq(ItemType) /\ answer.response.reasoning \in Nat
  BY DEF AnswerType, ResponseType
<1>10. ResponseTurn(answer.response) \in TurnType
  BY ShownTurnTyped
<1>11. tail \in Seq(KeptType)
  <2> HIDE DEF listed
  <2>1. Len(listed) \in Nat /\ DOMAIN listed = 1 .. Len(listed)
    BY <1>9
  <2>2. /\ [turn |-> ResponseTurn(answer.response), reasoning |-> 0] \in KeptType
        /\ [turn |-> None, reasoning |-> answer.response.reasoning] \in KeptType
    BY <1>9, <1>10 DEF KeptType
  <2> QED BY <2>1, <2>2
<1> HIDE DEF first, head, tail, listed, request
<1> QED BY <1>4, <1>5, <1>8, <1>11 DEF head, tail, listed, request

LEMMA AnswerTyped ==
  ASSUME TypeOK, NEW w \in Ways, NEW words \in Words, NEW setting \in Settings,
         NEW plans \in [Ways -> Plans], NEW answer, answer = AnswerOf(w, words, setting, plans)
  PROVE  answer = None \/ (/\ answer # None /\ answer \in AnswerType
                           /\ Renders(answer, Digest(w))
                           /\ answer.plan = plans[w] /\ answer.cap = setting.cap)
BY AnswerShape DEF AnswerGiven

LEMMA SavedTyped ==
  ASSUME TypeOK, NEW words \in Words, NEW setting \in Settings,
         NEW answer, answer = None \/ (answer \in AnswerType /\ Renders(answer, Digest("link")))
  PROVE  LET request == Request("link", words, setting)
             saved == Saved(request, answer)
         IN  /\ answer = None => saved = stored
             /\ answer # None =>
                  /\ saved \in StoredType /\ saved.response = answer.response
                  /\ saved.turns = Append(Turns("link", request), ResponseTurn(answer.response))
<1> DEFINE request == Request("link", words, setting)
           before == Turns("link", request)
           own == ResponseTurn(answer.response)
           saved == Saved(request, answer)
<1>1. CASE answer = None
  BY <1>1 DEF Saved
<1>2. CASE answer # None
  <2>1. before \in Seq(TurnType)
    <3>1. "link" \in Ways
      BY DEF Ways
    <3> QED BY <3>1, TurnsTyped
  <2>2. own \in TurnType
    BY <1>2, ShownTurnTyped
  <2>3. answer.response \in ResponseType
    BY <1>2 DEF AnswerType
  <2>4. saved = [response |-> answer.response, turns |-> Append(before, own)]
    BY <1>2 DEF Saved
  <2> HIDE DEF before, own, request, saved
  <2>5. Append(before, own) \in Seq(TurnType)
    BY <2>1, <2>2
  <2>6. saved \in StoredType /\ saved.response = answer.response /\ saved.turns = Append(before, own)
    BY <2>3, <2>4, <2>5 DEF StoredType
  <2> QED BY <1>2, <2>6 DEF saved, request, before, own
<1> QED BY <1>1, <1>2

LEMMA TypeStep ==
  ASSUME DialogueInv, NEW words \in Words, NEW setting \in Settings, Ask(words, setting)
  PROVE  DialogueInv'
<1>0. TypeOK /\ Rendered
  BY DEF DialogueInv
<1>1. round' = round + 1
  BY AskIs
<1>2. PICK plans \in [Ways -> Plans] :
        /\ PlannedAlike(words, setting, plans)
        /\ answers' = [w \in Ways |-> Append(answers[w], AnswerOf(w, words, setting, plans))]
        /\ stored' = Saved(Request("link", words, setting),
                           AnswerOf("link", words, setting, plans))
        /\ items' = items \o Appended(Request("conversation", words, setting),
                                      AnswerOf("conversation", words, setting, plans))
        /\ transcript' = transcript \o Kept(words, AnswerOf("replay", words, setting, plans))
  BY AskIs
<1>3. "link" \in Ways /\ "conversation" \in Ways /\ "replay" \in Ways
  BY DEF Ways
<1> DEFINE answer(w) == AnswerOf(w, words, setting, plans)
<1>4. ASSUME NEW w \in Ways
      PROVE  answer(w) = None \/ (/\ answer(w) # None /\ answer(w) \in AnswerType
                                  /\ Renders(answer(w), Digest(w)))
  BY <1>0, AnswerTyped
<1>5. round \in Nat /\ round' \in Nat
  BY <1>0, <1>1 DEF TypeOK
<1>6. stored' \in StoredType \cup {None}
  <2> DEFINE linked == answer("link")
  <2>1. linked = None \/ (linked \in AnswerType /\ Renders(linked, Digest("link")))
    BY <1>3, <1>4
  <2>2. stored' = Saved(Request("link", words, setting), linked)
    BY <1>2
  <2> HIDE DEF linked
  <2>3. CASE linked = None
    <3>1. Saved(Request("link", words, setting), linked) = stored
      BY <1>0, <2>1, <2>3, SavedTyped
    <3> QED BY <1>0, <2>2, <3>1 DEF TypeOK
  <2>4. CASE linked # None
    <3>1. Saved(Request("link", words, setting), linked) \in StoredType
      BY <1>0, <2>1, <2>4, SavedTyped
    <3> QED BY <2>2, <3>1
  <2> QED BY <2>3, <2>4
<1>7. items' \in Seq(KeptType)
  <2> DEFINE given == answer("conversation")
             added == Appended(Request("conversation", words, setting), given)
  <2>1. given = None \/ (given # None /\ given \in AnswerType /\ Renders(given, Digest("conversation")))
    BY <1>3, <1>4
  <2>2. items' = items \o added
    BY <1>2
  <2>3. added \in Seq(KeptType)
    <3> HIDE DEF given
    <3>1. CASE given = None
      BY <3>1 DEF Appended
    <3>2. CASE given # None
      <4> DEFINE head == <<[turn |-> Turn("user", words), reasoning |-> 0]>>
                 listed == given.response.items
                 tail == [i \in DOMAIN listed |->
                            IF IsMessage(listed[i])
                            THEN [turn |-> ResponseTurn(given.response), reasoning |-> 0]
                            ELSE [turn |-> None, reasoning |-> given.response.reasoning]]
      <4>1. given \in AnswerType /\ Renders(given, Digest("conversation"))
        BY <2>1, <3>2
      <4>2. head \in Seq(KeptType) /\ tail \in Seq(KeptType) /\ added = head \o tail
        BY <1>0, <4>1, AppendedTyped
      <4> HIDE DEF head, tail, added
      <4>3. head \o tail \in Seq(KeptType)
        BY <4>2
      <4> QED BY <4>2, <4>3
    <3> QED BY <3>1, <3>2
  <2>4. items \in Seq(KeptType)
    BY <1>0 DEF TypeOK, KeptType
  <2> HIDE DEF added
  <2>5. items \o added \in Seq(KeptType)
    BY <2>3, <2>4
  <2> QED BY <2>2, <2>5
<1>8. transcript' \in Seq(Seq(ItemType))
  <2> DEFINE given == answer("replay")
             said == InputMessage("user", words)
             kept == Kept(words, given)
             S == Seq(ItemType)
  <2>1. given = None \/ (given # None /\ given \in AnswerType)
    BY <1>3, <1>4
  <2>2. transcript' = transcript \o kept
    BY <1>2
  <2>3. kept \in Seq(Seq(ItemType))
    <3> HIDE DEF given
    <3>1. CASE given = None
      BY <3>1 DEF Kept
    <3>2. CASE given # None
      <4>1. said \in ItemType
        BY <1>0, <1>3, RequestShape DEF ItemType
      <4>2. given.response.items \in Seq(ItemType)
        BY <2>1, <3>2 DEF AnswerType, ResponseType
      <4> DEFINE listed == given.response.items
                 one == <<said>> \o listed
      <4>3. kept = <<one>>
        BY <3>2 DEF Kept
      <4> HIDE DEF said, listed
      <4>4. one \in Seq(ItemType)
        BY <4>1, <4>2 DEF listed
      <4> HIDE DEF one, kept
      <4> QED BY <4>3, <4>4
    <3> QED BY <3>1, <3>2
  <2>4. transcript \in Seq(Seq(ItemType))
    BY <1>0 DEF TypeOK
  <2> HIDE DEF kept, S
  <2>5. transcript \in Seq(S) /\ kept \in Seq(S)
    BY <2>3, <2>4 DEF S
  <2>6. transcript \o kept \in Seq(S)
    BY <2>5
  <2> QED BY <2>2, <2>6 DEF S
<1>9. answers \in [Ways -> Seq(AnswerType \cup {None})]
  BY <1>0 DEF TypeOK
<1>10. ASSUME NEW w \in Ways
       PROVE  /\ answers'[w] = Append(answers[w], answer(w))
              /\ answers'[w] \in Seq(AnswerType \cup {None})
              /\ Len(answers'[w]) = round + 1
              /\ answers'[w][round + 1] = answer(w)
              /\ \A i \in 1 .. round : answers'[w][i] = answers[w][i]
  <2> DEFINE s == answers[w]
             e == answer(w)
             A == AnswerType \cup {None}
  <2>1. answers'[w] = Append(s, e)
    BY <1>2
  <2>2. s \in Seq(A) /\ e \in A /\ Len(s) = round
    BY <1>0, <1>4, <1>9 DEF Rendered
  <2> HIDE DEF s, e, A
  <2>3. /\ Append(s, e) \in Seq(A) /\ Len(Append(s, e)) = round + 1
        /\ Append(s, e)[round + 1] = e
        /\ \A i \in 1 .. round : Append(s, e)[i] = s[i]
    BY <2>2, AppendProperties
  <2> QED BY <2>1, <2>3 DEF s, e, A
<1> HIDE DEF answer
<1>11. answers' \in [Ways -> Seq(AnswerType \cup {None})]
  <2>1. answers' = [w \in Ways |-> Append(answers[w], AnswerOf(w, words, setting, plans))]
    BY <1>2
  <2>2. answers' = [w \in Ways |-> answers'[w]]
    BY <2>1
  <2> QED BY <1>10, <2>2
<1>12. TypeOK'
  BY <1>5, <1>6, <1>7, <1>8, <1>11 DEF TypeOK, KeptType
<1>13. Rendered'
  <2> SUFFICES ASSUME NEW w \in Ways
               PROVE  /\ Len(answers'[w]) = round'
                      /\ \A i \in 1 .. round' : answers'[w][i] # None => Renders(answers'[w][i], <<w, i>>)
    BY DEF Rendered
  <2>1. Len(answers'[w]) = round'
    BY <1>1, <1>10
  <2>2. ASSUME NEW i \in 1 .. round', answers'[w][i] # None
        PROVE  Renders(answers'[w][i], <<w, i>>)
    <3>1. CASE i \in 1 .. round
      <4>1. answers'[w][i] = answers[w][i]
        BY <1>10, <3>1
      <4> QED BY <1>0, <2>2, <3>1, <4>1 DEF Rendered
    <3>2. CASE i = round + 1
      <4>1. answers'[w][i] = answer(w) /\ Digest(w) = <<w, i>>
        BY <1>10, <3>2 DEF Digest
      <4>2. answer(w) # None
        BY <2>2, <4>1
      <4>3. Renders(answer(w), Digest(w))
        BY <1>4, <4>2 DEF answer
      <4> QED BY <4>1, <4>3
    <3>3. i \in 1 .. round \/ i = round + 1
      BY <1>1, <1>5
    <3> QED BY <3>1, <3>2, <3>3
  <2> QED BY <2>1, <2>2
<1> QED BY <1>12, <1>13 DEF DialogueInv

LEMMA DialogueStarts ==
  ASSUME DialogueInit
  PROVE  DialogueInv
<1>1. TypeOK
  <2>1. answers \in [Ways -> Seq(AnswerType \cup {None})]
    BY DEF DialogueInit
  <2> QED BY <2>1 DEF DialogueInit, TypeOK
<1>2. Rendered
  BY DEF DialogueInit, Rendered
<1> QED BY <1>1, <1>2 DEF DialogueInv

LEMMA DialogueStutters ==
  ASSUME DialogueInv, UNCHANGED dialogueVars
  PROVE  DialogueInv'
BY DEF DialogueInv, dialogueVars, TypeOK, Rendered

LEMMA DialogueInvHolds == DialogueSpec => []DialogueInv
<1>1. DialogueInit => DialogueInv
  BY DialogueStarts
<1>2. DialogueInv /\ [DialogueNext]_dialogueVars => DialogueInv'
  BY TypeStep, DialogueStutters DEF DialogueNext
<1> QED BY <1>1, <1>2, PTL DEF DialogueSpec

\* However a dialogue is asked and carried on, its responses, items and turns
\* stay well formed, those that a limit has cut included.
THEOREM DialogueTypeCorrect == DialogueSpec => []TypeOK
<1>1. DialogueInv => TypeOK
  BY DEF DialogueInv
<1> QED BY <1>1, DialogueInvHolds, PTL

\* Every answer of a dialogue keeps the limit of its request, pays for reasoning
\* first, and is complete exactly when nothing was cut.
THEOREM BudgetHolds == DialogueSpec => []BudgetIsKept
<1>1. DialogueInv => BudgetIsKept
  <2> SUFFICES ASSUME DialogueInv, NEW w \in Ways, NEW answer \in Given(w)
               PROVE  LET response == answer.response
                          plan == answer.plan
                      IN  /\ answer.cap /= None => response.output <= answer.cap
                          /\ Shown(response) /= <<>> => response.reasoning = FullReasoning(plan)
                          /\ plan.terminal = "completed" =>
                               (response.status = "completed"
                                  <=> response.output = FullReasoning(plan) + VisibleTokens(plan))
                          /\ response.status = "completed" /\ plan.visible /= None =>
                               Shown(response) = plan.visible.text
    BY DEF BudgetIsKept
  <2>1. answers[w] \in Seq(AnswerType \cup {None}) /\ Len(answers[w]) = round
    BY DEF DialogueInv, TypeOK, Rendered
  <2>2. PICK i \in 1 .. round : answers[w][i] = answer /\ answer # None
    BY <2>1 DEF Given
  <2>3. Renders(answer, <<w, i>>)
    BY <2>2 DEF DialogueInv, Rendered
  <2> QED BY <2>3, RenderedKeepsBudget
<1> QED BY <1>1, DialogueInvHolds, PTL

(***************************************************************************)
(* The items of an answer that says something.                             *)
(***************************************************************************)
MessageOf(answer, digest, m) ==
  /\ m \in MessageType /\ m.role = "assistant" /\ m.id = <<"msg", digest>>
  /\ m.status = ItemStatus(answer.response.status)
  /\ m.kind \in OutputKinds /\ m.text = Shown(answer.response)

ReasoningOf(answer, digest, r) ==
  /\ r \in ReasoningType /\ r.id = <<"rs", digest>>
  /\ r.status = ItemStatus(answer.response.status)
  /\ answer.plan.reasoning # None
  /\ answer.plan.reasoning.encrypted = None => r.encrypted = <<"enc", digest>>

SpokenItems(answer, digest) ==
  \E m : /\ MessageOf(answer, digest, m)
         /\ \/ answer.response.items = <<m>>
            \/ \E r : /\ ReasoningOf(answer, digest, r)
                      /\ answer.response.items = <<r, m>>

LEMMA SpeaksInItems ==
  ASSUME NEW answer, NEW digest \in Digests, Renders(answer, digest),
         Shown(answer.response) # <<>>
  PROVE  SpokenItems(answer, digest)
<1> DEFINE plan == answer.plan
           cap == answer.cap
           response == answer.response
           budget == BudgetOutputs(plan, cap)
           status == ResponseStatus(plan, budget)
<1>1. /\ plan \in Plans /\ (cap = None \/ cap \in Nat) /\ ~CutPanics(plan, cap)
      /\ response.status = status
  BY DEF Renders
<1>2. PICK setting \in Settings : response.items = OutputItems(setting, budget, digest, status)
  BY DEF Renders
<1>3. BudgetShaped(plan, budget)
  <2> HIDE DEF plan, cap
  <2> QED BY <1>1, BudgetKeepsLimit
<1>4. Shown(response) = SpokenText(budget)
  BY ShownTurnTyped
<1> HIDE DEF budget, status
<1>5. budget.visible # None /\ Shown(response) = budget.visible.text
  BY <1>4 DEF SpokenText
<1> DEFINE rs == ReasoningPart(setting, digest, status, budget)
           ms == MessagePart(digest, status, budget)
           m == OutputMessage(digest, ItemStatus(status), budget.visible)
           enc == IF budget.reasoning.encrypted = None THEN Id("enc", digest)
                  ELSE budget.reasoning.encrypted
           r == ReasoningItem(digest, ItemStatus(status),
                  IF setting.summary THEN budget.reasoning.summary ELSE None, enc)
<1>6. response.items = rs \o ms
  BY <1>2, OutputIsParts
<1>7. ms = <<m>> /\ (rs = <<>> \/ (budget.reasoning # None /\ rs = <<r>>))
  BY <1>5 DEF ReasoningPart, MessagePart
<1>8. ms \in Seq(MessageType) /\ rs \in Seq(ReasoningType)
  BY <1>1, <1>3, MessagePartTyped, ReasoningPartTyped
<1>9. MessageOf(answer, digest, m)
  <2>1. m \in MessageType
    <3> HIDE DEF m, ms
    <3>1. <<m>> \in Seq(MessageType)
      BY <1>7, <1>8
    <3>2. <<m>>[1] \in MessageType
      BY <3>1
    <3> QED BY <3>2
  <2>2. m.role = "assistant" /\ m.id = <<"msg", digest>> /\ m.status = ItemStatus(status)
        /\ m.kind = budget.visible.kind /\ m.text = budget.visible.text
    BY DEF OutputMessage, Id
  <2>3. budget.visible.kind \in OutputKinds
    BY <1>3, <1>5 DEF BudgetShaped, VisibleType
  <2> HIDE DEF m
  <2> QED BY <1>1, <1>5, <2>1, <2>2, <2>3 DEF MessageOf
<1>10. CASE rs = <<>>
  <2>1. response.items = <<m>>
    <3> HIDE DEF rs, ms, m
    <3>1. <<>> \o <<m>> = <<m>>
      OBVIOUS
    <3> QED BY <1>6, <1>7, <1>10, <3>1
  <2> HIDE DEF m
  <2> QED BY <1>9, <2>1 DEF SpokenItems
<1>11. CASE budget.reasoning # None /\ rs = <<r>>
  <2>1. response.items = <<r, m>>
    <3> HIDE DEF rs, ms, m, r
    <3>1. <<r>> \o <<m>> = <<r, m>>
      BY TwoInARow
    <3>2. response.items = <<r>> \o <<m>>
      BY <1>6, <1>7, <1>11, Zenon
    <3> QED BY <3>1, <3>2, Zenon
  <2>2. ReasoningOf(answer, digest, r)
    <3>1. r \in ReasoningType
      <4> HIDE DEF r, rs
      <4>1. <<r>> \in Seq(ReasoningType)
        BY <1>8, <1>11
      <4>2. <<r>>[1] \in ReasoningType
        BY <4>1
      <4> QED BY <4>2
    <3>2. r.id = <<"rs", digest>> /\ r.status = ItemStatus(status) /\ r.encrypted = enc
      BY DEF ReasoningItem, Id
    <3>3. plan.reasoning # None /\ budget.reasoning.encrypted \in {None, plan.reasoning.encrypted}
      BY <1>3, <1>11 DEF BudgetShaped
    <3>4. plan.reasoning.encrypted = None => enc = <<"enc", digest>>
      BY <3>3 DEF Id
    <3> HIDE DEF r, enc
    <3> QED BY <1>1, <3>1, <3>2, <3>3, <3>4 DEF ReasoningOf
  <2> HIDE DEF m, r
  <2> QED BY <1>9, <2>1, <2>2 DEF SpokenItems
<1> QED BY <1>7, <1>10, <1>11

\* What such an answer leaves to the turns and tokens that come after.
KeptOf(response) ==
  [i \in DOMAIN response.items |->
     IF IsMessage(response.items[i]) THEN [turn |-> ResponseTurn(response), reasoning |-> 0]
     ELSE [turn |-> None, reasoning |-> response.reasoning]]

LEMMA SpeaksInTurns ==
  ASSUME NEW answer \in AnswerType, NEW digest \in Digests, Renders(answer, digest),
         Audible(answer)
  PROVE  LET turn == ResponseTurn(answer.response)
         IN  /\ turn \in TurnType /\ turn.text = Shown(answer.response)
             /\ TurnsIn(answer.response.items) = SentBack(<<turn>>)
             /\ TurnsKept(KeptOf(answer.response)) = <<turn>>
             /\ ReasoningKept(KeptOf(answer.response)) = answer.response.reasoning
<1> DEFINE response == answer.response
           turn == ResponseTurn(response)
           kept == KeptOf(response)
           k1 == [turn |-> turn, reasoning |-> 0]
           k2 == [turn |-> None, reasoning |-> response.reasoning]
           plain == Turn(turn.role, turn.text)
<1>1. turn \in TurnType
  BY ShownTurnTyped
<1>2. turn.role = "assistant" /\ turn.text = Shown(response)
  BY ShownTurnTyped DEF Shown
<1>3. Shown(response) # <<>>
  BY DEF Audible
<1>4. PICK m : /\ MessageOf(answer, digest, m)
               /\ \/ response.items = <<m>>
                  \/ \E r : /\ ReasoningOf(answer, digest, r)
                            /\ response.items = <<r, m>>
  BY <1>3, SpeaksInItems DEF SpokenItems
<1>5. m \in ItemType /\ IsMessage(m) /\ Turn(m.role, m.text) = plain
  BY <1>2, <1>4 DEF MessageOf, ItemType, MessageType, IsMessage
<1>6. response.reasoning \in Nat
  BY DEF AnswerType, ResponseType
<1>7. k1 \in KeptType /\ k2 \in KeptType
  BY <1>1, <1>6 DEF KeptType
<1>8. turn # None
  BY <1>1, NoneAssumption
<1>s. SentBack(<<turn>>) = <<plain>> /\ plain \in TurnType
  <2> HIDE DEF turn
  <2> QED BY <1>1, SentBackOne
<1>9. TurnsIn(<<m>>) = <<plain>>
  BY <1>5, TurnsInOne
<1>10. /\ k1.turn = turn /\ k1.reasoning = 0
       /\ k2.turn = None /\ k2.reasoning = response.reasoning
  OBVIOUS
<1>11. kept = [i \in DOMAIN response.items |-> IF IsMessage(response.items[i]) THEN k1 ELSE k2]
  BY DEF KeptOf
<1> HIDE DEF kept, k1, k2, turn, plain
<1>12. /\ TurnsKept(<<k1>>) = <<turn>> /\ TurnsKept(<<k2>>) = <<>>
       /\ ReasoningKept(<<k1>>) = 0 /\ ReasoningKept(<<k2>>) = response.reasoning
  BY <1>7, <1>8, <1>10, TurnsKeptOne, ReasoningKeptOne
<1>13. CASE response.items = <<m>>
  <2>1. kept = <<k1>>
    BY <1>5, <1>11, <1>13
  <2>2. response.reasoning = 0
    <3>1. \A i \in DOMAIN response.items : ~IsReasoning(response.items[i])
      BY <1>5, <1>13 DEF IsReasoning, IsMessage
    <3> QED BY <1>6, <3>1 DEF Audible
  <2> QED BY <1>1, <1>2, <1>9, <1>12, <1>13, <1>s, <2>1, <2>2 DEF turn, kept
<1>14. ASSUME NEW r, ReasoningOf(answer, digest, r), response.items = <<r, m>>
       PROVE  /\ TurnsIn(response.items) = <<plain>> /\ TurnsKept(kept) = <<turn>>
              /\ ReasoningKept(kept) = response.reasoning
  <2>1. r \in ItemType /\ ~IsMessage(r)
    BY <1>14 DEF ReasoningOf, ItemType, ReasoningType, IsMessage
  <2>2. kept = <<k2, k1>>
    <3>1. /\ response.items[1] = r /\ response.items[2] = m /\ DOMAIN response.items = 1 .. 2
      BY <1>14
    <3>2. kept = [i \in 1 .. 2 |-> IF i = 1 THEN k2 ELSE k1]
      BY <1>5, <1>11, <2>1, <3>1
    <3> QED BY <3>2
  <2>3. kept = <<k2>> \o <<k1>>
    BY <2>2, TwoInARow
  <2>4. response.items = <<r>> \o <<m>>
    BY <1>14, TwoInARow
  <2>5. TurnsIn(<<r>>) = <<>>
    BY <2>1, TurnsInOne
  <2>6. TurnsIn(<<r>> \o <<m>>) = TurnsIn(<<r>>) \o TurnsIn(<<m>>)
    <3>1. <<r>> \in Seq(ItemType) /\ <<m>> \in Seq(ItemType)
      BY <1>5, <2>1
    <3> QED BY <3>1, TurnsInBoth
  <2>7. /\ TurnsKept(<<k2>> \o <<k1>>) = TurnsKept(<<k2>>) \o TurnsKept(<<k1>>)
        /\ ReasoningKept(<<k2>> \o <<k1>>) = ReasoningKept(<<k2>>) + ReasoningKept(<<k1>>)
    <3>1. <<k2>> \in Seq(KeptType) /\ <<k1>> \in Seq(KeptType)
      BY <1>7
    <3> QED BY <3>1, TurnsKeptBoth, ReasoningKeptBoth
  <2>8. <<>> \o <<turn>> = <<turn>> /\ <<>> \o <<plain>> = <<plain>>
    OBVIOUS
  <2>9. TurnsIn(response.items) = <<plain>>
    BY <1>9, <2>4, <2>5, <2>6, <2>8
  <2>10. TurnsKept(kept) = <<turn>>
    BY <1>12, <2>3, <2>7, <2>8
  <2>11. ReasoningKept(kept) = response.reasoning
    BY <1>6, <1>12, <2>3, <2>7
  <2> QED BY <2>9, <2>10, <2>11
<1> QED BY <1>1, <1>2, <1>4, <1>13, <1>14, <1>s DEF turn, kept

(***************************************************************************)
(* How each way carries on.                                                *)
(***************************************************************************)
LEMMA CanonicalOfWords ==
  ASSUME TypeOK, NEW w \in {"link", "conversation"}, NEW words \in Words,
         NEW setting \in Settings
  PROVE  /\ CanonicalTurns(Request(w, words, setting))
              = (IF setting.instructions = None THEN <<>>
                 ELSE <<Turn("developer", setting.instructions)>>) \o <<Turn("user", words)>>
         /\ Turn("user", words) \in TurnType
         /\ TokensOf(words) = Len(words) /\ Len(words) \in Nat
<1> DEFINE request == Request(w, words, setting)
           said == InputMessage("user", words)
<1>1. w \in Ways /\ w # "replay"
  BY DEF Ways
<1>2. /\ request.input = <<said>> /\ request.instructions = setting.instructions
      /\ said \in MessageType /\ words \in Texts
  BY <1>1, RequestShape
<1>3. said \in ItemType /\ IsMessage(said) /\ Turn(said.role, said.text) = Turn("user", words)
  BY <1>2 DEF ItemType, IsMessage, InputMessage
<1>4. TurnsIn(<<said>>) = <<Turn("user", words)>>
  <2> HIDE DEF said
  <2> QED BY <1>3, TurnsInOne
<1>5. CanonicalTurns(request)
        = (IF setting.instructions = None THEN <<>>
           ELSE <<Turn("developer", setting.instructions)>>) \o <<Turn("user", words)>>
  <2> HIDE DEF request, said
  <2> QED BY <1>2, <1>4 DEF CanonicalTurns
<1>6. Turn("user", words) \in TurnType
  BY <1>2 DEF Turn, TurnType
<1>7. TokensOf(words) = Len(words) /\ Len(words) \in Nat
  <2>1. words # None /\ words \in Seq(Tokens)
    BY <1>2, TextAssumption DEF Texts
  <2> QED BY <2>1 DEF TokensOf
<1> QED BY <1>5, <1>6, <1>7

LEMMA ShownTokens ==
  ASSUME NEW answer, NEW digest, Renders(answer, digest)
  PROVE  LET budget == BudgetOutputs(answer.plan, answer.cap)
         IN  /\ TokensOf(Shown(answer.response)) = ShownLength(budget) /\ ShownLength(budget) \in Nat
             /\ answer.response.reasoning = budget.tokens /\ budget.tokens \in Nat
<1> DEFINE plan == answer.plan
           cap == answer.cap
           budget == BudgetOutputs(plan, cap)
           text == SpokenText(budget)
<1>2. Shown(answer.response) = text
  BY ShownTurnTyped
<1>3. plan \in Plans /\ (cap = None \/ cap \in Nat) /\ ~CutPanics(plan, cap)
      /\ answer.response.reasoning = budget.tokens
  BY DEF Renders
<1>4. BudgetShaped(plan, budget)
  <2> HIDE DEF plan, cap
  <2> QED BY <1>3, BudgetKeepsLimit
<1> HIDE DEF budget
<1>5. text \in Texts
  <2>1. <<>> \in Texts
    BY DEF Texts
  <2> QED BY <1>4, <2>1 DEF BudgetShaped, SpokenText
<1>7. Len(text) = ShownLength(budget)
  BY DEF ShownLength, SpokenText
<1> HIDE DEF text
<1>6. text # None /\ Len(text) \in Nat
  <2>1. text # None
    BY <1>5, TextAssumption
  <2>2. text \in Seq(Tokens)
    BY <1>5 DEF Texts
  <2> QED BY <2>1, <2>2
<1>8. TokensOf(text) = Len(text)
  BY <1>6 DEF TokensOf
<1> QED BY <1>2, <1>3, <1>4, <1>6, <1>7, <1>8 DEF BudgetShaped, budget

LEMMA SamePlanSays ==
  ASSUME NEW a, NEW b, NEW d, NEW e, Renders(a, d), Renders(b, e),
         a.plan = b.plan, a.cap = b.cap
  PROVE  /\ ResponseTurn(a.response) = ResponseTurn(b.response)
         /\ a.response.reasoning = b.response.reasoning
<1> DEFINE s == BudgetOutputs(a.plan, a.cap)
           t == BudgetOutputs(b.plan, b.cap)
<1>1. s = t
  OBVIOUS
<1>2. ResponseTurn(a.response) = SpokenTurn(s) /\ ResponseTurn(b.response) = SpokenTurn(t)
  BY ShownTurnTyped
<1>3. a.response.reasoning = s.tokens /\ b.response.reasoning = t.tokens
  BY DEF Renders
<1> HIDE DEF s, t
<1> QED BY <1>1, <1>2, <1>3

LEMMA LinkMoves ==
  ASSUME TypeOK, NEW words \in Words, NEW setting \in Settings,
         NEW plans \in [Ways -> Plans], NEW answer,
         answer = AnswerOf("link", words, setting, plans),
         stored' = Saved(Request("link", words, setting), answer)
  PROVE  /\ answer = None =>
              EarlierTurns("link")' = EarlierTurns("link")
              /\ PriorTokens("link")' = PriorTokens("link")
         /\ answer # None =>
              /\ EarlierTurns("link")'
                   = Append(Turns("link", Request("link", words, setting)),
                            ResponseTurn(answer.response))
              /\ PriorTokens("link")' = answer.response.total
<1>1. "link" \in Ways
  BY DEF Ways
<1>2. answer = None \/ (answer \in AnswerType /\ Renders(answer, Digest("link")))
  BY <1>1, AnswerTyped
<1>3. CASE answer = None
  <2>1. stored' = stored
    BY <1>2, <1>3, SavedTyped
  <2> QED BY <1>3, <2>1 DEF EarlierTurns, PriorTokens
<1>4. CASE answer # None
  <2>1. /\ stored' \in StoredType /\ stored'.response = answer.response
        /\ stored'.turns = Append(Turns("link", Request("link", words, setting)),
                                  ResponseTurn(answer.response))
    BY <1>2, <1>4, SavedTyped
  <2>2. stored' # None
    BY <2>1, NoneAssumption
  <2> QED BY <1>4, <2>1, <2>2 DEF EarlierTurns, PriorTokens
<1> QED BY <1>3, <1>4

\* The tokens of a linked answer, when it was asked without instructions.
LEMMA LinkTotal ==
  ASSUME TypeOK, NEW words \in Words, NEW setting \in Settings,
         setting.instructions = None,
         NEW plans \in [Ways -> Plans], NEW answer, answer # None,
         answer = AnswerOf("link", words, setting, plans)
  PROVE  answer.response.total
           = PriorTokens("link") + Len(words)
               + (answer.response.reasoning + TokensOf(Shown(answer.response)))
<1> DEFINE request == Request("link", words, setting)
           budget == BudgetOutputs(plans["link"], setting.cap)
           user == Turn("user", words)
<1>1. "link" \in Ways
  BY DEF Ways
<1>2. AnswerGiven("link", words, setting, plans, answer)
  BY <1>1, AnswerShape
<1>3. /\ answer.plan = plans["link"] /\ answer.cap = setting.cap /\ Renders(answer, Digest("link"))
      /\ answer.response.total
           = PriorTokens("link") + InputTokens(CanonicalTurns(request)) + (budget.tokens + ShownLength(budget))
  BY <1>2 DEF AnswerGiven
<1>4. budget = BudgetOutputs(answer.plan, answer.cap)
  BY <1>3
<1>5. answer.response.reasoning = budget.tokens /\ TokensOf(Shown(answer.response)) = ShownLength(budget)
  BY <1>3, <1>4, ShownTokens
<1>6. /\ CanonicalTurns(request) = <<>> \o <<user>> /\ user \in TurnType
      /\ TokensOf(words) = Len(words)
  BY CanonicalOfWords
<1>7. user.text = words
  BY DEF Turn
<1> HIDE DEF request, budget, user
<1>8. <<>> \o <<user>> = <<user>>
  OBVIOUS
<1>9. InputTokens(CanonicalTurns(request)) = Len(words)
  BY <1>6, <1>7, <1>8, InputTokensOne
<1> QED BY <1>3, <1>5, <1>9

LEMMA ConversationMoves ==
  ASSUME TypeOK, NEW words \in Words, NEW setting \in Settings,
         NEW plans \in [Ways -> Plans], NEW answer,
         answer = AnswerOf("conversation", words, setting, plans),
         items' = items \o Appended(Request("conversation", words, setting), answer)
  PROVE  /\ answer = None =>
              EarlierTurns("conversation")' = EarlierTurns("conversation")
              /\ PriorTokens("conversation")' = PriorTokens("conversation")
         /\ answer # None /\ Audible(answer) =>
              /\ EarlierTurns("conversation")'
                   = EarlierTurns("conversation")
                       \o (<<Turn("user", words)>> \o <<ResponseTurn(answer.response)>>)
              /\ PriorTokens("conversation")'
                   = PriorTokens("conversation") + Len(words)
                       + (answer.response.reasoning + TokensOf(Shown(answer.response)))
<1>1. "conversation" \in Ways
  BY DEF Ways
<1>2. answer = None \/ (answer # None /\ answer \in AnswerType /\ Renders(answer, Digest("conversation")))
  BY <1>1, AnswerTyped
<1>3. /\ items \in Seq(KeptType)
      /\ PriorTokens("conversation") = InputTokens(TurnsKept(items)) + ReasoningKept(items)
  BY <1>1, EarlierTyped
<1>4. /\ EarlierTurns("conversation") = TurnsKept(items)
      /\ EarlierTurns("conversation")' = TurnsKept(items')
  BY DEF EarlierTurns, ItemTurns, TurnsKept
<1>5. PriorTokens("conversation")' = InputTokens(TurnsKept(items')) + ReasoningKept(items')
  BY DEF PriorTokens, ItemTurns, TurnsKept, ReasoningKept
<1>6. CASE answer = None
  <2>1. items' = items
    <3>1. Appended(Request("conversation", words, setting), answer) = <<>>
      BY <1>6 DEF Appended
    <3>2. items \o <<>> = items
      BY <1>3
    <3> QED BY <3>1, <3>2
  <2> QED BY <1>3, <1>4, <1>5, <1>6, <2>1
<1>7. CASE answer # None /\ Audible(answer)
  <2> DEFINE user == Turn("user", words)
             turn == ResponseTurn(answer.response)
             head == <<[turn |-> user, reasoning |-> 0]>>
             tail == KeptOf(answer.response)
             added == Appended(Request("conversation", words, setting), answer)
  <2>1. answer \in AnswerType /\ Renders(answer, Digest("conversation"))
    BY <1>2, <1>7
  <2>2. head \in Seq(KeptType) /\ tail \in Seq(KeptType) /\ added = head \o tail
    BY <2>1, AppendedTyped DEF KeptOf
  <2>3. Digest("conversation") \in Digests
    BY <1>1 DEF Digest, Digests, TypeOK
  <2>4. /\ turn \in TurnType /\ turn.text = Shown(answer.response)
        /\ TurnsKept(tail) = <<turn>> /\ ReasoningKept(tail) = answer.response.reasoning
    BY <1>7, <2>1, <2>3, SpeaksInTurns
  <2>5. user \in TurnType /\ TokensOf(words) = Len(words) /\ Len(words) \in Nat
    BY CanonicalOfWords
  <2>6. TurnsKept(head) = <<user>> /\ ReasoningKept(head) = 0
    <3> DEFINE k == [turn |-> user, reasoning |-> 0]
    <3>1. k \in KeptType /\ k.turn = user /\ k.reasoning = 0
      BY <2>5 DEF KeptType
    <3>2. user # None
      BY <2>5, NoneAssumption
    <3> HIDE DEF k, user
    <3>3. TurnsKept(<<k>>) = <<user>> /\ ReasoningKept(<<k>>) = 0
      BY <3>1, <3>2, TurnsKeptOne, ReasoningKeptOne
    <3> QED BY <3>3 DEF k
  <2>7. user.text = words
    BY DEF Turn
  <2>8. answer.response.reasoning \in Nat
    BY <2>1 DEF AnswerType, ResponseType
  <2> HIDE DEF user, turn, head, tail, added
  <2>9. items' = items \o (head \o tail) /\ head \o tail \in Seq(KeptType)
    <3>1. items' = items \o added
      BY DEF added
    <3>2. head \o tail \in Seq(KeptType)
      BY <2>2
    <3> QED BY <2>2, <3>1, <3>2, Zenon
  <2>10. /\ TurnsKept(items') = TurnsKept(items) \o (<<user>> \o <<turn>>)
         /\ ReasoningKept(items') = ReasoningKept(items) + answer.response.reasoning
    <3>1. TurnsKept(head \o tail) = <<user>> \o <<turn>> /\ ReasoningKept(head \o tail) = 0 + answer.response.reasoning
      BY <2>2, <2>4, <2>6, TurnsKeptBoth, ReasoningKeptBoth
    <3> DEFINE ht == head \o tail
    <3>2. ht \in Seq(KeptType)
      BY <2>9
    <3> HIDE DEF ht
    <3>3. /\ TurnsKept(items \o ht) = TurnsKept(items) \o TurnsKept(ht)
          /\ ReasoningKept(items \o ht) = ReasoningKept(items) + ReasoningKept(ht)
      BY <1>3, <3>2, TurnsKeptBoth, ReasoningKeptBoth
    <3>4. 0 + answer.response.reasoning = answer.response.reasoning
      BY <2>8
    <3> QED BY <2>9, <3>1, <3>3, <3>4 DEF ht
  <2>11. InputTokens(TurnsKept(items'))
           = InputTokens(TurnsKept(items)) + (Len(words) + TokensOf(Shown(answer.response)))
    <3>1. TurnsKept(items) \in Seq(TurnType) /\ <<user>> \in Seq(TurnType) /\ <<turn>> \in Seq(TurnType)
      BY <1>3, <2>4, <2>5, TurnsKeptTyped
    <3> DEFINE both == <<user>> \o <<turn>>
    <3>2. both \in Seq(TurnType)
      BY <3>1
    <3>3. InputTokens(both) = InputTokens(<<user>>) + InputTokens(<<turn>>)
      BY <3>1, InputTokensBoth
    <3>4. InputTokens(<<user>>) = Len(words) /\ InputTokens(<<turn>>) = TokensOf(Shown(answer.response))
      BY <2>4, <2>5, <2>7, InputTokensOne
    <3> HIDE DEF both
    <3>5. InputTokens(TurnsKept(items) \o both) = InputTokens(TurnsKept(items)) + InputTokens(both)
      BY <3>1, <3>2, InputTokensBoth
    <3> QED BY <2>10, <3>3, <3>4, <3>5 DEF both
  <2>12. /\ InputTokens(TurnsKept(items)) \in Nat /\ ReasoningKept(items) \in Nat
         /\ TokensOf(Shown(answer.response)) \in Nat
    <3>1. TurnsKept(items) \in Seq(TurnType)
      BY <1>3, TurnsKeptTyped
    <3> QED BY <1>3, <2>1, <3>1, InputTokensTyped, ReasoningKeptTyped, ShownTokens
  <2>13. PriorTokens("conversation")'
           = PriorTokens("conversation") + Len(words)
               + (answer.response.reasoning + TokensOf(Shown(answer.response)))
    BY <1>3, <1>5, <2>5, <2>8, <2>10, <2>11, <2>12
  <2> QED BY <1>4, <1>7, <2>10, <2>13 DEF user, turn
<1> QED BY <1>6, <1>7

LEMMA ReplayMoves ==
  ASSUME TypeOK, NEW words \in Words, NEW setting \in Settings,
         NEW plans \in [Ways -> Plans], NEW answer, answer # None, Audible(answer),
         answer = AnswerOf("replay", words, setting, plans),
         transcript' = transcript \o Kept(words, answer)
  PROVE  TurnsIn(FlattenSeq(transcript'))
           = TurnsIn(FlattenSeq(transcript))
               \o (<<Turn("user", words)>> \o SentBack(<<ResponseTurn(answer.response)>>))
<1> DEFINE user == Turn("user", words)
           turn == ResponseTurn(answer.response)
           said == InputMessage("user", words)
           listed == answer.response.items
           one == <<said>> \o listed
           earlier == FlattenSeq(transcript)
<1>1. "replay" \in Ways
  BY DEF Ways
<1>2. answer \in AnswerType /\ Renders(answer, Digest("replay"))
  BY <1>1, AnswerTyped
<1>3. Digest("replay") \in Digests
  BY <1>1 DEF Digest, Digests, TypeOK
<1>4. TurnsIn(listed) = SentBack(<<turn>>)
  BY <1>2, <1>3, SpeaksInTurns
<1>5. listed \in Seq(ItemType)
  BY <1>2 DEF AnswerType, ResponseType
<1>6. said \in MessageType
  BY <1>1, RequestShape
<1>7. said \in ItemType /\ IsMessage(said) /\ Turn(said.role, said.text) = user
  BY <1>6 DEF ItemType, IsMessage, InputMessage
<1>8. transcript' = transcript \o <<one>>
  BY DEF Kept
<1>9. transcript \in Seq(Seq(ItemType))
  BY DEF TypeOK
<1> HIDE DEF user, turn, said, listed
<1>10. <<said>> \in Seq(ItemType) /\ TurnsIn(<<said>>) = <<user>>
  <2>1. TurnsIn(<<said>>) = <<Turn(said.role, said.text)>>
    BY <1>7, TurnsInOne
  <2> QED BY <1>7, <2>1
<1>11. one \in Seq(ItemType) /\ TurnsIn(one) = <<user>> \o SentBack(<<turn>>)
  <2>1. one \in Seq(ItemType)
    BY <1>5, <1>10
  <2>2. TurnsIn(<<said>> \o listed) = TurnsIn(<<said>>) \o TurnsIn(listed)
    BY <1>5, <1>10, TurnsInBoth
  <2> QED BY <1>4, <1>10, <2>1, <2>2
<1> HIDE DEF one
<1>12. <<one>> \in Seq(Seq(ItemType)) /\ FlattenSeq(<<one>>) = one
  BY <1>11, FlattenOne
<1>13. FlattenSeq(transcript \o <<one>>) = earlier \o one
  <2>1. FlattenSeq(transcript \o <<one>>) = FlattenSeq(transcript) \o FlattenSeq(<<one>>)
    BY <1>9, <1>12, FlattenBoth
  <2> QED BY <1>12, <2>1
<1>14. earlier \in Seq(ItemType)
  BY <1>9, FlattenTyped
<1> HIDE DEF earlier
<1>15. TurnsIn(earlier \o one) = TurnsIn(earlier) \o TurnsIn(one)
  BY <1>11, <1>14, TurnsInBoth
<1> QED BY <1>8, <1>11, <1>13, <1>15 DEF user, turn, earlier

(***************************************************************************)
(* However a dialogue is carried on.                                       *)
(***************************************************************************)
AllAudible == \A w \in Ways : \A answer \in Given(w) : Audible(answer)

Uninstructed ==
  \A i \in DOMAIN EarlierTurns("link") : EarlierTurns("link")[i].role # "developer"

Continued ==
  /\ EarlierTurns("link") = EarlierTurns("conversation")
  /\ PriorTokens("link") = PriorTokens("conversation")
  /\ Answered("link") /\ Answered("replay") =>
       TurnsIn(FlattenSeq(transcript)) = SentBack(EarlierTurns("link"))

LEMMA AgreeIs ==
  ASSUME TypeOK
  PROVE  ContinuationsAgree <=> (AllAudible /\ Uninstructed => Continued)
<1> DEFINE request == [input |-> FlattenSeq(transcript), instructions |-> None]
           said == TurnsIn(FlattenSeq(transcript))
<1>1. FlattenSeq(transcript) \in Seq(ItemType)
  BY FlattenTyped DEF TypeOK
<1>2. said \in Seq(TurnType)
  BY <1>1, TurnsInTyped
<1>3. CanonicalTurns(request) = <<>> \o said
  BY DEF CanonicalTurns
<1> HIDE DEF said
<1>4. <<>> \o said = said
  BY <1>2
<1>5. CanonicalTurns(request) = said
  BY <1>3, <1>4
<1> HIDE DEF request
<1> QED BY <1>5 DEF ContinuationsAgree, AllAudible, Uninstructed, Continued, said, request

LEMMA AlikeValid ==
  ASSUME TypeOK, NEW words \in Words, NEW setting \in Settings
  PROVE  /\ ValidRequest(Request("link", words, setting))
              <=> ValidRequest(Request("conversation", words, setting))
         /\ CanonicalTurns(Request("link", words, setting))
              = CanonicalTurns(Request("conversation", words, setting))
<1> DEFINE l == Request("link", words, setting)
           c == Request("conversation", words, setting)
<1>1. /\ l.input = c.input /\ l.instructions = c.instructions /\ l.cap = c.cap
      /\ l.metadata = c.metadata /\ l.tools = c.tools
      /\ l.conversation = None /\ c.previous = None
  BY DEF Request
<1> HIDE DEF l, c
<1>2. ValidRequest(l) <=> ValidRequest(c)
  BY <1>1 DEF ValidRequest
<1>3. CanonicalTurns(l) = CanonicalTurns(c)
  BY <1>1 DEF CanonicalTurns
<1> QED BY <1>2, <1>3 DEF l, c

\* What is asked by replay, once it says what is linked to, is what is asked by
\* link as it comes out of messages.
LEMMA ReplayAsks ==
  ASSUME TypeOK, NEW words \in Words, NEW setting \in Settings,
         setting.instructions = None,
         TurnsIn(FlattenSeq(transcript)) = SentBack(EarlierTurns("link"))
  PROVE  Turns("replay", Request("replay", words, setting))
           = SentBack(Turns("link", Request("link", words, setting)))
<1> DEFINE request == Request("replay", words, setting)
           said == InputMessage("user", words)
           user == Turn("user", words)
           earlier == FlattenSeq(transcript)
           before == EarlierTurns("link")
<1>1. /\ request.input = earlier \o <<said>> /\ request.instructions = None
      /\ said \in MessageType
  <2>1. "replay" \in Ways
    BY DEF Ways
  <2> QED BY <2>1, RequestShape
<1>2. said \in ItemType /\ IsMessage(said) /\ Turn(said.role, said.text) = user
  BY <1>1 DEF ItemType, IsMessage, InputMessage
<1>3. earlier \in Seq(ItemType)
  BY FlattenTyped DEF TypeOK
<1>4. EarlierTurns("replay") = <<>>
  BY DEF EarlierTurns
<1>5. CanonicalTurns(Request("link", words, setting)) = <<>> \o <<user>> /\ user \in TurnType
  BY CanonicalOfWords
<1>6. before \in Seq(TurnType)
  <2>1. "link" \in Ways
    BY DEF Ways
  <2> QED BY <2>1, EarlierTyped
<1>e. TurnsIn(earlier) = SentBack(before) /\ SentBack(<<user>>) = <<user>>
  BY <1>5, SentBackPlain
<1>7. Turns("link", Request("link", words, setting)) = before \o (<<>> \o <<user>>)
  BY <1>5 DEF Turns
<1>8. Turns("replay", request) = <<>> \o CanonicalTurns(request)
  BY <1>4 DEF Turns
<1> HIDE DEF request, said, user, earlier, before
<1>9. CanonicalTurns(request) = <<>> \o TurnsIn(earlier \o <<said>>)
  BY <1>1 DEF CanonicalTurns
<1>10. <<said>> \in Seq(ItemType) /\ TurnsIn(<<said>>) = <<user>>
  <2>1. TurnsIn(<<said>>) = <<Turn(said.role, said.text)>>
    BY <1>2, TurnsInOne
  <2> QED BY <1>2, <2>1
<1>11. TurnsIn(earlier \o <<said>>) = SentBack(before) \o <<user>>
  <2>1. TurnsIn(earlier \o <<said>>) = TurnsIn(earlier) \o TurnsIn(<<said>>)
    BY <1>3, <1>10, TurnsInBoth
  <2> QED BY <1>e, <1>10, <2>1
<1> DEFINE all == SentBack(before) \o <<user>>
<1>12. all \in Seq(TurnType)
  BY <1>5, <1>6, SentBackTyped
<1>s. SentBack(before \o <<user>>) = all
  <2>1. <<user>> \in Seq(TurnType)
    BY <1>5
  <2> QED BY <1>6, <1>e, <2>1, SentBackBoth
<1>13. <<>> \o <<user>> = <<user>>
  OBVIOUS
<1> HIDE DEF all
<1>14. <<>> \o (<<>> \o all) = all
  BY <1>12
<1> QED BY <1>7, <1>8, <1>9, <1>11, <1>13, <1>14, <1>s DEF all, request, user

LEMMA AgreeStep ==
  ASSUME DialogueInv, DialogueInv', ContinuationsAgree,
         NEW words \in Words, NEW setting \in Settings, Ask(words, setting)
  PROVE  ContinuationsAgree'
<1>0. TypeOK /\ Rendered /\ TypeOK' /\ Rendered'
  BY DEF DialogueInv
<1> SUFFICES ASSUME AllAudible', Uninstructed' PROVE Continued'
  <2>1. TypeOK' => (ContinuationsAgree' <=> (AllAudible' /\ Uninstructed' => Continued'))
    BY AgreeIs, PTL
  <2> QED BY <1>0, <2>1
<1>1. PICK plans \in [Ways -> Plans] :
        /\ PlannedAlike(words, setting, plans)
        /\ answers' = [w \in Ways |-> Append(answers[w], AnswerOf(w, words, setting, plans))]
        /\ stored' = Saved(Request("link", words, setting),
                           AnswerOf("link", words, setting, plans))
        /\ items' = items \o Appended(Request("conversation", words, setting),
                                      AnswerOf("conversation", words, setting, plans))
        /\ transcript' = transcript \o Kept(words, AnswerOf("replay", words, setting, plans))
  BY AskIs
<1>2. "link" \in Ways /\ "conversation" \in Ways /\ "replay" \in Ways
  BY DEF Ways
<1> DEFINE link == AnswerOf("link", words, setting, plans)
           conversation == AnswerOf("conversation", words, setting, plans)
           replay == AnswerOf("replay", words, setting, plans)
           L == Request("link", words, setting)
           C == Request("conversation", words, setting)
           R == Request("replay", words, setting)
           user == Turn("user", words)
           before == EarlierTurns("link")
<1>3. ASSUME NEW w \in Ways
      PROVE  /\ Given(w) \subseteq Given(w)'
             /\ AnswerOf(w, words, setting, plans) # None =>
                  AnswerOf(w, words, setting, plans) \in Given(w)'
             /\ Answered(w)' => Answered(w) /\ AnswerOf(w, words, setting, plans) # None
  <2> DEFINE s == answers[w]
             e == AnswerOf(w, words, setting, plans)
             A == AnswerType \cup {None}
  <2>1. answers'[w] = Append(s, e)
    BY <1>1
  <2>2. s \in Seq(A) /\ e \in A
    <3>1. s \in Seq(A)
      BY <1>0 DEF TypeOK
    <3>2. e = None \/ e \in AnswerType
      BY <1>0, AnswerTyped
    <3> QED BY <3>1, <3>2
  <2> HIDE DEF e, A
  <2>3. /\ Append(s, e)[Len(s) + 1] = e /\ Len(s) + 1 \in DOMAIN Append(s, e)
        /\ \A i \in DOMAIN s : i \in DOMAIN Append(s, e) /\ Append(s, e)[i] = s[i]
    BY <2>2
  <2> HIDE DEF s
  <2>4. /\ Given(w) = {s[i] : i \in DOMAIN s} \ {None}
        /\ Given(w)' = {Append(s, e)[i] : i \in DOMAIN Append(s, e)} \ {None}
    BY <2>1 DEF Given, s
  <2>5. /\ Answered(w) <=> \A i \in DOMAIN s : s[i] # None
        /\ Answered(w)' <=> \A i \in DOMAIN Append(s, e) : Append(s, e)[i] # None
    BY <2>1 DEF Answered, s
  <2>6. Given(w) \subseteq Given(w)'
    BY <2>3, <2>4
  <2>7. e # None => e \in Given(w)'
    BY <2>3, <2>4
  <2>8. Answered(w)' => Answered(w) /\ e # None
    BY <2>3, <2>5
  <2> QED BY <2>6, <2>7, <2>8 DEF e
<1>4. AllAudible
  BY <1>3 DEF AllAudible
<1>5. /\ link # None => Audible(link)
      /\ conversation # None => Audible(conversation)
      /\ replay # None => Audible(replay)
  BY <1>2, <1>3 DEF AllAudible
<1>6. /\ link = None =>
           EarlierTurns("link")' = EarlierTurns("link") /\ PriorTokens("link")' = PriorTokens("link")
      /\ link # None =>
           /\ EarlierTurns("link")' = Append(Turns("link", L), ResponseTurn(link.response))
           /\ PriorTokens("link")' = link.response.total
  <2>1. stored' = Saved(Request("link", words, setting), link)
    BY <1>1
  <2> HIDE DEF link
  <2> QED BY <1>0, <2>1, LinkMoves DEF link
<1>7. before \in Seq(TurnType)
  BY <1>0, <1>2, EarlierTyped
<1>8. /\ CanonicalTurns(L) = (IF setting.instructions = None THEN <<>>
                              ELSE <<Turn("developer", setting.instructions)>>) \o <<user>>
      /\ user \in TurnType /\ Len(words) \in Nat
  BY <1>0, CanonicalOfWords
<1>9. Turns("link", L) = before \o CanonicalTurns(L)
  BY DEF Turns
<1>10. CanonicalTurns(L) \in Seq(TurnType) /\ CanonicalTurns(L) = CanonicalTurns(C)
       /\ (ValidRequest(L) <=> ValidRequest(C))
  BY <1>0, <1>2, TurnsTyped, AlikeValid
<1>11. link # None => /\ ResponseTurn(link.response) \in TurnType
                      /\ Renders(link, Digest("link")) /\ link \in AnswerType
                      /\ link.plan = plans["link"] /\ link.cap = setting.cap
  BY <1>0, <1>2, AnswerTyped, ShownTurnTyped
<1>12. Uninstructed /\ (link # None => setting.instructions = None)
  <2>1. CASE link = None
    BY <1>6, <2>1 DEF Uninstructed
  <2>2. CASE link # None
    <3> DEFINE own == CanonicalTurns(L)
               turn == ResponseTurn(link.response)
               after == (before \o own) \o <<turn>>
    <3>1. EarlierTurns("link")' = Append(before \o own, turn)
      BY <1>6, <1>9, <2>2
    <3>2. own \in Seq(TurnType) /\ turn \in TurnType
      BY <1>10, <1>11, <2>2
    <3> HIDE DEF own, turn, before, after
    <3>3. /\ before \o own \in Seq(TurnType) /\ Len(before \o own) = Len(before) + Len(own)
          /\ \A k \in 1 .. Len(before) : (before \o own)[k] = before[k]
          /\ \A k \in 1 .. Len(own) : (before \o own)[Len(before) + k] = own[k]
      BY <1>7, <3>2, ConcatPlaces
    <3> DEFINE both == before \o own
               all == Append(both, turn)
    <3>4. both \in Seq(TurnType)
      BY <3>3
    <3> HIDE DEF both
    <3>5. DOMAIN all = 1 .. Len(both) + 1 /\ \A k \in 1 .. Len(both) : all[k] = both[k]
      BY <3>2, <3>4
    <3>6. \A k \in 1 .. Len(both) : both[k].role # "developer"
      <4> SUFFICES ASSUME NEW k \in 1 .. Len(both) PROVE both[k].role # "developer"
        OBVIOUS
      <4>1. k \in DOMAIN all /\ all[k] = both[k]
        <5>1. k \in 1 .. Len(both) + 1
          BY <3>4
        <5> QED BY <3>5, <5>1
      <4>2. all = EarlierTurns("link")'
        BY <3>1 DEF both
      <4> HIDE DEF all
      <4>3. all[k].role # "developer"
        BY <4>1, <4>2 DEF Uninstructed
      <4> QED BY <4>1, <4>3
    <3>7. Len(before) \in Nat /\ Len(own) \in Nat /\ DOMAIN before = 1 .. Len(before)
      BY <1>7, <3>2
    <3>8. Uninstructed
      <4>1. \A i \in 1 .. Len(before) : i \in 1 .. Len(both) /\ both[i] = before[i]
        BY <3>3, <3>7 DEF both
      <4>2. \A i \in 1 .. Len(before) : before[i].role # "developer"
        BY <3>6, <4>1
      <4> QED BY <3>7, <4>2 DEF Uninstructed, before
    <3>9. setting.instructions = None
      <4> SUFFICES ASSUME setting.instructions # None PROVE FALSE
        OBVIOUS
      <4> DEFINE dev == Turn("developer", setting.instructions)
      <4>1. own = <<dev>> \o <<user>>
        BY <1>8 DEF own
      <4>2. dev.role = "developer"
        BY DEF Turn
      <4> HIDE DEF dev
      <4>3. own = <<dev, user>>
        BY <4>1, TwoInARow
      <4> HIDE DEF user
      <4>4. Len(own) = 2 /\ own[1] = dev
        BY <4>3
      <4>5. Len(before) + 1 \in 1 .. Len(both) /\ both[Len(before) + 1] = own[1]
        BY <3>3, <3>7, <4>4 DEF both
      <4> QED BY <3>6, <4>2, <4>4, <4>5
    <3> QED BY <3>8, <3>9
  <2> QED BY <2>1, <2>2
<1>13. Continued
  <2>1. AllAudible /\ Uninstructed => Continued
    BY <1>0, AgreeIs
  <2> QED BY <1>4, <1>12, <2>1
<1>14. plans["link"] = plans["conversation"]
  <2>1. Turns("conversation", C) = EarlierTurns("conversation") \o CanonicalTurns(C)
    BY DEF Turns
  <2>2. MatchTurns(Turns("link", L)) = MatchTurns(Turns("conversation", C))
    BY <1>9, <1>10, <1>13, <2>1 DEF Continued
  <2> QED BY <1>1, <1>2, <2>2 DEF PlannedAlike
<1>15. link = None <=> conversation = None
  <2>1. link # None <=> ValidRequest(L) /\ ~CutPanics(plans["link"], setting.cap)
    BY <1>0, <1>2, AnswerShape
  <2>2. conversation # None <=> ValidRequest(C) /\ ~CutPanics(plans["conversation"], setting.cap)
    BY <1>0, <1>2, AnswerShape
  <2> QED BY <1>10, <1>14, <2>1, <2>2
<1>16. /\ conversation = None =>
            EarlierTurns("conversation")' = EarlierTurns("conversation")
            /\ PriorTokens("conversation")' = PriorTokens("conversation")
       /\ conversation # None /\ Audible(conversation) =>
            /\ EarlierTurns("conversation")'
                 = EarlierTurns("conversation") \o (<<user>> \o <<ResponseTurn(conversation.response)>>)
            /\ PriorTokens("conversation")'
                 = PriorTokens("conversation") + Len(words)
                     + (conversation.response.reasoning + TokensOf(Shown(conversation.response)))
  <2>1. items' = items \o Appended(Request("conversation", words, setting), conversation)
    BY <1>1
  <2> HIDE DEF conversation
  <2> QED BY <1>0, <2>1, ConversationMoves DEF conversation
<1>17. CASE link = None
  <2>1. conversation = None
    BY <1>15, <1>17
  <2>2. ~Answered("link")'
    BY <1>2, <1>3, <1>17
  <2> HIDE DEF link, conversation
  <2> QED BY <1>6, <1>13, <1>16, <1>17, <2>1, <2>2 DEF Continued
<1>18. CASE link # None
  <2> DEFINE turn == ResponseTurn(link.response)
  <2>1. conversation # None /\ Audible(link) /\ Audible(conversation) /\ setting.instructions = None
    BY <1>5, <1>12, <1>15, <1>18
  <2>2. /\ Renders(conversation, Digest("conversation"))
        /\ conversation.plan = plans["conversation"] /\ conversation.cap = setting.cap
    BY <1>0, <1>2, <2>1, AnswerTyped
  <2>3. /\ ResponseTurn(conversation.response) = turn
        /\ conversation.response.reasoning = link.response.reasoning
        /\ Shown(conversation.response) = Shown(link.response)
    <3>1. /\ Renders(link, Digest("link")) /\ link.plan = conversation.plan
          /\ link.cap = conversation.cap
      BY <1>11, <1>14, <1>18, <2>2
    <3>2. /\ ResponseTurn(link.response) = ResponseTurn(conversation.response)
          /\ link.response.reasoning = conversation.response.reasoning
      <4> HIDE DEF link, conversation
      <4> QED BY <2>2, <3>1, SamePlanSays
    <3> HIDE DEF link, conversation
    <3> QED BY <3>2 DEF Shown
  <2>4. turn \in TurnType
    BY <1>11, <1>18
  <2>5. EarlierTurns("link")' = before \o (<<user>> \o <<turn>>)
    <3>1. CanonicalTurns(L) = <<>> \o <<user>>
      BY <1>8, <2>1
    <3>2. EarlierTurns("link")' = Append(before \o CanonicalTurns(L), turn)
      BY <1>6, <1>9, <1>18
    <3> HIDE DEF link, L, before, user, turn
    <3>3. <<>> \o <<user>> = <<user>>
      OBVIOUS
    <3>4. EarlierTurns("link")' = Append(before \o <<user>>, turn)
      BY <3>1, <3>2, <3>3
    <3> DEFINE bu == before \o <<user>>
    <3>5. bu \in Seq(TurnType) /\ <<user>> \in Seq(TurnType) /\ <<turn>> \in Seq(TurnType)
      BY <1>7, <1>8, <2>4
    <3> HIDE DEF bu
    <3>6. Append(bu, turn) = bu \o <<turn>>
      BY <2>4, <3>5
    <3>7. (before \o <<user>>) \o <<turn>> = before \o (<<user>> \o <<turn>>)
      BY <1>7, <3>5, ConcatAssociative
    <3> QED BY <3>4, <3>6, <3>7 DEF bu
  <2>6. EarlierTurns("conversation")' = before \o (<<user>> \o <<turn>>)
    BY <1>13, <1>16, <2>1, <2>3 DEF Continued
  <2>7. PriorTokens("link")' = PriorTokens("conversation")'
    <3>1. link.response.total = PriorTokens("link") + Len(words)
                                  + (link.response.reasoning + TokensOf(Shown(link.response)))
      BY <1>0, <1>18, <2>1, LinkTotal
    <3>2. PriorTokens("link") = PriorTokens("conversation")
      BY <1>13 DEF Continued
    <3>3. PriorTokens("link")' = link.response.total
      BY <1>6, <1>18
    <3>4. PriorTokens("conversation")'
            = PriorTokens("conversation") + Len(words)
                + (conversation.response.reasoning + TokensOf(Shown(conversation.response)))
      BY <1>16, <2>1
    <3> HIDE DEF link, conversation
    <3> QED BY <2>3, <3>1, <3>2, <3>3, <3>4
  <2>8. ASSUME Answered("link")', Answered("replay")'
        PROVE  TurnsIn(FlattenSeq(transcript')) = SentBack(EarlierTurns("link")')
    <3>1. Answered("link") /\ Answered("replay") /\ replay # None
      BY <1>2, <1>3, <2>8
    <3>2. TurnsIn(FlattenSeq(transcript)) = SentBack(before)
      BY <1>13, <3>1 DEF Continued
    <3>3. MatchTurns(Turns("replay", R)) = MatchTurns(Turns("link", L))
      <4>1. Turns("replay", R) = SentBack(Turns("link", L))
        BY <1>0, <2>1, <3>2, ReplayAsks
      <4>2. Turns("link", L) \in Seq(TurnType)
        BY <1>0, <1>2, TurnsTyped
      <4> HIDE DEF L, R
      <4> QED BY <4>1, <4>2, SentBackMatches
    <3>4. plans["replay"] = plans["link"]
      BY <1>1, <1>2, <3>3 DEF PlannedAlike
    <3>5. Renders(replay, Digest("replay")) /\ replay.plan = plans["replay"] /\ replay.cap = setting.cap
      BY <1>0, <1>2, <3>1, AnswerTyped
    <3>6. ResponseTurn(replay.response) = turn
      <4>1. Renders(link, Digest("link")) /\ link.plan = replay.plan /\ link.cap = replay.cap
        BY <1>11, <1>18, <3>4, <3>5
      <4>2. ResponseTurn(link.response) = ResponseTurn(replay.response)
        <5> HIDE DEF link, replay
        <5> QED BY <3>5, <4>1, SamePlanSays
      <4> QED BY <4>2
    <3>7. TurnsIn(FlattenSeq(transcript'))
            = TurnsIn(FlattenSeq(transcript))
                \o (<<user>> \o SentBack(<<ResponseTurn(replay.response)>>))
      <4>1. transcript' = transcript \o Kept(words, replay) /\ Audible(replay)
        BY <1>1, <1>5, <3>1
      <4> HIDE DEF replay
      <4> QED BY <1>0, <3>1, <4>1, ReplayMoves DEF replay
    <3> DEFINE added == <<user>> \o <<turn>>
    <3>8. added \in Seq(TurnType) /\ SentBack(added) = <<user>> \o SentBack(<<turn>>)
      <4>1. SentBack(<<user>>) = <<user>>
        BY <1>8, SentBackPlain
      <4> DEFINE u == <<user>>
                 t == <<turn>>
      <4>2. u \in Seq(TurnType) /\ t \in Seq(TurnType)
        BY <1>8, <2>4
      <4> HIDE DEF u, t
      <4>3. u \o t \in Seq(TurnType) /\ SentBack(u \o t) = SentBack(u) \o SentBack(t)
        BY <4>2, SentBackBoth
      <4> QED BY <4>1, <4>3 DEF u, t
    <3> HIDE DEF replay, link, before, user, turn
    <3>9. SentBack(before \o added) = SentBack(before) \o SentBack(added)
      <4> HIDE DEF added
      <4> QED BY <1>7, <3>8, SentBackBoth
    <3> QED BY <2>5, <3>2, <3>6, <3>7, <3>8, <3>9
  <2> HIDE DEF link, conversation, turn, before, user
  <2> QED BY <2>5, <2>6, <2>7, <2>8 DEF Continued
<1> QED BY <1>17, <1>18

LEMMA AgreeStarts ==
  ASSUME DialogueInit
  PROVE  ContinuationsAgree
<1>1. TypeOK
  BY DialogueStarts DEF DialogueInv
<1>2. Continued
  <2>1. stored = None /\ items = <<>> /\ transcript = <<>>
    BY DEF DialogueInit
  <2>2. EarlierTurns("link") = <<>> /\ PriorTokens("link") = 0
    BY <2>1 DEF EarlierTurns, PriorTokens
  <2>3. EarlierTurns("conversation") = TurnsKept(items)
    BY DEF EarlierTurns, ItemTurns, TurnsKept
  <2>4. PriorTokens("conversation") = InputTokens(TurnsKept(items)) + ReasoningKept(items)
    BY DEF PriorTokens, ItemTurns, TurnsKept, ReasoningKept
  <2>5. TurnsIn(FlattenSeq(transcript)) = SentBack(<<>>)
    BY <2>1, FlattenNothing, TurnsInNothing DEF SentBack
  <2> QED BY <2>1, <2>2, <2>3, <2>4, <2>5, TurnsKeptNothing, ReasoningKeptNothing,
             InputTokensNothing DEF Continued
<1> QED BY <1>1, <1>2, AgreeIs

LEMMA AgreeStutters ==
  ASSUME ContinuationsAgree, UNCHANGED dialogueVars
  PROVE  ContinuationsAgree'
<1>1. /\ stored' = stored /\ items' = items /\ transcript' = transcript /\ answers' = answers
  BY DEF dialogueVars
<1>2. \A w \in Ways : Given(w)' = Given(w) /\ (Answered(w)' <=> Answered(w))
  BY <1>1 DEF Given, Answered
<1>3. ItemTurns' = ItemTurns
  BY <1>1 DEF ItemTurns
<1>4. /\ EarlierTurns("link")' = EarlierTurns("link")
      /\ EarlierTurns("conversation")' = EarlierTurns("conversation")
      /\ PriorTokens("link")' = PriorTokens("link")
      /\ PriorTokens("conversation")' = PriorTokens("conversation")
  BY <1>1, <1>3 DEF EarlierTurns, PriorTokens
<1>5. "link" \in Ways /\ "replay" \in Ways
  BY DEF Ways
<1> QED BY <1>1, <1>2, <1>4, <1>5 DEF ContinuationsAgree

\* A dialogue goes on from the same turns by link and in a conversation, and the
\* total carried along with links is the sum over the items a conversation keeps;
\* once every round is answered by link and by replay, what is sent back says the
\* same as well, a refusal as a text.
THEOREM ContinuationsAlwaysAgree == DialogueSpec => []ContinuationsAgree
<1>1. DialogueInit => ContinuationsAgree
  BY AgreeStarts
<1>2. DialogueInv /\ DialogueInv' /\ ContinuationsAgree /\ [DialogueNext]_dialogueVars
        => ContinuationsAgree'
  BY AgreeStep, AgreeStutters DEF DialogueNext
<1> QED BY <1>1, <1>2, DialogueInvHolds, PTL DEF DialogueSpec

(***************************************************************************)
(* What may be sent back.                                                  *)
(***************************************************************************)
\* An item a client may send, if an answer of the digests D had it.
Sendable(item, D) ==
  \/ /\ IsMessage(item) /\ ~IsAnswer(item)
     /\ item.id = None /\ item.status = None /\ item.kind \notin OutputKinds
  \/ /\ IsAnswer(item) /\ item.status = "completed" /\ item.kind \in OutputKinds
     /\ \E d \in D : item.id = <<"msg", d>>
  \/ /\ ~IsMessage(item) /\ item.status = "completed" /\ ~item.raw
     /\ \E d \in D : item.id = <<"rs", d>> /\ item.encrypted = <<"enc", d>>

\* Items of which every reasoning item is followed by its message.
Closed(s, D) ==
  /\ s \in Seq(ItemType)
  /\ \A i \in 1 .. Len(s) : Sendable(s[i], D)
  /\ \A i \in 1 .. Len(s) :
       ~IsMessage(s[i]) => /\ i + 1 \in 1 .. Len(s) /\ IsAnswer(s[i + 1])
                           /\ s[i + 1].id[2] = s[i].id[2]
  /\ \A i, j \in 1 .. Len(s) : s[i].id # None /\ s[i].id = s[j].id => i = j

LEMMA ReasoningOrMessage ==
  ASSUME NEW item \in ItemType
  PROVE  IsReasoning(item) <=> ~IsMessage(item)
BY DEF ItemType, MessageType, ReasoningType, IsReasoning, IsMessage

LEMMA IdOfSendable ==
  ASSUME NEW item, NEW D, Sendable(item, D), item.id # None
  PROVE  \E d \in D : item.id[2] = d
BY DEF Sendable

LEMMA ClosedBoth ==
  ASSUME NEW a, NEW b, NEW D, NEW E, Closed(a, D), Closed(b, E), D \cap E = {}
  PROVE  Closed(a \o b, D \cup E)
<1> DEFINE ab == a \o b
           m == Len(a)
           n == Len(b)
<1>1. a \in Seq(ItemType) /\ b \in Seq(ItemType)
  BY DEF Closed
<1>2. /\ ab \in Seq(ItemType) /\ Len(ab) = m + n
      /\ \A k \in 1 .. m : ab[k] = a[k]
      /\ \A k \in 1 .. n : ab[m + k] = b[k]
  BY <1>1, ConcatPlaces
<1>3. m \in Nat /\ n \in Nat
  BY <1>1
<1>4. /\ \A i \in 1 .. m : Sendable(a[i], D)
      /\ \A i \in 1 .. m :
           ~IsMessage(a[i]) => /\ i + 1 \in 1 .. m /\ IsAnswer(a[i + 1])
                               /\ a[i + 1].id[2] = a[i].id[2]
      /\ \A i, j \in 1 .. m : a[i].id # None /\ a[i].id = a[j].id => i = j
      /\ \A i \in 1 .. n : Sendable(b[i], E)
      /\ \A i \in 1 .. n :
           ~IsMessage(b[i]) => /\ i + 1 \in 1 .. n /\ IsAnswer(b[i + 1])
                               /\ b[i + 1].id[2] = b[i].id[2]
      /\ \A i, j \in 1 .. n : b[i].id # None /\ b[i].id = b[j].id => i = j
  BY DEF Closed
<1> HIDE DEF ab, m, n
<1>5. ASSUME NEW i \in 1 .. m + n
      PROVE  \/ i \in 1 .. m /\ ab[i] = a[i]
             \/ i - m \in 1 .. n /\ ab[i] = b[i - m]
  <2>1. CASE i <= m
    <3>1. i \in 1 .. m
      BY <1>3, <2>1
    <3> QED BY <1>2, <3>1
  <2>2. CASE ~(i <= m)
    <3>1. i - m \in 1 .. n /\ m + (i - m) = i
      BY <1>3, <2>2
    <3>2. ab[m + (i - m)] = b[i - m]
      BY <1>2, <3>1
    <3> QED BY <3>1, <3>2
  <2> QED BY <2>1, <2>2
<1>6. ASSUME NEW i \in 1 .. m + n PROVE Sendable(ab[i], D \cup E)
  BY <1>4, <1>5 DEF Sendable
<1>7. ASSUME NEW i \in 1 .. m + n, ~IsMessage(ab[i])
      PROVE  /\ i + 1 \in 1 .. m + n /\ IsAnswer(ab[i + 1])
             /\ ab[i + 1].id[2] = ab[i].id[2]
  <2>1. CASE i \in 1 .. m /\ ab[i] = a[i]
    <3>1. i + 1 \in 1 .. m /\ IsAnswer(a[i + 1]) /\ a[i + 1].id[2] = a[i].id[2]
      BY <1>4, <1>7, <2>1
    <3>2. ab[i + 1] = a[i + 1] /\ i + 1 \in 1 .. m + n
      BY <1>2, <1>3, <3>1
    <3> QED BY <2>1, <3>1, <3>2
  <2>2. CASE i - m \in 1 .. n /\ ab[i] = b[i - m]
    <3> DEFINE k == i - m
    <3>1. k + 1 \in 1 .. n /\ IsAnswer(b[k + 1]) /\ b[k + 1].id[2] = b[k].id[2]
      BY <1>4, <1>7, <2>2
    <3>2. ab[m + (k + 1)] = b[k + 1]
      BY <1>2, <3>1
    <3>3. m + (k + 1) = i + 1 /\ i + 1 \in 1 .. m + n
      BY <1>3, <3>1
    <3> QED BY <2>2, <3>1, <3>2, <3>3
  <2> QED BY <1>5, <2>1, <2>2
<1>8. ASSUME NEW i \in 1 .. m + n, NEW j \in 1 .. m + n, ab[i].id # None, ab[i].id = ab[j].id
      PROVE  i = j
  <2>1. CASE i \in 1 .. m /\ ab[i] = a[i] /\ j \in 1 .. m /\ ab[j] = a[j]
    BY <1>4, <1>8, <2>1
  <2>2. CASE i - m \in 1 .. n /\ ab[i] = b[i - m] /\ j - m \in 1 .. n /\ ab[j] = b[j - m]
    <3>1. i - m = j - m
      BY <1>4, <1>8, <2>2
    <3> QED BY <1>3, <3>1
  <2>3. CASE i \in 1 .. m /\ ab[i] = a[i] /\ j - m \in 1 .. n /\ ab[j] = b[j - m]
    <3>1. Sendable(ab[i], D) /\ Sendable(ab[j], E)
      BY <1>4, <2>3
    <3>2. (\E d \in D : ab[i].id[2] = d) /\ (\E e \in E : ab[j].id[2] = e)
      BY <1>8, <3>1, IdOfSendable
    <3> QED BY <1>8, <3>2
  <2>4. CASE j \in 1 .. m /\ ab[j] = a[j] /\ i - m \in 1 .. n /\ ab[i] = b[i - m]
    <3>1. Sendable(ab[j], D) /\ Sendable(ab[i], E)
      BY <1>4, <2>4
    <3>2. (\E d \in D : ab[j].id[2] = d) /\ (\E e \in E : ab[i].id[2] = e)
      BY <1>8, <3>1, IdOfSendable
    <3> QED BY <1>8, <3>2
  <2> QED BY <1>5, <2>1, <2>2, <2>3, <2>4
<1>9. Closed(ab, D \cup E)
  BY <1>2, <1>6, <1>7, <1>8 DEF Closed
<1> QED BY <1>9 DEF ab

\* Nothing keeps the validation from accepting such items.
LEMMA ClosedIsValid ==
  ASSUME NEW s, NEW D, D \subseteq Digests, Closed(s, D)
  PROVE  ValidReplay(s)
<1>1. /\ s \in Seq(ItemType)
      /\ \A i \in 1 .. Len(s) : Sendable(s[i], D)
      /\ \A i \in 1 .. Len(s) :
           ~IsMessage(s[i]) => /\ i + 1 \in 1 .. Len(s) /\ IsAnswer(s[i + 1])
                               /\ s[i + 1].id[2] = s[i].id[2]
      /\ \A i, j \in 1 .. Len(s) : s[i].id # None /\ s[i].id = s[j].id => i = j
  BY DEF Closed
<1>2. Len(s) \in Nat /\ DOMAIN s = 1 .. Len(s) /\ \A i \in 1 .. Len(s) : s[i] \in ItemType
  BY <1>1
<1>3. UniqueReplayIds(s)
  BY <1>1, <1>2 DEF UniqueReplayIds
<1>4. ASSUME NEW i \in 1 .. Len(s), IsAnswer(s[i])
      PROVE  Pending(s, i) \in {None, s[i].id[2]}
  <2> DEFINE emitted == {j \in 1 .. i - 1 : IsReasoning(s[j]) \/ IsAnswer(s[j])}
             e == Max(emitted)
  <2>1. CASE emitted = {}
    BY <2>1 DEF Pending
  <2>2. CASE emitted # {}
    <3>1. i - 1 \in Nat /\ emitted \in SUBSET (1 .. i - 1)
      BY <1>2
    <3>2. e \in emitted /\ \A y \in emitted : e >= y
      <4> HIDE DEF emitted
      <4> QED BY <2>2, <3>1, MaxOfPlaces
    <3>3. Pending(s, i) = IF emitted = {} \/ IsAnswer(s[e]) THEN None ELSE s[e].id[2]
      BY DEF Pending
    <3>4. CASE IsAnswer(s[e])
      BY <3>3, <3>4
    <3>5. CASE ~IsAnswer(s[e])
      <4>1. e \in 1 .. i - 1 /\ e \in 1 .. Len(s) /\ IsReasoning(s[e])
        BY <1>2, <3>2, <3>5
      <4>2. ~IsMessage(s[e])
        BY <1>2, <4>1, ReasoningOrMessage
      <4>3. e + 1 \in 1 .. Len(s) /\ IsAnswer(s[e + 1]) /\ s[e + 1].id[2] = s[e].id[2]
        BY <1>1, <4>1, <4>2
      <4>4. e + 1 = i
        <5>1. e + 1 \in 1 .. i - 1 => e + 1 \in emitted
          BY <4>3
        <5> HIDE DEF emitted, e
        <5>2. e + 1 \notin 1 .. i - 1
          BY <3>2, <4>1, <5>1
        <5> QED BY <1>2, <4>1, <5>2
      <4> HIDE DEF emitted, e
      <4> QED BY <2>2, <3>3, <3>5, <4>3, <4>4
    <3> QED BY <3>4, <3>5
  <2> QED BY <2>1, <2>2
<1>5. ASSUME NEW i \in 1 .. Len(s)
      PROVE  IF IsMessage(s[i]) THEN ValidMessage(s, i) ELSE ValidReasoning(s[i])
  <2>1. Sendable(s[i], D)
    BY <1>1
  <2>2. CASE IsAnswer(s[i])
    <3>1. PICK d \in D : s[i].id = <<"msg", d>>
      BY <2>1, <2>2 DEF Sendable, IsAnswer
    <3>2. s[i].status = "completed" /\ s[i].kind \in OutputKinds
      BY <2>1, <2>2 DEF Sendable, IsAnswer
    <3>3. s[i].id # None /\ s[i].id[1] = "msg"
      <4>1. <<"msg", d>> \in {"msg"} \X Digests
        OBVIOUS
      <4> QED BY <3>1, <4>1, NoneAssumption
    <3>4. Pending(s, i) \in {None, s[i].id[2]}
      BY <1>4, <2>2
    <3> QED BY <2>2, <3>2, <3>3, <3>4 DEF ValidMessage, IsAnswer
  <2>3. CASE IsMessage(s[i]) /\ ~IsAnswer(s[i])
    BY <2>1, <2>3 DEF Sendable, ValidMessage
  <2>4. CASE ~IsMessage(s[i])
    <3>1. ~IsAnswer(s[i])
      BY <2>4 DEF IsAnswer
    <3> QED BY <2>1, <2>4, <3>1 DEF Sendable, ValidReasoning, Id
  <2> QED BY <2>2, <2>3, <2>4
<1> QED BY <1>2, <1>3, <1>5 DEF ValidReplay

LEMMA NothingIsClosed ==
  ASSUME NEW D
  PROVE  Closed(<<>>, D)
BY DEF Closed

\* A round of the transcript, when its answer can be replayed.
LEMMA RoundIsClosed ==
  ASSUME NEW answer, NEW digest \in Digests, Renders(answer, digest),
         Replayable(answer), Shown(answer.response) # <<>>, NEW words \in Words
  PROVE  Closed(<<InputMessage("user", words)>> \o answer.response.items, {digest})
<1> DEFINE said == InputMessage("user", words)
           D == {digest}
<1>1. said \in ItemType
  BY WordsAssumption DEF InputMessage, MessageType, ItemType
<1>2. Sendable(said, D) /\ said.id = None /\ IsMessage(said)
  BY DEF Sendable, InputMessage, IsMessage, IsAnswer, OutputKinds
<1>3. PICK m : /\ MessageOf(answer, digest, m)
               /\ \/ answer.response.items = <<m>>
                  \/ \E r : /\ ReasoningOf(answer, digest, r)
                            /\ answer.response.items = <<r, m>>
  BY SpeaksInItems DEF SpokenItems
<1>4. ItemStatus(answer.response.status) = "completed"
  BY DEF Replayable, ItemStatus
<1>5. m \in ItemType /\ Sendable(m, D) /\ IsMessage(m) /\ IsAnswer(m) /\ m.id = <<"msg", digest>>
  BY <1>3, <1>4 DEF MessageOf, ItemType, MessageType, IsMessage, IsAnswer, Sendable
<1>6. Closed(<<said>>, {})
  <2>1. <<said>> \in Seq(ItemType) /\ Len(<<said>>) = 1 /\ <<said>>[1] = said
    BY <1>1
  <2>2. Sendable(said, {})
    BY DEF Sendable, InputMessage, IsMessage, IsAnswer, OutputKinds
  <2>3. \A i \in 1 .. 1 : i = 1
    OBVIOUS
  <2> HIDE DEF said
  <2> QED BY <1>2, <2>1, <2>2, <2>3 DEF Closed
<1>7. Closed(answer.response.items, D)
  <2>1. CASE answer.response.items = <<m>>
    <3> HIDE DEF D
    <3>1. <<m>> \in Seq(ItemType) /\ Len(<<m>>) = 1 /\ <<m>>[1] = m
      BY <1>5
    <3>2. \A i \in 1 .. 1 : i = 1
      OBVIOUS
    <3> QED BY <1>5, <2>1, <3>1, <3>2 DEF Closed
  <2>2. ASSUME NEW r, ReasoningOf(answer, digest, r), answer.response.items = <<r, m>>
        PROVE  Closed(<<r, m>>, D)
    <3>1. r \in ItemType /\ ~IsMessage(r) /\ r.id = <<"rs", digest>>
      BY <2>2 DEF ReasoningOf, ItemType, ReasoningType, IsMessage
    <3>2. r.encrypted = <<"enc", digest>> /\ ~r.raw /\ r.status = "completed"
      BY <1>4, <2>2 DEF ReasoningOf, ReasoningType, Replayable
    <3>3. Sendable(r, D)
      BY <3>1, <3>2 DEF Sendable
    <3>4. /\ <<r, m>> \in Seq(ItemType) /\ Len(<<r, m>>) = 2
          /\ <<r, m>>[1] = r /\ <<r, m>>[2] = m
      BY <1>5, <3>1
    <3>5. r.id # m.id /\ r.id[2] = m.id[2]
      BY <1>5, <3>1
    <3>6. /\ \A i \in 1 .. 2 : i = 1 \/ i = 2
          /\ 1 + 1 \in 1 .. 2 /\ 1 + 1 = 2
      OBVIOUS
    <3> DEFINE rm == <<r, m>>
    <3> HIDE DEF D, rm
    <3>7. /\ rm \in Seq(ItemType) /\ Len(rm) = 2 /\ rm[1] = r /\ rm[2] = m
      BY <3>4 DEF rm
    <3>8. /\ \A i \in 1 .. 2 : Sendable(rm[i], D)
          /\ \A i \in 1 .. 2 : ~IsMessage(rm[i]) =>
               /\ i + 1 \in 1 .. 2 /\ IsAnswer(rm[i + 1]) /\ rm[i + 1].id[2] = rm[i].id[2]
          /\ \A i, j \in 1 .. 2 : rm[i].id # None /\ rm[i].id = rm[j].id => i = j
      BY <1>5, <3>3, <3>5, <3>6, <3>7
    <3>9. Closed(rm, D)
      BY <3>7, <3>8 DEF Closed
    <3> QED BY <3>9 DEF rm
  <2> QED BY <1>3, <2>1, <2>2
<1>8. {} \cap D = {} /\ {} \cup D = D
  OBVIOUS
<1> HIDE DEF said, D
<1>9. Closed(<<said>> \o answer.response.items, {} \cup D)
  BY <1>6, <1>7, <1>8, ClosedBoth
<1> QED BY <1>8, <1>9 DEF said, D

\* Every round sent is one of the last that was answered, and no two are the same.
Follows(f, sent, given, last) ==
  /\ f \in [1 .. Len(sent) -> 1 .. last]
  /\ \A i, j \in 1 .. Len(sent) : f[i] = f[j] => i = j
  /\ \A k \in 1 .. Len(sent) :
       /\ given[f[k]] # None
       /\ \E words \in Words :
            sent[k] = <<InputMessage("user", words)>> \o given[f[k]].response.items

SentAs(f) == Follows(f, transcript, answers["replay"], round)

Sent == \E f : SentAs(f)

LEMMA SentStep ==
  ASSUME DialogueInv, DialogueInv', Sent, NEW words \in Words, NEW setting \in Settings,
         Ask(words, setting)
  PROVE  Sent'
<1>0. TypeOK /\ Rendered /\ TypeOK' /\ Rendered'
  BY DEF DialogueInv
<1>1. PICK f : SentAs(f)
  BY DEF Sent
<1>2. PICK plans \in [Ways -> Plans] :
        /\ answers' = [w \in Ways |-> Append(answers[w], AnswerOf(w, words, setting, plans))]
        /\ transcript' = transcript \o Kept(words, AnswerOf("replay", words, setting, plans))
  BY AskIs
<1>3. round' = round + 1
  BY AskIs
<1> DEFINE answer == AnswerOf("replay", words, setting, plans)
           given == answers["replay"]
           n == Len(transcript)
           S == Seq(ItemType)
<1>4. "replay" \in Ways
  BY DEF Ways
<1>5. answers'["replay"] = Append(given, answer)
  BY <1>2, <1>4
<1>6. answer = None \/ answer \in AnswerType
  BY <1>0, <1>4, AnswerTyped
<1>7. round \in Nat /\ Len(given) = round /\ given \in Seq(AnswerType \cup {None})
  BY <1>0, <1>4 DEF TypeOK, Rendered
<1>8. transcript \in Seq(S)
  BY <1>0 DEF TypeOK
<1>9. transcript' = transcript \o Kept(words, answer)
  BY <1>2
<1> HIDE DEF answer, S
<1>10. n \in Nat
  BY <1>8
<1>11. /\ f \in [1 .. n -> 1 .. round]
       /\ \A i, j \in 1 .. n : f[i] = f[j] => i = j
       /\ \A k \in 1 .. n :
            /\ given[f[k]] # None
            /\ \E said \in Words :
                 transcript[k] = <<InputMessage("user", said)>> \o given[f[k]].response.items
  BY <1>1 DEF SentAs, Follows
<1>12. /\ \A i \in 1 .. round : answers'["replay"][i] = given[i]
       /\ answers'["replay"][round + 1] = answer
  <2> DEFINE A == AnswerType \cup {None}
  <2>1. given \in Seq(A) /\ answer \in A
    BY <1>6, <1>7
  <2> HIDE DEF given, A
  <2>2. /\ \A i \in 1 .. Len(given) : Append(given, answer)[i] = given[i]
        /\ Append(given, answer)[Len(given) + 1] = answer
    BY <2>1, AppendProperties
  <2> QED BY <1>5, <1>7, <2>2
<1> HIDE DEF given
<1>13. CASE answer = None
  <2>1. transcript' = transcript
    <3>1. Kept(words, answer) = <<>>
      BY <1>13 DEF Kept
    <3>2. transcript \o <<>> = transcript
      BY <1>8
    <3> QED BY <1>9, <3>1, <3>2
  <2>2. f \in [1 .. n -> 1 .. round + 1] /\ \A k \in 1 .. n : f[k] \in 1 .. round
    BY <1>7, <1>11
  <2>3. \A k \in 1 .. n :
          /\ answers'["replay"][f[k]] # None
          /\ \E said \in Words :
               transcript'[k] = <<InputMessage("user", said)>> \o answers'["replay"][f[k]].response.items
    BY <1>11, <1>12, <2>1, <2>2
  <2>4. Len(transcript') = n
    BY <2>1
  <2>5. SentAs(f)'
    BY <1>3, <1>11, <2>2, <2>3, <2>4 DEF SentAs, Follows
  <2> QED BY <2>5 DEF Sent
<1>14. CASE answer # None
  <2> DEFINE block == <<InputMessage("user", words)>> \o answer.response.items
             g == [k \in 1 .. n + 1 |-> IF k = n + 1 THEN round + 1 ELSE f[k]]
  <2>1. transcript' = transcript \o <<block>>
    BY <1>9, <1>14 DEF Kept
  <2>2. block \in S
    <3>1. InputMessage("user", words) \in ItemType
      BY <1>0, <1>4, RequestShape DEF ItemType
    <3>2. answer.response.items \in S
      BY <1>6, <1>14 DEF AnswerType, ResponseType, S
    <3> QED BY <3>1, <3>2 DEF S
  <2> HIDE DEF block
  <2>3. Append(transcript, block) = transcript \o <<block>>
    BY <1>8, <2>2
  <2>4. /\ Len(transcript') = n + 1 /\ transcript'[n + 1] = block
        /\ \A k \in 1 .. n : transcript'[k] = transcript[k]
    BY <1>8, <2>1, <2>2, <2>3, AppendProperties
  <2>5. g \in [1 .. n + 1 -> 1 .. round + 1]
    <3>1. \A k \in 1 .. n + 1 : k # n + 1 => f[k] \in 1 .. round
      BY <1>10, <1>11
    <3> QED BY <1>7, <3>1
  <2>6. \A k \in 1 .. n + 1 : k = n + 1 \/ (k \in 1 .. n /\ k # n + 1)
    BY <1>10
  <2>7. /\ g[n + 1] = round + 1
        /\ \A k \in 1 .. n : g[k] = f[k] /\ f[k] \in 1 .. round /\ f[k] # round + 1
    <3>1. \A k \in 1 .. n : f[k] \in 1 .. round /\ f[k] # round + 1 /\ k # n + 1
      BY <1>7, <1>10, <1>11
    <3>2. \A k \in 1 .. n : k \in 1 .. n + 1
      BY <1>10
    <3> QED BY <1>10, <3>1, <3>2
  <2> HIDE DEF g
  <2>8. \A i, j \in 1 .. n + 1 : g[i] = g[j] => i = j
    BY <1>11, <2>6, <2>7
  <2>9. ASSUME NEW k \in 1 .. n + 1
        PROVE  /\ answers'["replay"][g[k]] # None
               /\ \E said \in Words :
                    transcript'[k] = <<InputMessage("user", said)>> \o answers'["replay"][g[k]].response.items
    <3>1. CASE k = n + 1
      <4>1. answers'["replay"][g[k]] = answer /\ transcript'[k] = block
        BY <1>12, <2>4, <2>7, <3>1
      <4> QED BY <1>14, <4>1 DEF block
    <3>2. CASE k \in 1 .. n
      <4>1. answers'["replay"][g[k]] = given[f[k]] /\ transcript'[k] = transcript[k]
        BY <1>12, <2>4, <2>7, <3>2
      <4> QED BY <1>11, <3>2, <4>1
    <3> QED BY <2>6, <3>1, <3>2
  <2>10. Follows(g, transcript', answers'["replay"], round')
    <3> DEFINE given1 == answers'["replay"]
               sent1 == transcript'
               m == n + 1
    <3>1. Len(sent1) = m /\ round' = round + 1
      BY <1>3, <2>4
    <3>2. /\ g \in [1 .. m -> 1 .. round + 1]
          /\ \A i, j \in 1 .. m : g[i] = g[j] => i = j
          /\ \A k \in 1 .. m :
               /\ given1[g[k]] # None
               /\ \E said \in Words :
                    sent1[k] = <<InputMessage("user", said)>> \o given1[g[k]].response.items
      BY <2>5, <2>8, <2>9
    <3> HIDE DEF m, given1, sent1
    <3>3. Follows(g, sent1, given1, round')
      BY <3>1, <3>2 DEF Follows
    <3> QED BY <3>3 DEF given1, sent1
  <2>11. PICK h : h = g
    OBVIOUS
  <2>12. SentAs(h)'
    BY <2>10, <2>11 DEF SentAs
  <2> QED BY <2>12 DEF Sent
<1> QED BY <1>13, <1>14

LEMMA SentIsValid ==
  ASSUME DialogueInv, Sent
  PROVE  RepliesCanBeReplayed
<1> SUFFICES ASSUME \A answer \in Given("replay") : Replayable(answer) /\ Shown(answer.response) # <<>>,
                    NEW rounds \in SUBSET DOMAIN transcript
             PROVE  ValidReplay(Replay(rounds))
  BY DEF RepliesCanBeReplayed
<1>1. PICK f : SentAs(f)
  BY DEF Sent
<1> DEFINE n == Len(transcript)
           seqs == [i \in 1 .. n |-> IF i \in rounds THEN transcript[i] ELSE <<>>]
           S == Seq(ItemType)
           digests(k) == {<<"replay", f[j]>> : j \in 1 .. k}
<1>2. TypeOK /\ Rendered /\ "replay" \in Ways
  BY DEF DialogueInv, Ways
<1>3. transcript \in Seq(S) /\ round \in Nat /\ Len(answers["replay"]) = round
  BY <1>2 DEF TypeOK, Rendered
<1>4. n \in Nat /\ \A i \in 1 .. n : transcript[i] \in S
  <2> HIDE DEF S
  <2> QED BY <1>3
<1>5. seqs \in Seq(S) /\ Len(seqs) = n /\ \A i \in 1 .. n : seqs[i] = IF i \in rounds THEN transcript[i] ELSE <<>>
  <2>1. <<>> \in S
    OBVIOUS
  <2> HIDE DEF S
  <2> QED BY <1>4, <2>1
<1>6. Replay(rounds) = FlattenSeq(seqs)
  BY DEF Replay
<1>7. PICK g : Joins(ItemType, seqs, g)
  <2> HIDE DEF seqs
  <2> QED BY <1>5, FlattenIs
<1>8. FlattenSeq(seqs) = g[n]
  <2> HIDE DEF seqs, n
  <2>1. \A h : Joins(ItemType, seqs, h) => FlattenSeq(seqs) = h[Len(seqs)]
    BY <1>5, FlattenIs
  <2> QED BY <1>5, <1>7, <2>1
<1>9. \A k \in 1 .. n : f[k] \in 1 .. round /\ <<"replay", f[k]>> \in Digests
  BY <1>1, <1>2 DEF SentAs, Follows, Digests
<1> HIDE DEF seqs
<1>10. g[0] = <<>> /\ \A k \in 1 .. n : g[k] = g[k - 1] \o seqs[k]
  BY <1>5, <1>7 DEF Joins
<1>11. ASSUME NEW k \in 1 .. n PROVE Closed(seqs[k], {<<"replay", f[k]>>})
  <2>1. CASE k \notin rounds
    BY <1>5, <2>1, NothingIsClosed
  <2>2. CASE k \in rounds
    <3> DEFINE answer == answers["replay"][f[k]]
               digest == <<"replay", f[k]>>
    <3>1. answer # None /\ Renders(answer, digest) /\ digest \in Digests
      BY <1>1, <1>2, <1>9 DEF SentAs, Follows, Rendered
    <3>2. answer \in Given("replay")
      <4>1. f[k] \in DOMAIN answers["replay"]
        <5> DEFINE given == answers["replay"]
                   A == AnswerType \cup {None}
        <5>1. given \in Seq(A)
          BY <1>2 DEF TypeOK
        <5>2. Len(given) = round /\ f[k] \in 1 .. round
          BY <1>3, <1>9
        <5> HIDE DEF given, A
        <5>3. DOMAIN given = 1 .. Len(given)
          BY <5>1
        <5>4. f[k] \in DOMAIN given
          BY <5>2, <5>3
        <5> QED BY <5>4 DEF given
      <4> QED BY <3>1, <4>1 DEF Given
    <3>3. PICK words \in Words : transcript[k] = <<InputMessage("user", words)>> \o answer.response.items
      BY <1>1 DEF SentAs, Follows
    <3>4. Replayable(answer) /\ Shown(answer.response) # <<>>
      BY <3>2
    <3> HIDE DEF answer, digest
    <3>5. Closed(<<InputMessage("user", words)>> \o answer.response.items, {digest})
      BY <3>1, <3>4, RoundIsClosed
    <3>6. seqs[k] = transcript[k]
      BY <1>5, <2>2
    <3> QED BY <3>3, <3>5, <3>6 DEF digest
  <2> QED BY <2>1, <2>2
<1> DEFINE T == {k \in Nat : k <= n => Closed(g[k], digests(k))}
<1>12. Nat \subseteq T
  <2>1. 0 \in T
    BY <1>10, NothingIsClosed
  <2>2. ASSUME NEW k \in Nat, k \in T PROVE k + 1 \in T
    <3> SUFFICES ASSUME k + 1 <= n PROVE Closed(g[k + 1], digests(k + 1))
      OBVIOUS
    <3> DEFINE D == digests(k)
               E == {<<"replay", f[k + 1]>>}
    <3>1. k + 1 \in 1 .. n /\ k <= n
      BY <1>4
    <3>2. Closed(g[k], D)
      BY <2>2, <3>1
    <3>3. Closed(seqs[k + 1], E)
      BY <1>11, <3>1
    <3>4. D \cap E = {}
      <4>1. \A j \in 1 .. k : j \in 1 .. n /\ j # k + 1
        BY <1>4, <3>1
      <4>2. \A j \in 1 .. k : f[j] # f[k + 1]
        BY <1>1, <3>1, <4>1 DEF SentAs, Follows
      <4> QED BY <4>2
    <3>5. D \cup E = digests(k + 1)
      <4>1. 1 .. k + 1 = (1 .. k) \cup {k + 1}
        OBVIOUS
      <4> QED BY <4>1
    <3>6. g[k + 1] = g[k] \o seqs[k + 1]
      <4>1. (k + 1) - 1 = k
        OBVIOUS
      <4>2. g[k + 1] = g[(k + 1) - 1] \o seqs[k + 1]
        BY <1>10, <3>1
      <4> QED BY <4>1, <4>2
    <3> HIDE DEF D, E
    <3>7. Closed(g[k] \o seqs[k + 1], D \cup E)
      BY <3>2, <3>3, <3>4, ClosedBoth
    <3> QED BY <3>5, <3>6, <3>7
  <2> HIDE DEF T
  <2> QED BY <2>1, <2>2, SetInduction
<1>13. Closed(g[n], digests(n))
  <2>1. n \in T
    <3> HIDE DEF T, n
    <3> QED BY <1>4, <1>12
  <2>2. n <= n => Closed(g[n], digests(n))
    BY <2>1
  <2>3. n <= n
    <3> HIDE DEF n
    <3> QED BY <1>4
  <2> HIDE DEF n, digests
  <2> QED BY <2>2, <2>3
<1>14. digests(n) \subseteq Digests
  BY <1>9
<1>15. ValidReplay(g[n])
  <2> DEFINE D == digests(n)
  <2>1. Closed(g[n], D) /\ D \subseteq Digests
    BY <1>13, <1>14
  <2> HIDE DEF D
  <2> QED BY <2>1, ClosedIsValid
<1> QED BY <1>6, <1>8, <1>15

\* Whatever rounds of a dialogue a client picks, their items pass the validation
\* of replayed items: a server accepts what it has said itself.
THEOREM RepliesAreReplayable == DialogueSpec => []RepliesCanBeReplayed
<1>1. DialogueInit => Sent
  <2> SUFFICES ASSUME DialogueInit PROVE Sent
    OBVIOUS
  <2>1. Len(transcript) = 0 /\ 1 .. 0 = {}
    BY DEF DialogueInit
  <2>2. SentAs([k \in 1 .. 0 |-> k])
    BY <2>1 DEF SentAs, Follows
  <2> QED BY <2>2 DEF Sent
<1>2. DialogueInv /\ DialogueInv' /\ Sent /\ [DialogueNext]_dialogueVars => Sent'
  <2>1. Sent /\ UNCHANGED dialogueVars => Sent'
    <3> SUFFICES ASSUME Sent, UNCHANGED dialogueVars PROVE Sent'
      OBVIOUS
    <3>1. PICK f : SentAs(f)
      BY DEF Sent
    <3>2. transcript' = transcript /\ answers' = answers /\ round' = round
      BY DEF dialogueVars
    <3>3. SentAs(f)'
      BY <3>1, <3>2 DEF SentAs, Follows
    <3> QED BY <3>3 DEF Sent
  <2> QED BY <2>1, SentStep DEF DialogueNext
<1>3. DialogueInv /\ Sent => RepliesCanBeReplayed
  BY SentIsValid
<1> QED BY <1>1, <1>2, <1>3, DialogueInvHolds, PTL DEF DialogueSpec

(***************************************************************************)
(* Elements of a sequence by their places.                                 *)
(***************************************************************************)
Parts(s, places) == [p \in DOMAIN s |-> IF p \in places THEN <<s[p]>> ELSE <<>>]

\* The sequence e has the elements of s at the places, and no others.
HasElements(s, places, e) ==
  /\ \A k \in 1 .. Len(e) : \E p \in 1 .. Len(s) : p \in places /\ e[k] = s[p]
  /\ \A p \in 1 .. Len(s) : p \in places => \E k \in 1 .. Len(e) : e[k] = s[p]

LEMMA PartsTyped ==
  ASSUME NEW A, NEW s \in Seq(A), NEW places
  PROVE  /\ Parts(s, places) \in Seq(Seq(A)) /\ Len(Parts(s, places)) = Len(s)
         /\ \A p \in 1 .. Len(s) : Parts(s, places)[p] = IF p \in places THEN <<s[p]>> ELSE <<>>
         /\ ElementsAt(s, places) = FlattenSeq(Parts(s, places))
<1> DEFINE S == Seq(A)
           n == Len(s)
<1>1. n \in Nat /\ DOMAIN s = 1 .. n /\ \A p \in 1 .. n : s[p] \in A
  OBVIOUS
<1>2. \A p \in 1 .. n : (IF p \in places THEN <<s[p]>> ELSE <<>>) \in S
  BY <1>1
<1>3. ElementsAt(s, places) = FlattenSeq(Parts(s, places))
  BY DEF ElementsAt, Parts
<1> HIDE DEF n, S
<1>4. Parts(s, places) = [p \in 1 .. n |-> IF p \in places THEN <<s[p]>> ELSE <<>>]
  BY <1>1 DEF Parts
<1>5. Parts(s, places) \in [1 .. n -> S]
  BY <1>2, <1>4
<1>6. Parts(s, places) \in Seq(S) /\ Len(Parts(s, places)) = n
  BY <1>1, <1>5
<1> QED BY <1>3, <1>4, <1>6 DEF n, S

LEMMA ElementsAtIs ==
  ASSUME NEW A, NEW s \in Seq(A), NEW places
  PROVE  ElementsAt(s, places) \in Seq(A) /\ HasElements(s, places, ElementsAt(s, places))
<1> DEFINE parts == Parts(s, places)
           e == ElementsAt(s, places)
<1>1. /\ parts \in Seq(Seq(A)) /\ Len(parts) = Len(s)
      /\ \A p \in 1 .. Len(s) : parts[p] = IF p \in places THEN <<s[p]>> ELSE <<>>
      /\ e = FlattenSeq(parts)
  BY PartsTyped
<1> HIDE DEF parts, e
<1>2. e \in Seq(A) /\ FlattenedElements(parts, e)
  BY <1>1, FlattenElements
<1>3. \A p \in 1 .. Len(s) : \A j \in 1 .. Len(parts[p]) : p \in places /\ parts[p][j] = s[p]
  <2> SUFFICES ASSUME NEW p \in 1 .. Len(s), NEW j \in 1 .. Len(parts[p])
               PROVE  p \in places /\ parts[p][j] = s[p]
    OBVIOUS
  <2>1. CASE p \in places
    <3>1. parts[p] = <<s[p]>>
      BY <1>1, <2>1
    <3> QED BY <2>1, <3>1
  <2>2. CASE p \notin places
    <3>1. parts[p] = <<>>
      BY <1>1, <2>2
    <3> QED BY <3>1
  <2> QED BY <2>1, <2>2
<1>4. \A p \in 1 .. Len(s) : p \in places => 1 \in 1 .. Len(parts[p]) /\ parts[p][1] = s[p]
  <2> SUFFICES ASSUME NEW p \in 1 .. Len(s), p \in places
               PROVE  1 \in 1 .. Len(parts[p]) /\ parts[p][1] = s[p]
    OBVIOUS
  <2>1. parts[p] = <<s[p]>>
    BY <1>1
  <2> QED BY <2>1
<1>5. ASSUME NEW k \in 1 .. Len(e) PROVE \E p \in 1 .. Len(s) : p \in places /\ e[k] = s[p]
  <2>1. PICK p \in 1 .. Len(parts) : \E j \in 1 .. Len(parts[p]) : e[k] = parts[p][j]
    BY <1>2 DEF FlattenedElements
  <2>2. PICK j \in 1 .. Len(parts[p]) : e[k] = parts[p][j]
    BY <2>1
  <2>3. p \in 1 .. Len(s)
    BY <1>1
  <2>4. p \in places /\ parts[p][j] = s[p]
    BY <1>3, <2>3
  <2> QED BY <2>2, <2>3, <2>4
<1>6. ASSUME NEW p \in 1 .. Len(s), p \in places PROVE \E k \in 1 .. Len(e) : e[k] = s[p]
  <2>1. p \in 1 .. Len(parts)
    BY <1>1
  <2>2. 1 \in 1 .. Len(parts[p]) /\ parts[p][1] = s[p]
    BY <1>4, <1>6
  <2>3. \E k \in 1 .. Len(e) : e[k] = parts[p][1]
    BY <1>2, <2>1, <2>2 DEF FlattenedElements
  <2> QED BY <2>2, <2>3
<1>7. HasElements(s, places, e)
  BY <1>5, <1>6 DEF HasElements
<1> QED BY <1>2, <1>7 DEF e

\* None and one.
LEMMA NoElements ==
  ASSUME NEW A, NEW s \in Seq(A), NEW places, \A p \in 1 .. Len(s) : p \notin places
  PROVE  ElementsAt(s, places) = <<>>
<1> DEFINE e == ElementsAt(s, places)
<1>1. e \in Seq(A) /\ HasElements(s, places, e)
  BY ElementsAtIs
<1> HIDE DEF e
<1>2. \A k \in 1 .. Len(e) : FALSE
  BY <1>1 DEF HasElements
<1>3. Len(e) \in Nat
  BY <1>1
<1>4. Len(e) = 0
  <2>1. Len(e) > 0 => 1 \in 1 .. Len(e)
    BY <1>3
  <2> QED BY <1>2, <1>3, <2>1
<1>5. e = <<>>
  BY <1>1, <1>4
<1> QED BY <1>5 DEF e

LEMMA OneElement ==
  ASSUME NEW A, NEW s \in Seq(A), NEW places, NEW q \in 1 .. Len(s),
         \A p \in 1 .. Len(s) : p \in places <=> p = q
  PROVE  ElementsAt(s, places) = <<s[q]>>
<1> DEFINE parts == Parts(s, places)
           n == Len(s)
           one == <<s[q]>>
           h == [k \in 0 .. n |-> IF k < q THEN <<>> ELSE one]
<1>1. /\ parts \in Seq(Seq(A)) /\ Len(parts) = n
      /\ \A p \in 1 .. n : parts[p] = IF p \in places THEN <<s[p]>> ELSE <<>>
      /\ ElementsAt(s, places) = FlattenSeq(parts)
  BY PartsTyped
<1>2. n \in Nat /\ q \in Nat /\ 1 <= q /\ q <= n /\ one \in Seq(A) /\ <<>> \in Seq(A)
  OBVIOUS
<1>3. one \o <<>> = one /\ <<>> \o one = one /\ <<>> \o <<>> = <<>>
  OBVIOUS
<1>4. \A p \in 1 .. n : parts[p] = IF p = q THEN one ELSE <<>>
  <2>1. \A p \in 1 .. n : p \in places <=> p = q
    OBVIOUS
  <2> HIDE DEF parts
  <2> QED BY <1>1, <2>1
<1> HIDE DEF parts, n, one
<1>5. h \in [0 .. n -> Seq(A)] /\ h[0] = <<>>
  BY <1>2
<1>6. ASSUME NEW k \in 1 .. n PROVE h[k] = h[k - 1] \o parts[k]
  <2>1. k \in 0 .. n /\ k - 1 \in 0 .. n
    BY <1>2
  <2>2. h[k] = (IF k < q THEN <<>> ELSE one) /\ h[k - 1] = (IF k - 1 < q THEN <<>> ELSE one)
    BY <2>1
  <2> HIDE DEF h
  <2>3. CASE k < q
    <3>1. k - 1 < q /\ k # q
      BY <1>2, <2>3
    <3> QED BY <1>3, <1>4, <2>2, <2>3, <3>1
  <2>4. CASE k = q
    <3>1. k - 1 < q /\ ~(k < q)
      BY <1>2, <2>4
    <3> QED BY <1>3, <1>4, <2>2, <2>4, <3>1
  <2>5. CASE k > q
    <3>1. ~(k - 1 < q) /\ ~(k < q) /\ k # q
      BY <1>2, <2>5
    <3> QED BY <1>3, <1>4, <2>2, <2>5, <3>1
  <2>6. k \in Nat
    BY <1>2
  <2>7. k < q \/ k = q \/ k > q
    BY <1>2, <2>6
  <2> QED BY <2>3, <2>4, <2>5, <2>7
<1>7. h[n] = one
  BY <1>2
<1> HIDE DEF h
<1>8. Joins(A, parts, h)
  BY <1>1, <1>5, <1>6 DEF Joins
<1>9. FlattenSeq(parts) = h[Len(parts)]
  BY <1>1, <1>8, FlattenIs
<1> QED BY <1>1, <1>7, <1>9 DEF one

\* All of a sequence, and nothing after.
LEMMA AllInPlace ==
  ASSUME NEW A, NEW t \in Seq(A), NEW parts \in Seq(Seq(A)), Len(t) <= Len(parts),
         \A k \in 1 .. Len(parts) : parts[k] = IF k <= Len(t) THEN <<t[k]>> ELSE <<>>
  PROVE  FlattenSeq(parts) = t
<1> DEFINE n == Len(t)
           m == Len(parts)
           Part(k) == IF k <= n THEN SubSeq(t, 1, k) ELSE t
           h == [k \in 0 .. m |-> Part(k)]
<1>1. n \in Nat /\ m \in Nat /\ n <= m
  OBVIOUS
<1>2. \A k \in 0 .. n : SubSeq(t, 1, k) \in Seq(A) /\ Len(SubSeq(t, 1, k)) = k
  BY SubSeqProperties
<1>3. SubSeq(t, 1, 0) = <<>> /\ SubSeq(t, 1, n) = t
  BY <1>1, <1>2
<1>4. ASSUME NEW k \in 1 .. n
      PROVE  SubSeq(t, 1, k) = SubSeq(t, 1, k - 1) \o <<t[k]>>
  <2> DEFINE s == SubSeq(t, 1, k - 1)
  <2>1. k - 1 \in 0 .. n /\ k - 1 < n /\ (k - 1) + 1 = k
    BY <1>1
  <2>2. s \in Seq(A) /\ Len(s) = k - 1
    BY <1>2, <2>1
  <2>3. \A i \in 1 .. k - 1 : s[i] = t[i]
    BY <2>1, SubSeqProperties
  <2>4. t[k] \in A
    OBVIOUS
  <2> HIDE DEF s
  <2>5. SubSeq(t, 1, Len(s) + 1) = Append(s, t[Len(s) + 1])
    <3>1. Len(s) < Len(t) /\ \A i \in 1 .. Len(s) : s[i] = t[i]
      BY <2>1, <2>2, <2>3
    <3> QED BY <2>2, <3>1, PrefixGrows
  <2>6. SubSeq(t, 1, k) = Append(s, t[k])
    BY <2>1, <2>2, <2>5
  <2>7. Append(s, t[k]) = s \o <<t[k]>>
    <3>1. PICK x \in A : x = t[k]
      BY <2>4
    <3>2. Append(s, x) = s \o <<x>>
      BY <2>2
    <3> QED BY <3>1, <3>2
  <2> QED BY <2>6, <2>7 DEF s
<1>5. h \in [0 .. m -> Seq(A)] /\ h[0] = <<>>
  <2>1. \A k \in 0 .. m : Part(k) \in Seq(A)
    BY <1>1, <1>2
  <2>2. Part(0) = <<>> /\ 0 \in 0 .. m
    BY <1>1, <1>3
  <2> HIDE DEF Part
  <2> QED BY <2>1, <2>2
<1>6. ASSUME NEW k \in 1 .. m PROVE h[k] = h[k - 1] \o parts[k]
  <2>1. h[k] = Part(k) /\ h[k - 1] = Part(k - 1)
    <3>1. k \in 0 .. m /\ k - 1 \in 0 .. m
      BY <1>1
    <3> HIDE DEF Part
    <3> QED BY <3>1
  <2>2. CASE k <= n
    <3>1. k \in 1 .. n /\ k - 1 <= n
      BY <1>1, <2>2
    <3>2. Part(k) = SubSeq(t, 1, k) /\ Part(k - 1) = SubSeq(t, 1, k - 1)
      BY <2>2, <3>1
    <3> QED BY <1>4, <2>1, <2>2, <3>1, <3>2
  <2>3. CASE ~(k <= n)
    <3>1. Part(k) = t
      BY <2>3
    <3>2. Part(k - 1) = t
      <4>1. k - 1 = n \/ ~(k - 1 <= n)
        <5> HIDE DEF n, m
        <5>1. k \in Nat
          BY <1>1
        <5> QED BY <1>1, <2>3, <5>1
      <4> QED BY <1>1, <1>3, <4>1
    <3>3. parts[k] = <<>>
      BY <2>3
    <3>4. t \o <<>> = t
      OBVIOUS
    <3> QED BY <2>1, <3>1, <3>2, <3>3, <3>4
  <2> QED BY <2>2, <2>3
<1>7. h[m] = t
  <2>1. Part(m) = t
    <3>1. m = n \/ ~(m <= n)
      BY <1>1
    <3> QED BY <1>3, <3>1
  <2>2. m \in 0 .. m
    BY <1>1
  <2> HIDE DEF Part
  <2> QED BY <2>1, <2>2
<1> HIDE DEF h
<1>8. Joins(A, parts, h)
  BY <1>5, <1>6 DEF Joins
<1>9. FlattenSeq(parts) = h[Len(parts)]
  BY <1>8, FlattenIs
<1> QED BY <1>7, <1>9

(***************************************************************************)
(* Rows and the turns they are loaded as.                                  *)
(***************************************************************************)
RowType == [conversation : Conversations, index : Nat, turn : ScriptTurn]

RowAt(sources, i, j) ==
  [conversation |-> sources[i].conversation, index |-> j - 1, turn |-> sources[i].turns[j]]

\* The rows are those of the sources, none has an index as large as their number.
HasRows(sources, rows) ==
  /\ \A p \in 1 .. Len(rows) :
       \E i \in 1 .. Len(sources) : \E j \in 1 .. Len(sources[i].turns) :
         rows[p] = RowAt(sources, i, j)
  /\ \A i \in 1 .. Len(sources) : \A j \in 1 .. Len(sources[i].turns) :
       \E p \in 1 .. Len(rows) : rows[p] = RowAt(sources, i, j)
  /\ \A i \in 1 .. Len(sources) : Len(sources[i].turns) <= Len(rows)

RowParts(sources) ==
  [i \in DOMAIN sources |-> RowsOf(sources[i].conversation, sources[i].turns)]

LEMMA RowPartsTyped ==
  ASSUME NEW sources \in Seq(Source)
  PROVE  /\ RowParts(sources) \in Seq(Seq(RowType)) /\ Len(RowParts(sources)) = Len(sources)
         /\ \A i \in 1 .. Len(sources) :
              /\ Len(RowParts(sources)[i]) = Len(sources[i].turns)
              /\ \A j \in 1 .. Len(sources[i].turns) :
                   RowParts(sources)[i][j] = RowAt(sources, i, j)
         /\ Rows(sources) = FlattenSeq(RowParts(sources))
<1> DEFINE n == Len(sources)
           S == Seq(RowType)
           R(i) == RowsOf(sources[i].conversation, sources[i].turns)
<1>1. n \in Nat /\ DOMAIN sources = 1 .. n /\ \A i \in 1 .. n : sources[i] \in Source
  OBVIOUS
<1>2. ASSUME NEW i \in 1 .. n
      PROVE  /\ R(i) \in S /\ Len(R(i)) = Len(sources[i].turns)
             /\ \A j \in 1 .. Len(sources[i].turns) : R(i)[j] = RowAt(sources, i, j)
  <2> DEFINE c == sources[i].conversation
             t == sources[i].turns
  <2>1. c \in Conversations /\ t \in Seq(ScriptTurn)
    BY <1>1 DEF Source
  <2>2. R(i) = [j \in DOMAIN t |-> [conversation |-> c, index |-> j - 1, turn |-> t[j]]]
    BY DEF RowsOf
  <2>3. \A j \in 1 .. Len(t) :
          RowAt(sources, i, j) = [conversation |-> c, index |-> j - 1, turn |-> t[j]]
    BY DEF RowAt
  <2> HIDE DEF c, t, R
  <2>4. Len(t) \in Nat /\ DOMAIN t = 1 .. Len(t) /\ \A j \in 1 .. Len(t) : t[j] \in ScriptTurn
    BY <2>1
  <2>5. \A j \in 1 .. Len(t) : j - 1 \in Nat
    BY <2>4
  <2>6. \A j \in 1 .. Len(t) :
          [conversation |-> c, index |-> j - 1, turn |-> t[j]] \in RowType
    BY <2>1, <2>4, <2>5 DEF RowType
  <2>7. R(i) \in [1 .. Len(t) -> RowType]
    BY <2>2, <2>4, <2>6
  <2>8. R(i) \in Seq(RowType) /\ Len(R(i)) = Len(t)
    BY <2>4, <2>7
  <2>9. \A j \in 1 .. Len(t) : R(i)[j] = RowAt(sources, i, j)
    BY <2>2, <2>3, <2>4
  <2> QED BY <2>8, <2>9 DEF t
<1>3. RowParts(sources) = [i \in 1 .. n |-> R(i)]
  BY <1>1 DEF RowParts
<1>4. Rows(sources) = FlattenSeq(RowParts(sources))
  BY DEF Rows, RowParts
<1> HIDE DEF R, n, S
<1>5. RowParts(sources) \in [1 .. n -> S]
  BY <1>2, <1>3
<1>6. RowParts(sources) \in Seq(S) /\ Len(RowParts(sources)) = n
  BY <1>1, <1>5
<1>7. \A i \in 1 .. n : RowParts(sources)[i] = R(i)
  BY <1>3
<1> QED BY <1>2, <1>4, <1>6, <1>7 DEF n, S

LEMMA RowsAre ==
  ASSUME NEW sources \in Seq(Source)
  PROVE  Rows(sources) \in Seq(RowType) /\ HasRows(sources, Rows(sources))
<1> DEFINE rows == Rows(sources)
           parts == RowParts(sources)
           n == Len(sources)
<1>1. /\ parts \in Seq(Seq(RowType)) /\ Len(parts) = n
      /\ \A i \in 1 .. n : Len(parts[i]) = Len(sources[i].turns)
      /\ \A i \in 1 .. n : \A j \in 1 .. Len(sources[i].turns) : parts[i][j] = RowAt(sources, i, j)
      /\ rows = FlattenSeq(parts)
  BY RowPartsTyped
<1>2. n \in Nat
  OBVIOUS
<1> HIDE DEF parts, rows, n
<1>3. rows \in Seq(RowType) /\ FlattenedElements(parts, rows)
  BY <1>1, FlattenElements
<1>4. PICK at : Offsets(parts, at) /\ Len(rows) = at[n]
  BY <1>1, FlattenPlaces
<1>5. ASSUME NEW i \in 1 .. n PROVE Len(sources[i].turns) <= Len(rows)
  <2>1. i \in 0 .. n /\ i - 1 \in 0 .. n /\ n \in 0 .. n /\ i <= n
    BY <1>2
  <2>2. at \in [0 .. n -> Nat] /\ at[i] = at[i - 1] + Len(parts[i])
    BY <1>1, <1>4 DEF Offsets
  <2>3. at[i] <= at[n]
    <3>1. \A k, l \in 0 .. n : k <= l => at[k] <= at[l]
      BY <1>1, <1>4, OffsetsGrow
    <3> QED BY <2>1, <3>1
  <2>4. at[i - 1] \in Nat /\ at[n] \in Nat /\ at[i] \in Nat
    BY <2>1, <2>2
  <2>5. Len(parts[i]) \in Nat
    BY <1>1
  <2> HIDE DEF n
  <2>6. Len(parts[i]) <= at[n]
    BY <2>2, <2>3, <2>4, <2>5
  <2> QED BY <1>1, <1>4, <2>6
<1>6. ASSUME NEW p \in 1 .. Len(rows)
      PROVE  \E i \in 1 .. n : \E j \in 1 .. Len(sources[i].turns) : rows[p] = RowAt(sources, i, j)
  <2>1. PICK i \in 1 .. n : \E j \in 1 .. Len(parts[i]) : rows[p] = parts[i][j]
    BY <1>1, <1>3 DEF FlattenedElements
  <2>2. PICK j \in 1 .. Len(parts[i]) : rows[p] = parts[i][j]
    BY <2>1
  <2>3. j \in 1 .. Len(sources[i].turns)
    BY <1>1
  <2>4. rows[p] = RowAt(sources, i, j)
    BY <1>1, <2>2, <2>3
  <2> QED BY <2>3, <2>4
<1>7. ASSUME NEW i \in 1 .. n, NEW j \in 1 .. Len(sources[i].turns)
      PROVE  \E p \in 1 .. Len(rows) : rows[p] = RowAt(sources, i, j)
  <2>1. i \in 1 .. Len(parts) /\ j \in 1 .. Len(parts[i])
    BY <1>1
  <2>2. \E p \in 1 .. Len(rows) : rows[p] = parts[i][j]
    BY <1>3, <2>1 DEF FlattenedElements
  <2> QED BY <1>1, <2>2
<1>8. HasRows(sources, rows)
  BY <1>5, <1>6, <1>7 DEF HasRows, n
<1> QED BY <1>3, <1>8 DEF rows

\* Sources with ids of their own have no two rows at the same place.
SameRow(row, other) ==
  row.conversation = other.conversation /\ row.index = other.index

LEMMA RowsApart ==
  ASSUME NEW sources \in Seq(Source), DistinctIds(sources),
         NEW p \in 1 .. Len(Rows(sources)), NEW q \in 1 .. Len(Rows(sources)),
         SameRow(Rows(sources)[p], Rows(sources)[q])
  PROVE  p = q
<1> DEFINE rows == Rows(sources)
           parts == RowParts(sources)
           n == Len(sources)
           R == {pair \in RowType \X RowType : ~SameRow(pair[1], pair[2])}
<1>1. /\ parts \in Seq(Seq(RowType)) /\ Len(parts) = n
      /\ \A i \in 1 .. n : Len(parts[i]) = Len(sources[i].turns)
      /\ \A i \in 1 .. n : \A j \in 1 .. Len(sources[i].turns) : parts[i][j] = RowAt(sources, i, j)
      /\ rows = FlattenSeq(parts)
  BY RowPartsTyped
<1>2. DOMAIN sources = 1 .. n /\ Len(rows) \in Nat
  <2>1. rows \in Seq(RowType)
    BY RowsAre
  <2> HIDE DEF rows
  <2> QED BY <2>1
<1> HIDE DEF parts, rows, n
<1>3. \A i \in 1 .. n : \A j \in 1 .. Len(parts[i]) :
        parts[i][j] \in RowType /\ parts[i][j].conversation = sources[i].conversation
        /\ parts[i][j].index = j - 1
  <2> SUFFICES ASSUME NEW i \in 1 .. n, NEW j \in 1 .. Len(parts[i])
               PROVE  parts[i][j] \in RowType /\ parts[i][j].conversation = sources[i].conversation
                      /\ parts[i][j].index = j - 1
    OBVIOUS
  <2>1. parts[i] \in Seq(RowType)
    BY <1>1
  <2>2. parts[i][j] \in RowType
    BY <2>1
  <2>3. parts[i][j] = RowAt(sources, i, j)
    BY <1>1
  <2> QED BY <2>2, <2>3 DEF RowAt
<1>4. ASSUME NEW i \in 1 .. n, NEW j \in 1 .. Len(parts[i]), NEW l \in 1 .. Len(parts[i]), j < l
      PROVE  <<parts[i][j], parts[i][l]>> \in R
  <2>1. j - 1 # l - 1
    <3>1. Len(parts[i]) \in Nat
      BY <1>1
    <3> QED BY <1>4, <3>1
  <2>2. ~SameRow(parts[i][j], parts[i][l])
    BY <1>3, <2>1 DEF SameRow
  <2> QED BY <1>3, <2>2
<1>5. ASSUME NEW i \in 1 .. n, NEW h \in 1 .. n, i < h,
             NEW j \in 1 .. Len(parts[i]), NEW l \in 1 .. Len(parts[h])
      PROVE  <<parts[i][j], parts[h][l]>> \in R
  <2>1. i # h
    BY <1>5
  <2>2. sources[i].conversation # sources[h].conversation
    BY <1>2, <2>1 DEF DistinctIds
  <2>3. ~SameRow(parts[i][j], parts[h][l])
    BY <1>3, <2>2 DEF SameRow
  <2> QED BY <1>3, <2>3
<1> HIDE DEF R
<1>6. \A k, l \in 1 .. Len(FlattenSeq(parts)) :
        k < l => <<FlattenSeq(parts)[k], FlattenSeq(parts)[l]>> \in R
  <2>1. \A i \in 1 .. Len(parts) : \A j, l \in 1 .. Len(parts[i]) :
          j < l => <<parts[i][j], parts[i][l]>> \in R
    BY <1>1, <1>4
  <2>2. \A i, h \in 1 .. Len(parts) : i < h =>
          \A j \in 1 .. Len(parts[i]) : \A l \in 1 .. Len(parts[h]) :
            <<parts[i][j], parts[h][l]>> \in R
    BY <1>1, <1>5
  <2> QED BY <1>1, <2>1, <2>2, FlattenSorted
<1>7. \A k, l \in 1 .. Len(rows) : k < l => <<rows[k], rows[l]>> \in R
  BY <1>1, <1>6
<1>8. p \in 1 .. Len(rows) /\ q \in 1 .. Len(rows) /\ SameRow(rows[p], rows[q])
  BY DEF rows
<1>9. \A k, l \in 1 .. Len(rows) : k < l => ~SameRow(rows[k], rows[l])
  BY <1>7 DEF R
<1>10. ~(p < q) /\ ~(q < p)
  BY <1>8, <1>9 DEF SameRow
<1> QED BY <1>2, <1>8, <1>10

(***************************************************************************)
(* The turns of a conversation.                                            *)
(***************************************************************************)
Indexed(rows, c, n) == {p \in DOMAIN rows : rows[p].conversation = c /\ rows[p].index = n}

RowTurns(rows) == [p \in DOMAIN rows |-> rows[p].turn]

TurnParts(rows, c) ==
  [n \in DOMAIN rows |-> ElementsAt(RowTurns(rows), Indexed(rows, c, n - 1))]

LEMMA TurnPartsTyped ==
  ASSUME NEW rows \in Seq(RowType), NEW c
  PROVE  /\ RowTurns(rows) \in Seq(ScriptTurn) /\ Len(RowTurns(rows)) = Len(rows)
         /\ \A p \in 1 .. Len(rows) : RowTurns(rows)[p] = rows[p].turn
         /\ TurnParts(rows, c) \in Seq(Seq(ScriptTurn)) /\ Len(TurnParts(rows, c)) = Len(rows)
         /\ \A n \in 1 .. Len(rows) :
              TurnParts(rows, c)[n] = ElementsAt(RowTurns(rows), Indexed(rows, c, n - 1))
         /\ TurnsOf(rows, c) = FlattenSeq(TurnParts(rows, c))
<1> DEFINE m == Len(rows)
           turns == RowTurns(rows)
           S == Seq(ScriptTurn)
<1>1. m \in Nat /\ DOMAIN rows = 1 .. m /\ \A p \in 1 .. m : rows[p] \in RowType
  OBVIOUS
<1>2. TurnsOf(rows, c) = FlattenSeq(TurnParts(rows, c))
  BY DEF TurnsOf, TurnParts, RowTurns, Indexed
<1>3. turns = [p \in 1 .. m |-> rows[p].turn]
  BY <1>1 DEF RowTurns
<1>4. \A p \in 1 .. m : rows[p].turn \in ScriptTurn
  BY <1>1 DEF RowType
<1> HIDE DEF turns, m, S
<1>5. turns \in S /\ Len(turns) = m
  <2>1. turns \in [1 .. m -> ScriptTurn]
    BY <1>3, <1>4
  <2> QED BY <1>1, <2>1 DEF S
<1>6. \A places : ElementsAt(turns, places) \in S
  <2>1. turns \in Seq(ScriptTurn)
    BY <1>5 DEF S
  <2>2. \A places : ElementsAt(turns, places) \in Seq(ScriptTurn)
    BY <2>1, ElementsAtIs
  <2> QED BY <2>2 DEF S
<1>7. TurnParts(rows, c) = [n \in 1 .. m |-> ElementsAt(turns, Indexed(rows, c, n - 1))]
  BY <1>1 DEF TurnParts, turns
<1>8. TurnParts(rows, c) \in [1 .. m -> S]
  BY <1>6, <1>7
<1>9. TurnParts(rows, c) \in Seq(S) /\ Len(TurnParts(rows, c)) = m
  BY <1>1, <1>8
<1>10. \A p \in 1 .. m : turns[p] = rows[p].turn
  BY <1>3
<1>11. \A n \in 1 .. m :
         TurnParts(rows, c)[n] = ElementsAt(turns, Indexed(rows, c, n - 1))
  BY <1>7
<1> QED BY <1>2, <1>5, <1>9, <1>10, <1>11 DEF turns, m, S

\* Sources with ids of their own are loaded as they were written.
LEMMA TurnsAreLoaded ==
  ASSUME NEW sources \in Seq(Source), DistinctIds(sources), NEW i \in 1 .. Len(sources)
  PROVE  TurnsOf(Rows(sources), sources[i].conversation) = sources[i].turns
<1> DEFINE rows == Rows(sources)
           c == sources[i].conversation
           t == sources[i].turns
           turns == RowTurns(rows)
           parts == TurnParts(rows, c)
           n == Len(rows)
<1>1. rows \in Seq(RowType) /\ HasRows(sources, rows)
  BY RowsAre
<1>2. /\ turns \in Seq(ScriptTurn) /\ Len(turns) = n
      /\ \A p \in 1 .. n : turns[p] = rows[p].turn
      /\ parts \in Seq(Seq(ScriptTurn)) /\ Len(parts) = n
      /\ \A k \in 1 .. n : parts[k] = ElementsAt(turns, Indexed(rows, c, k - 1))
      /\ TurnsOf(rows, c) = FlattenSeq(parts)
  <2>1. rows \in Seq(RowType)
    BY <1>1
  <2> HIDE DEF rows, c
  <2> QED BY <2>1, TurnPartsTyped
<1>3. /\ \A p \in 1 .. n : \E h \in 1 .. Len(sources) : \E j \in 1 .. Len(sources[h].turns) :
           rows[p] = RowAt(sources, h, j)
      /\ \A j \in 1 .. Len(t) : \E p \in 1 .. n : rows[p] = RowAt(sources, i, j)
      /\ Len(t) <= n
  BY <1>1 DEF HasRows
<1>4. \A p, q \in 1 .. n : SameRow(rows[p], rows[q]) => p = q
  BY RowsApart
<1>5. DOMAIN sources = 1 .. Len(sources) /\ t \in Seq(ScriptTurn)
  <2>1. sources[i] \in Source
    OBVIOUS
  <2> QED BY <2>1 DEF Source
<1>6. n \in Nat /\ DOMAIN rows = 1 .. n
  <2> HIDE DEF rows
  <2> QED BY <1>1
<1>7. Len(t) \in Nat
  BY <1>5
<1> HIDE DEF rows, turns, parts, n, t
<1>8. ASSUME NEW k \in 1 .. n, k <= Len(t)
      PROVE  ElementsAt(turns, Indexed(rows, c, k - 1)) = <<t[k]>>
  <2>1. k \in 1 .. Len(t)
    BY <1>6, <1>7, <1>8
  <2>2. PICK q \in 1 .. n : rows[q] = RowAt(sources, i, k)
    BY <1>3, <2>1
  <2>3. rows[q].conversation = c /\ rows[q].index = k - 1 /\ rows[q].turn = t[k]
    BY <2>2 DEF RowAt, t
  <2> HIDE DEF c
  <2>4. \A p \in 1 .. n : p \in Indexed(rows, c, k - 1) <=> p = q
    BY <1>4, <1>6, <2>3 DEF Indexed, SameRow
  <2>5. ElementsAt(turns, Indexed(rows, c, k - 1)) = <<turns[q]>>
    BY <1>2, <2>4, OneElement
  <2> QED BY <1>2, <2>3, <2>5
<1>9. ASSUME NEW k \in 1 .. n, ~(k <= Len(t))
      PROVE  ElementsAt(turns, Indexed(rows, c, k - 1)) = <<>>
  <2>1. ASSUME NEW p \in 1 .. n, p \in Indexed(rows, c, k - 1) PROVE FALSE
    <3>0. PICK h \in 1 .. Len(sources) : \E j \in 1 .. Len(sources[h].turns) :
            rows[p] = RowAt(sources, h, j)
      BY <1>3
    <3>1. PICK j \in 1 .. Len(sources[h].turns) : rows[p] = RowAt(sources, h, j)
      BY <3>0
    <3>2. sources[h].conversation = sources[i].conversation /\ j - 1 = k - 1
      BY <2>1, <3>1 DEF Indexed, RowAt
    <3>3. h = i
      BY <1>5, <3>2 DEF DistinctIds
    <3>4. j \in 1 .. Len(t)
      BY <3>3 DEF t
    <3>5. j = k
      BY <1>6, <1>7, <3>2, <3>4
    <3> QED BY <1>7, <1>9, <3>4, <3>5
  <2> HIDE DEF c
  <2>2. \A p \in 1 .. Len(turns) : p \notin Indexed(rows, c, k - 1)
    BY <1>2, <2>1
  <2> QED BY <1>2, <2>2, NoElements
<1>10. \A k \in 1 .. Len(parts) : parts[k] = IF k <= Len(t) THEN <<t[k]>> ELSE <<>>
  BY <1>2, <1>8, <1>9
<1>11. FlattenSeq(parts) = t
  BY <1>2, <1>3, <1>5, <1>10, AllInPlace
<1> QED BY <1>2, <1>11 DEF rows, t

\* What is loaded of any sources is turns, a reply among them if a row has one.
LEMMA LoadedTurnsTyped ==
  ASSUME NEW sources \in Seq(Source), NEW c
  PROVE  /\ TurnsOf(Rows(sources), c) \in Seq(ScriptTurn)
         /\ \A p \in 1 .. Len(Rows(sources)) : Rows(sources)[p].conversation = c =>
              \E k \in 1 .. Len(TurnsOf(Rows(sources), c)) :
                TurnsOf(Rows(sources), c)[k] = Rows(sources)[p].turn
<1> DEFINE rows == Rows(sources)
           turns == RowTurns(rows)
           parts == TurnParts(rows, c)
           n == Len(rows)
           loads == TurnsOf(rows, c)
<1>1. rows \in Seq(RowType) /\ HasRows(sources, rows)
  BY RowsAre
<1> HIDE DEF rows
<1>2. /\ turns \in Seq(ScriptTurn) /\ Len(turns) = n
      /\ \A p \in 1 .. n : turns[p] = rows[p].turn
      /\ parts \in Seq(Seq(ScriptTurn)) /\ Len(parts) = n
      /\ \A k \in 1 .. n : parts[k] = ElementsAt(turns, Indexed(rows, c, k - 1))
      /\ loads = FlattenSeq(parts)
  BY <1>1, TurnPartsTyped
<1>3. n \in Nat /\ DOMAIN rows = 1 .. n
  BY <1>1
<1> HIDE DEF turns, parts, n, loads
<1>4. loads \in Seq(ScriptTurn) /\ FlattenedElements(parts, loads)
  BY <1>2, FlattenElements
<1>5. ASSUME NEW p \in 1 .. n, rows[p].conversation = c
      PROVE  \E k \in 1 .. Len(loads) : loads[k] = rows[p].turn
  <2>0. PICK h \in 1 .. Len(sources) : \E j \in 1 .. Len(sources[h].turns) :
          rows[p] = RowAt(sources, h, j)
    BY <1>1, <1>5 DEF HasRows, n
  <2>1. PICK j \in 1 .. Len(sources[h].turns) : rows[p] = RowAt(sources, h, j)
    BY <2>0
  <2>2. rows[p].index = j - 1 /\ j \in 1 .. n
    <3>1. Len(sources[h].turns) <= n
      BY <1>1 DEF HasRows, n
    <3>2. Len(sources[h].turns) \in Nat
      <4>1. sources[h] \in Source
        OBVIOUS
      <4> QED BY <4>1 DEF Source
    <3>3. rows[p].index = j - 1
      BY <2>1 DEF RowAt
    <3> QED BY <1>3, <3>1, <3>2, <3>3
  <2> DEFINE at == Indexed(rows, c, j - 1)
             e == ElementsAt(turns, at)
  <2>3. p \in at
    BY <1>3, <1>5, <2>2 DEF Indexed
  <2> HIDE DEF at
  <2>4. HasElements(turns, at, e)
    BY <1>2, ElementsAtIs
  <2>5. parts[j] = e
    BY <1>2, <2>2 DEF at
  <2> HIDE DEF e
  <2>6. PICK k \in 1 .. Len(e) : e[k] = turns[p]
    BY <1>2, <2>3, <2>4 DEF HasElements
  <2>7. j \in 1 .. Len(parts) /\ k \in 1 .. Len(parts[j])
    BY <1>2, <2>2, <2>5
  <2>8. \E l \in 1 .. Len(loads) : loads[l] = parts[j][k]
    BY <1>4, <2>7 DEF FlattenedElements
  <2> QED BY <1>2, <2>5, <2>6, <2>8
<1> QED BY <1>4, <1>5 DEF loads, n, rows

(***************************************************************************)
(* Ids in their order.                                                     *)
(***************************************************************************)
Increases(ids, s) ==
  /\ s \in Seq(ids)
  /\ \A c \in ids : \E k \in 1 .. Len(s) : s[k] = c
  /\ \A k, l \in 1 .. Len(s) : k < l => s[k] < s[l]

LEMMA BelowGrows ==
  ASSUME NEW S \in SUBSET Nat, IsFiniteSet(S), NEW c \in S, NEW d \in S
  PROVE  /\ Cardinality(Below(S, c)) \in Nat
         /\ c < d => Cardinality(Below(S, c)) < Cardinality(Below(S, d))
         /\ Cardinality(Below(S, c)) < Cardinality(S)
<1>1. c \in Nat /\ d \in Nat /\ Below(S, c) \subseteq S /\ Below(S, d) \subseteq S
  BY DEF Below
<1>2. /\ IsFiniteSet(Below(S, c)) /\ IsFiniteSet(Below(S, d))
      /\ \A T, U : IsFiniteSet(U) /\ T \subseteq U /\ T # U => Cardinality(T) < Cardinality(U)
  <2>1. \A T, U : IsFiniteSet(U) /\ T \subseteq U /\ T # U => Cardinality(T) < Cardinality(U)
    BY FS_Subset, FS_CardinalityType
  <2> QED BY <1>1, <2>1, FS_Subset
<1>3. c \notin Below(S, c)
  BY <1>1 DEF Below
<1>4. c < d => c \in Below(S, d) /\ Below(S, c) \subseteq Below(S, d)
  <2>1. \A x \in S : x \in Nat
    OBVIOUS
  <2>2. \A x \in S : c < d /\ x < c => x < d
    BY <1>1, <2>1
  <2> QED BY <1>1, <2>2 DEF Below
<1> QED BY <1>1, <1>2, <1>3, <1>4, FS_CardinalityType

LEMMA InOrderIs ==
  ASSUME NEW ids \in SUBSET Nat, IsFiniteSet(ids)
  PROVE  Increases(ids, InOrder(ids))
<1> DEFINE n == Cardinality(ids)
           s == InOrder(ids)
           C(c) == Cardinality(Below(ids, c))
<1>1. n \in Nat
  BY FS_CardinalityType
<1>2. s = [k \in 1 .. n |-> CHOOSE c \in ids : C(c) = k - 1]
  BY DEF InOrder, Below
<1>3. \A c, d \in ids : C(c) \in Nat /\ C(c) < n /\ (c < d => C(c) < C(d))
  BY BelowGrows
<1>4. \A k \in 1 .. n : \E c \in ids : C(c) = k - 1
  <2> SUFFICES ASSUME NEW k \in 1 .. n PROVE \E c \in ids : C(c) = k - 1
    OBVIOUS
  <2>1. k - 1 \in Nat /\ k - 1 < n
    BY <1>1
  <2> HIDE DEF n
  <2>2. \A m \in Nat : m < Cardinality(ids) => \E c \in ids : Cardinality(Below(ids, c)) = m
    BY NthExists
  <2> QED BY <2>1, <2>2 DEF n
<1> HIDE DEF n, s, C
<1>5. \A k \in 1 .. n : s[k] \in ids /\ C(s[k]) = k - 1
  BY <1>2, <1>4
<1>6. s \in Seq(ids) /\ Len(s) = n
  <2>1. s \in [1 .. n -> ids]
    BY <1>2, <1>5
  <2> QED BY <1>1, <2>1
<1>7. \A c, d \in ids : c \in Nat /\ d \in Nat /\ (c < d \/ c = d \/ d < c)
  OBVIOUS
<1>8. \A c, d \in ids : C(c) = C(d) => c = d
  BY <1>3, <1>7
<1>9. ASSUME NEW c \in ids PROVE \E k \in 1 .. Len(s) : s[k] = c
  <2>1. C(c) + 1 \in 1 .. n /\ (C(c) + 1) - 1 = C(c)
    BY <1>1, <1>3
  <2>2. s[C(c) + 1] \in ids /\ C(s[C(c) + 1]) = C(c)
    BY <1>5, <2>1
  <2>3. s[C(c) + 1] = c
    BY <1>8, <2>2
  <2> QED BY <1>6, <2>1, <2>3
<1>10. ASSUME NEW k \in 1 .. Len(s), NEW l \in 1 .. Len(s), k < l PROVE s[k] < s[l]
  <2>1. C(s[k]) < C(s[l]) /\ s[k] \in ids /\ s[l] \in ids
    <3>1. k - 1 < l - 1
      BY <1>1, <1>6, <1>10
    <3> QED BY <1>5, <1>6, <3>1
  <2>2. PICK c \in ids, d \in ids : c = s[k] /\ d = s[l] /\ C(c) < C(d)
    BY <2>1
  <2>3. C(c) \in Nat /\ C(d) \in Nat /\ (d < c => C(d) < C(c))
    BY <1>3
  <2>4. ~(C(c) < C(c)) /\ ~(C(d) < C(c))
    BY <2>2, <2>3
  <2> QED BY <1>7, <2>2, <2>3, <2>4
<1>11. Increases(ids, s)
  BY <1>6, <1>9, <1>10 DEF Increases
<1> QED BY <1>11 DEF s

LEMMA MinOfSome ==
  ASSUME NEW S \in SUBSET Nat, S # {}
  PROVE  Min(S) \in S /\ \A x \in S : Min(S) <= x
<1>1. \E m \in S : \A x \in S : m <= x
  BY LeastExists
<1> QED BY <1>1 DEF Min

(***************************************************************************)
(* Scripts.                                                                *)
(***************************************************************************)
ScriptType == [id : Nat, turns : Seq(ScriptTurn)]

\* The scripts of rows, in the order of their ids.
Scripts(rows, scripts) ==
  /\ scripts \in Seq(ScriptType)
  /\ \A s \in 1 .. Len(scripts) :
       /\ scripts[s].turns = TurnsOf(rows, scripts[s].id)
       /\ \E p \in 1 .. Len(rows) :
            rows[p].conversation = scripts[s].id /\ IsAssistant(rows[p].turn)
  /\ \A p \in 1 .. Len(rows) : IsAssistant(rows[p].turn) =>
       \E s \in 1 .. Len(scripts) : scripts[s].id = rows[p].conversation
  /\ \A s, z \in 1 .. Len(scripts) : s < z => scripts[s].id < scripts[z].id

LEMMA ScriptsAre ==
  ASSUME NEW sources \in Seq(Source)
  PROVE  Scripts(Rows(sources), Load(Rows(sources)))
<1> DEFINE rows == Rows(sources)
           ids == Spoken(rows)
           seq == InOrder(ids)
           scripts == Load(rows)
           n == Len(seq)
<1>1. rows \in Seq(RowType)
  BY RowsAre
<1>2. \A c : TurnsOf(rows, c) \in Seq(ScriptTurn)
  BY LoadedTurnsTyped
<1> HIDE DEF rows
<1>3. Len(rows) \in Nat /\ DOMAIN rows = 1 .. Len(rows)
      /\ \A p \in 1 .. Len(rows) : rows[p] \in RowType
  BY <1>1
<1>4. ids = {rows[p].conversation : p \in {q \in 1 .. Len(rows) : IsAssistant(rows[q].turn)}}
  BY <1>3 DEF Spoken
<1>5. ids \in SUBSET Nat
  BY <1>3, <1>4, ConversationsAssumption DEF RowType
<1>6. IsFiniteSet(ids)
  <2> DEFINE S == {q \in 1 .. Len(rows) : IsAssistant(rows[q].turn)}
             f == [q \in S |-> rows[q].conversation]
  <2>1. IsFiniteSet(1 .. Len(rows)) /\ S \subseteq 1 .. Len(rows)
    BY <1>3, IntervalCount
  <2>2. IsFiniteSet(S)
    BY <2>1, FS_Subset
  <2>3. ids = {f[q] : q \in S}
    BY <1>4
  <2> HIDE DEF S, ids
  <2>4. f \in [S -> ids] /\ \A c \in ids : \E q \in S : f[q] = c
    BY <2>3
  <2> HIDE DEF f
  <2>5. f \in Surjection(S, ids)
    BY <2>4 DEF Surjection
  <2> QED BY <2>2, <2>5, FS_Surjection
<1>7. scripts = [s \in DOMAIN seq |-> [id |-> seq[s], turns |-> TurnsOf(rows, seq[s])]]
  BY DEF Load, ScriptsOf
<1> HIDE DEF ids, scripts
<1>8. Increases(ids, seq)
  BY <1>5, <1>6, InOrderIs
<1> HIDE DEF seq
<1>9. /\ seq \in Seq(ids) /\ n \in Nat /\ DOMAIN seq = 1 .. n
      /\ \A c \in ids : \E k \in 1 .. n : seq[k] = c
      /\ \A k, l \in 1 .. n : k < l => seq[k] < seq[l]
  BY <1>8 DEF Increases
<1>10. \A k \in 1 .. n : seq[k] \in ids
  BY <1>9
<1> HIDE DEF n
<1>11. scripts \in [1 .. n -> ScriptType]
       /\ \A s \in 1 .. n : scripts[s].id = seq[s] /\ scripts[s].turns = TurnsOf(rows, seq[s])
  <2>1. \A s \in 1 .. n : [id |-> seq[s], turns |-> TurnsOf(rows, seq[s])] \in ScriptType
    BY <1>2, <1>5, <1>10 DEF ScriptType
  <2>2. scripts = [s \in 1 .. n |-> [id |-> seq[s], turns |-> TurnsOf(rows, seq[s])]]
    BY <1>7, <1>9
  <2> QED BY <2>1, <2>2
<1>12. scripts \in Seq(ScriptType) /\ Len(scripts) = n
  BY <1>9, <1>11
<1>13. \A s \in 1 .. n : \E p \in 1 .. Len(rows) :
         rows[p].conversation = scripts[s].id /\ IsAssistant(rows[p].turn)
  BY <1>4, <1>10, <1>11
<1>14. \A p \in 1 .. Len(rows) : IsAssistant(rows[p].turn) =>
         \E s \in 1 .. n : scripts[s].id = rows[p].conversation
  <2> SUFFICES ASSUME NEW p \in 1 .. Len(rows), IsAssistant(rows[p].turn)
               PROVE  \E s \in 1 .. n : scripts[s].id = rows[p].conversation
    OBVIOUS
  <2>1. rows[p].conversation \in ids
    BY <1>4
  <2>2. PICK s \in 1 .. n : seq[s] = rows[p].conversation
    BY <1>9, <2>1
  <2> QED BY <1>11, <2>2
<1>15. \A s, z \in 1 .. n : s < z => scripts[s].id < scripts[z].id
  BY <1>9, <1>11
<1>16. \A s \in 1 .. n : scripts[s].turns = TurnsOf(rows, scripts[s].id)
  BY <1>11
<1>17. Scripts(rows, scripts)
  BY <1>12, <1>13, <1>14, <1>15, <1>16 DEF Scripts
<1> QED BY <1>17 DEF rows, scripts

\* Every script has a reply.
LEMMA ScriptsReply ==
  ASSUME NEW sources \in Seq(Source), NEW s \in 1 .. Len(Load(Rows(sources)))
  PROVE  \E q \in 1 .. Len(Load(Rows(sources))[s].turns) :
           IsAssistant(Load(Rows(sources))[s].turns[q])
<1> DEFINE rows == Rows(sources)
           scripts == Load(rows)
           c == scripts[s].id
<1>1. Scripts(rows, scripts)
  BY ScriptsAre
<1>2. \A d : \A p \in 1 .. Len(rows) : rows[p].conversation = d =>
        \E k \in 1 .. Len(TurnsOf(rows, d)) : TurnsOf(rows, d)[k] = rows[p].turn
  BY LoadedTurnsTyped
<1> HIDE DEF rows, scripts
<1>3. s \in 1 .. Len(scripts)
  BY DEF rows, scripts
<1>4. PICK p \in 1 .. Len(rows) : rows[p].conversation = c /\ IsAssistant(rows[p].turn)
  BY <1>1, <1>3 DEF Scripts
<1>5. scripts[s].turns = TurnsOf(rows, c)
  BY <1>1, <1>3 DEF Scripts
<1>6. \E k \in 1 .. Len(TurnsOf(rows, c)) : TurnsOf(rows, c)[k] = rows[p].turn
  BY <1>2, <1>4
<1>7. \E k \in 1 .. Len(scripts[s].turns) : IsAssistant(scripts[s].turns[k])
  BY <1>4, <1>5, <1>6
<1> QED BY <1>7 DEF rows, scripts

\* With ids of their own, the scripts are the sources in which a reply is.
IsScript(script, source) ==
  script.id = source.conversation /\ script.turns = source.turns

LEMMA ScriptsAreSources ==
  ASSUME NEW sources \in Seq(Source), DistinctIds(sources)
  PROVE  /\ \A s \in 1 .. Len(Load(Rows(sources))) : \E i \in 1 .. Len(sources) :
              IsScript(Load(Rows(sources))[s], sources[i])
         /\ \A i \in 1 .. Len(sources) : \A q \in 1 .. Len(sources[i].turns) :
              IsAssistant(sources[i].turns[q]) =>
                \E s \in 1 .. Len(Load(Rows(sources))) :
                  IsScript(Load(Rows(sources))[s], sources[i])
<1> DEFINE rows == Rows(sources)
           scripts == Load(rows)
<1>1. Scripts(rows, scripts)
  BY ScriptsAre
<1>2. HasRows(sources, rows)
  BY RowsAre
<1>3. \A i \in 1 .. Len(sources) : TurnsOf(rows, sources[i].conversation) = sources[i].turns
  BY TurnsAreLoaded
<1> HIDE DEF rows, scripts
<1>4. ASSUME NEW s \in 1 .. Len(scripts)
      PROVE  \E i \in 1 .. Len(sources) : IsScript(scripts[s], sources[i])
  <2>1. PICK p \in 1 .. Len(rows) : rows[p].conversation = scripts[s].id
    BY <1>1 DEF Scripts
  <2>2. PICK i \in 1 .. Len(sources) : \E j \in 1 .. Len(sources[i].turns) :
          rows[p] = RowAt(sources, i, j)
    BY <1>2 DEF HasRows
  <2>3. scripts[s].id = sources[i].conversation
    BY <2>1, <2>2 DEF RowAt
  <2>4. scripts[s].turns = sources[i].turns
    BY <1>1, <1>3, <2>3 DEF Scripts
  <2> QED BY <2>3, <2>4 DEF IsScript
<1>5. ASSUME NEW i \in 1 .. Len(sources), NEW q \in 1 .. Len(sources[i].turns),
             IsAssistant(sources[i].turns[q])
      PROVE  \E s \in 1 .. Len(scripts) : IsScript(scripts[s], sources[i])
  <2>1. PICK p \in 1 .. Len(rows) : rows[p] = RowAt(sources, i, q)
    BY <1>2 DEF HasRows
  <2>2. rows[p].conversation = sources[i].conversation /\ rows[p].turn = sources[i].turns[q]
    BY <2>1 DEF RowAt
  <2>3. PICK s \in 1 .. Len(scripts) : scripts[s].id = rows[p].conversation
    BY <1>1, <1>5, <2>2 DEF Scripts
  <2>4. scripts[s].turns = sources[i].turns
    BY <1>1, <1>3, <2>2, <2>3 DEF Scripts
  <2> QED BY <2>2, <2>3, <2>4 DEF IsScript
<1> QED BY <1>4, <1>5 DEF rows, scripts

(***************************************************************************)
(* The index of scripts.                                                   *)
(***************************************************************************)
Normals == {Normal(text) : text \in Texts}

\* The places of the user turns that are answered.
LEMMA UserPlacesAre ==
  ASSUME NEW turns \in Seq(ScriptTurn)
  PROVE  /\ UserPlaces(turns) \in Seq(Nat)
         /\ \A k \in 1 .. Len(UserPlaces(turns)) :
              /\ UserPlaces(turns)[k] \in 1 .. Len(turns)
              /\ IsUser(turns[UserPlaces(turns)[k]])
              /\ \E q \in 1 .. Len(turns) : q > UserPlaces(turns)[k] /\ IsAssistant(turns[q])
<1> DEFINE n == Len(turns)
           all == [p \in DOMAIN turns |-> p]
           at == {p \in DOMAIN turns :
                    /\ IsUser(turns[p])
                    /\ \E q \in DOMAIN turns : q > p /\ IsAssistant(turns[q])}
           e == ElementsAt(all, at)
<1>1. n \in Nat /\ DOMAIN turns = 1 .. n
  OBVIOUS
<1>2. UserPlaces(turns) = e
  BY DEF UserPlaces
<1>3. at = {p \in 1 .. n :
              /\ IsUser(turns[p])
              /\ \E q \in 1 .. n : q > p /\ IsAssistant(turns[q])}
  BY <1>1
<1>4. all = [p \in 1 .. n |-> p]
  BY <1>1
<1> HIDE DEF all, at, e, n
<1>5. all \in Seq(1 .. n) /\ Len(all) = n /\ \A p \in 1 .. n : all[p] = p
  BY <1>1, <1>4
<1>6. e \in Seq(1 .. n) /\ HasElements(all, at, e)
  BY <1>5, ElementsAtIs DEF e
<1>7. \A k \in 1 .. Len(e) : e[k] \in 1 .. n /\ e[k] \in at
  BY <1>5, <1>6 DEF HasElements
<1>8. e \in Seq(Nat)
  <2>1. Len(e) \in Nat /\ e \in [1 .. Len(e) -> 1 .. n]
    <3> DEFINE T == 1 .. n
    <3>1. e \in Seq(T)
      BY <1>6
    <3> HIDE DEF T
    <3>2. Len(e) \in Nat /\ e \in [1 .. Len(e) -> T]
      BY <3>1
    <3> QED BY <3>2 DEF T
  <2>2. \A k \in 1 .. Len(e) : e[k] \in Nat
    BY <1>1, <1>7
  <2>3. e \in [1 .. Len(e) -> Nat]
    BY <2>1, <2>2
  <2> QED BY <2>1, <2>3
<1>9. \A k \in 1 .. Len(e) :
        /\ e[k] \in 1 .. n
        /\ IsUser(turns[e[k]])
        /\ \E q \in 1 .. n : q > e[k] /\ IsAssistant(turns[q])
  BY <1>3, <1>7
<1> QED BY <1>2, <1>8, <1>9 DEF n

\* The reply is the first one after its turn.
RepliesTo(turns, p, reply) ==
  \E q \in 1 .. Len(turns) :
    /\ reply = turns[q] /\ IsAssistant(turns[q]) /\ q > p
    /\ \A r \in p .. q - 1 : ~IsAssistant(turns[r])

LEMMA ReplyAfterIs ==
  ASSUME NEW turns \in Seq(ScriptTurn), NEW p \in 1 .. Len(turns), IsUser(turns[p]),
         \E q \in 1 .. Len(turns) : q > p /\ IsAssistant(turns[q])
  PROVE  RepliesTo(turns, p, ReplyAfter(turns, p))
<1> DEFINE n == Len(turns)
           S == {q \in DOMAIN turns : q > p /\ IsAssistant(turns[q])}
           m == Min(S)
<1>1. n \in Nat /\ DOMAIN turns = 1 .. n
  OBVIOUS
<1>2. S = {q \in 1 .. n : q > p /\ IsAssistant(turns[q])}
  BY <1>1
<1>3. S \in SUBSET Nat /\ S # {}
  BY <1>1, <1>2
<1>4. ReplyAfter(turns, p) = turns[m]
  BY DEF ReplyAfter
<1> HIDE DEF S
<1>5. m \in S /\ \A x \in S : m <= x
  BY <1>3, MinOfSome
<1> HIDE DEF m
<1>6. ~IsAssistant(turns[p])
  BY DEF IsUser, IsAssistant
<1>7. m \in 1 .. n /\ m > p /\ IsAssistant(turns[m])
  BY <1>2, <1>5
<1>8. ASSUME NEW r \in p .. m - 1, IsAssistant(turns[r]) PROVE FALSE
  <2>1. r \in 1 .. n /\ r >= p /\ ~(m <= r)
    BY <1>1, <1>7
  <2>2. r # p
    BY <1>6, <1>8
  <2>3. r > p
    BY <1>1, <2>1, <2>2
  <2> QED BY <1>2, <1>5, <1>8, <2>1, <2>3
<1> QED BY <1>4, <1>7, <1>8 DEF RepliesTo, n

LEMMA RepliesAre ==
  ASSUME NEW turns \in Seq(ScriptTurn),
         \E q \in 1 .. Len(turns) : IsAssistant(turns[q])
  PROVE  Replies(turns) \in Seq(ScriptTurn) /\ Len(Replies(turns)) > 0
<1> DEFINE at == {q \in DOMAIN turns : IsAssistant(turns[q])}
           e == ElementsAt(turns, at)
<1>1. e \in Seq(ScriptTurn) /\ HasElements(turns, at, e)
  <2> HIDE DEF at
  <2> QED BY ElementsAtIs
<1>2. PICK q \in 1 .. Len(turns) : q \in at
  <2>1. DOMAIN turns = 1 .. Len(turns)
    OBVIOUS
  <2> QED BY <2>1
<1>3. Replies(turns) = e
  BY DEF Replies
<1> HIDE DEF at, e
<1>4. \E k \in 1 .. Len(e) : e[k] = turns[q]
  BY <1>1, <1>2 DEF HasElements
<1>5. Len(e) \in Nat
  BY <1>1
<1>6. Len(e) > 0
  BY <1>4, <1>5
<1> QED BY <1>1, <1>3, <1>6

\* What the index has of a script.
IsEntry(script, entry) ==
  LET places == UserPlaces(script.turns)
  IN  /\ entry.id = script.id
      /\ entry.assistants \in Seq(ScriptTurn) /\ Len(entry.assistants) > 0
      /\ entry.users = UserTurnsOf(script)
      /\ entry.users \in Seq(Normals) /\ Len(entry.users) = Len(places)
      /\ \A k \in 1 .. Len(places) :
           entry.replies[k] = ReplyAfter(script.turns, places[k])
           /\ RepliesTo(script.turns, places[k], entry.replies[k])

IsIndex(scripts, idx) ==
  /\ Len(idx) = Len(scripts) /\ DOMAIN idx = 1 .. Len(scripts)
  /\ \A s \in 1 .. Len(scripts) : IsEntry(scripts[s], idx[s])

EntryOf(script) ==
  LET turns == script.turns
      places == UserPlaces(turns)
  IN  [id         |-> script.id,
       assistants |-> Replies(turns),
       users      |-> [k \in DOMAIN places |-> Normal(turns[places[k]].text)],
       replies    |-> [k \in DOMAIN places |-> ReplyAfter(turns, places[k])]]

LEMMA EntryIs ==
  ASSUME NEW script \in ScriptType, \E q \in 1 .. Len(script.turns) : IsAssistant(script.turns[q])
  PROVE  IsEntry(script, EntryOf(script))
<1> DEFINE turns == script.turns
           places == UserPlaces(turns)
           n == Len(places)
           entry == EntryOf(script)
<1>1. turns \in Seq(ScriptTurn)
  BY DEF ScriptType
<1>2. Replies(turns) \in Seq(ScriptTurn) /\ Len(Replies(turns)) > 0
  BY <1>1, RepliesAre
<1>3. /\ places \in Seq(Nat)
      /\ \A k \in 1 .. n :
           /\ places[k] \in 1 .. Len(turns)
           /\ IsUser(turns[places[k]])
           /\ \E q \in 1 .. Len(turns) : q > places[k] /\ IsAssistant(turns[q])
  <2> HIDE DEF turns
  <2> QED BY <1>1, UserPlacesAre
<1>4. /\ entry.id = script.id /\ entry.assistants = Replies(turns)
      /\ entry.users = [k \in DOMAIN places |-> Normal(turns[places[k]].text)]
      /\ entry.replies = [k \in DOMAIN places |-> ReplyAfter(turns, places[k])]
  BY DEF EntryOf
<1>5. UserTurnsOf(script) = [k \in DOMAIN places |-> Normal(turns[places[k]].text)]
  BY DEF UserTurnsOf
<1> HIDE DEF turns, places, entry
<1>6. n \in Nat /\ DOMAIN places = 1 .. n
  BY <1>3
<1>7. \A k \in 1 .. n : Normal(turns[places[k]].text) \in Normals
  <2> SUFFICES ASSUME NEW k \in 1 .. n PROVE Normal(turns[places[k]].text) \in Normals
    OBVIOUS
  <2>1. turns[places[k]] \in ScriptTurn
    BY <1>1, <1>3
  <2>2. turns[places[k]].text \in Texts
    BY <2>1 DEF ScriptTurn
  <2> QED BY <2>2 DEF Normals
<1> HIDE DEF n
<1>8. entry.users \in [1 .. n -> Normals]
  BY <1>4, <1>6, <1>7
<1>9. entry.users \in Seq(Normals) /\ Len(entry.users) = n
  BY <1>6, <1>8
<1>10. \A k \in 1 .. n : entry.replies[k] = ReplyAfter(turns, places[k])
  BY <1>4, <1>6
<1>11. \A k \in 1 .. n : RepliesTo(turns, places[k], ReplyAfter(turns, places[k]))
  BY <1>1, <1>3, ReplyAfterIs
<1> QED BY <1>2, <1>4, <1>5, <1>9, <1>10, <1>11 DEF IsEntry, n, turns, places, entry

LEMMA IndexIs ==
  ASSUME NEW scripts \in Seq(ScriptType),
         \A s \in 1 .. Len(scripts) :
           \E q \in 1 .. Len(scripts[s].turns) : IsAssistant(scripts[s].turns[q])
  PROVE  IsIndex(scripts, Build(scripts))
<1> DEFINE idx == Build(scripts)
           n == Len(scripts)
           E == {idx[s] : s \in 1 .. n}
<1>1. n \in Nat /\ DOMAIN scripts = 1 .. n /\ \A s \in 1 .. n : scripts[s] \in ScriptType
  OBVIOUS
<1>2. idx = [s \in DOMAIN scripts |-> EntryOf(scripts[s])]
  BY DEF Build, EntryOf
<1> HIDE DEF idx, n
<1>3. DOMAIN idx = 1 .. n /\ \A s \in 1 .. n : idx[s] = EntryOf(scripts[s])
  BY <1>1, <1>2
<1>4. idx \in [1 .. n -> E]
  BY <1>1, <1>2
<1>5. Len(idx) = n
  <2> HIDE DEF E
  <2>1. idx \in Seq(E) /\ Len(idx) = n
    BY <1>1, <1>4
  <2> QED BY <2>1
<1>6. ASSUME NEW s \in 1 .. n PROVE IsEntry(scripts[s], idx[s])
  <2>1. scripts[s] \in ScriptType
    BY <1>1
  <2>2. \E q \in 1 .. Len(scripts[s].turns) : IsAssistant(scripts[s].turns[q])
    BY DEF n
  <2> QED BY <1>3, <2>1, <2>2, EntryIs
<1> QED BY <1>3, <1>5, <1>6 DEF IsIndex, idx, n

(***************************************************************************)
(* How far back a user turn and the turns asked agree.                     *)
(***************************************************************************)
Agrees(users, k, asked, n) ==
  \A i \in 0 .. n - 1 : users[k - i] = asked[Len(asked) - i]

RunOf(users, asked, k) ==
  Max({0} \cup {n \in 1 .. Least(k, Len(asked)) : Agrees(users, k, asked, n)})

LEMMA ContextIsRun ==
  ASSUME NEW source, NEW asked, NEW k
  PROVE  Context(source, asked, k) = RunOf(UserTurnsOf(source), asked, k)
BY DEF Context, RunOf, Agrees

LEMMA RunIs ==
  ASSUME NEW A, NEW asked \in Seq(A), NEW users, NEW k \in Nat
  PROVE  /\ RunOf(users, asked, k) \in Nat
         /\ RunOf(users, asked, k) <= k /\ RunOf(users, asked, k) <= Len(asked)
         /\ \A n \in 1 .. Len(asked) :
              n <= RunOf(users, asked, k) <=> n <= k /\ Agrees(users, k, asked, n)
<1> DEFINE l == Len(asked)
           most == Least(k, l)
           T == {n \in 1 .. most : Agrees(users, k, asked, n)}
           S == {0} \cup T
           r == Max(S)
<1>1. l \in Nat
  OBVIOUS
<1>2. most \in Nat /\ most <= k /\ most <= l /\ most \in {k, l}
  <2> HIDE DEF l
  <2> QED BY <1>1, LeastIsLeast
<1>3. RunOf(users, asked, k) = r
  BY DEF RunOf
<1> HIDE DEF most
<1>4. S \in SUBSET Nat /\ S # {} /\ \A n \in S : n <= most
  BY <1>2
<1>5. r \in S /\ \A n \in S : r >= n
  <2> HIDE DEF S
  <2>1. \E m \in S : \A n \in S : m >= n
    BY <1>2, <1>4, GreatestExists
  <2> QED BY <2>1 DEF Max
<1> HIDE DEF r
<1>6. r \in Nat /\ r <= most
  BY <1>4, <1>5
<1>7. ASSUME NEW n \in 1 .. l, n <= r PROVE n <= k /\ Agrees(users, k, asked, n)
  <2>1. n \in Nat /\ r # 0 /\ n <= k
    <3> HIDE DEF l
    <3> QED BY <1>1, <1>2, <1>6, <1>7
  <2>2. Agrees(users, k, asked, r)
    BY <1>5, <2>1
  <2>3. \A i \in 0 .. n - 1 : i \in 0 .. r - 1
    BY <1>6, <1>7, <2>1
  <2> QED BY <2>1, <2>2, <2>3 DEF Agrees
<1>8. ASSUME NEW n \in 1 .. l, n <= k, Agrees(users, k, asked, n) PROVE n <= r
  <2>1. n \in 1 .. most
    <3> HIDE DEF l
    <3> QED BY <1>1, <1>2, <1>8
  <2>2. n \in S
    BY <1>8, <2>1
  <2> HIDE DEF S
  <2>3. r >= n /\ n \in Nat
    BY <1>5, <2>1, <2>2
  <2> QED BY <1>6, <2>3
<1>9. r <= k /\ r <= l
  <2> HIDE DEF l
  <2> QED BY <1>1, <1>2, <1>6
<1> QED BY <1>3, <1>6, <1>7, <1>8, <1>9 DEF l

(***************************************************************************)
(* The places that match.                                                  *)
(***************************************************************************)
\* A place of an index: a script and a user turn of it.
PlaceOf(idx, m) ==
  \E s \in 1 .. Len(idx) : \E k \in 1 .. Len(idx[s].users) : m = <<s, k>>

LEMMA WindowsAgree ==
  ASSUME NEW A, NEW users \in Seq(A), NEW asked \in Seq(A), NEW n \in 1 .. Len(asked),
         NEW k \in n .. Len(users)
  PROVE  SubSeq(users, k - n + 1, k) = SubSeq(asked, Len(asked) - n + 1, Len(asked))
           <=> Agrees(users, k, asked, n)
<1> DEFINE l == Len(asked)
           u == SubSeq(users, k - n + 1, k)
           a == SubSeq(asked, l - n + 1, l)
<1>1. l \in Nat /\ Len(users) \in Nat
  OBVIOUS
<1>2. n \in Nat /\ k \in Nat /\ 1 <= n /\ n <= k /\ k <= Len(users) /\ n <= l
  BY <1>1
<1>3. /\ k - n + 1 \in 1 .. Len(users) + 1 /\ k \in (k - n + 1) - 1 .. Len(users)
      /\ l - n + 1 \in 1 .. l + 1 /\ l \in (l - n + 1) - 1 .. l
      /\ k - (k - n + 1) + 1 = n /\ l - (l - n + 1) + 1 = n
  <2> HIDE DEF l
  <2> QED BY <1>1, <1>2
<1>4. u \in Seq(A) /\ Len(u) = n /\ \A j \in 1 .. n : u[j] = users[(k - n + 1) + j - 1]
  BY <1>3, SubSeqProperties
<1>5. a \in Seq(A) /\ Len(a) = n /\ \A j \in 1 .. n : a[j] = asked[(l - n + 1) + j - 1]
  BY <1>3, SubSeqProperties
<1>6. \A j \in 1 .. n : n - j \in 0 .. n - 1 /\ (k - n + 1) + j - 1 = k - (n - j)
                        /\ (l - n + 1) + j - 1 = l - (n - j)
  <2> HIDE DEF l
  <2> QED BY <1>1, <1>2
<1>7. \A i \in 0 .. n - 1 : n - i \in 1 .. n /\ n - (n - i) = i
  BY <1>2
<1> HIDE DEF u, a, l
<1>8. \A j \in 1 .. n : u[j] = users[k - (n - j)] /\ a[j] = asked[l - (n - j)]
  BY <1>4, <1>5, <1>6
<1>9. \A i \in 0 .. n - 1 : u[n - i] = users[k - i] /\ a[n - i] = asked[l - i]
  <2> SUFFICES ASSUME NEW i \in 0 .. n - 1 PROVE u[n - i] = users[k - i] /\ a[n - i] = asked[l - i]
    OBVIOUS
  <2>1. n - i \in 1 .. n /\ n - (n - i) = i
    BY <1>7
  <2>2. u[n - i] = users[k - (n - (n - i))] /\ a[n - i] = asked[l - (n - (n - i))]
    BY <1>8, <2>1
  <2> QED BY <2>1, <2>2
<1>10. u = a <=> \A j \in 1 .. n : u[j] = a[j]
  <2>1. u = a => \A j \in 1 .. n : u[j] = a[j]
    OBVIOUS
  <2>2. (\A j \in 1 .. n : u[j] = a[j]) => u = a
    BY <1>4, <1>5, SeqEqual
  <2> QED BY <2>1, <2>2
<1>11. (\A j \in 1 .. n : u[j] = a[j]) <=> \A i \in 0 .. n - 1 : users[k - i] = asked[l - i]
  BY <1>6, <1>7, <1>8, <1>9
<1> QED BY <1>10, <1>11 DEF Agrees, u, a, l

RunTo(idx, asked, m) == RunOf(idx[m[1]].users, asked, m[2])

\* Every part of an index is a sequence of texts, and so is what is asked.
Indexes(scripts, idx, asked) ==
  /\ scripts \in Seq(ScriptType) /\ IsIndex(scripts, idx)
  /\ asked \in Seq(Normals)

LEMMA PlacesAre ==
  ASSUME NEW scripts, NEW idx, NEW asked, Indexes(scripts, idx, asked),
         NEW m, PlaceOf(idx, m)
  PROVE  /\ m[1] \in 1 .. Len(idx) /\ m[2] \in 1 .. Len(idx[m[1]].users)
         /\ m = <<m[1], m[2]>> /\ m[1] \in Nat /\ m[2] \in Nat
         /\ idx[m[1]].users \in Seq(Normals)
         /\ Len(asked) \in Nat /\ RunTo(idx, asked, m) \in Nat
         /\ RunTo(idx, asked, m) <= m[2] /\ RunTo(idx, asked, m) <= Len(asked)
<1>1. PICK s \in 1 .. Len(idx) : \E k \in 1 .. Len(idx[s].users) : m = <<s, k>>
  BY DEF PlaceOf
<1>2. PICK k \in 1 .. Len(idx[s].users) : m = <<s, k>>
  BY <1>1
<1>3. m[1] = s /\ m[2] = k
  BY <1>2
<1>4. scripts \in Seq(ScriptType) /\ Len(idx) = Len(scripts) /\ asked \in Seq(Normals)
      /\ \A z \in 1 .. Len(scripts) : IsEntry(scripts[z], idx[z])
  BY DEF Indexes, IsIndex
<1>5. idx[s].users \in Seq(Normals) /\ Len(idx) \in Nat
  BY <1>4 DEF IsEntry
<1>6. Len(idx[s].users) \in Nat /\ Len(asked) \in Nat
  BY <1>4, <1>5
<1>7. k \in Nat /\ s \in Nat
  BY <1>5, <1>6
<1>8. /\ RunOf(idx[s].users, asked, k) \in Nat
      /\ RunOf(idx[s].users, asked, k) <= k /\ RunOf(idx[s].users, asked, k) <= Len(asked)
  BY <1>4, <1>7, RunIs
<1> QED BY <1>2, <1>3, <1>5, <1>6, <1>7, <1>8 DEF RunTo

LEMMA MatchesByRun ==
  ASSUME NEW scripts, NEW idx, NEW asked, Indexes(scripts, idx, asked),
         NEW n \in 1 .. Len(asked), NEW m
  PROVE  m \in Matches(idx, asked, n) <=> PlaceOf(idx, m) /\ n <= RunTo(idx, asked, m)
<1>1. Len(asked) \in Nat /\ n \in Nat /\ 1 <= n
  <2>1. asked \in Seq(Normals)
    BY DEF Indexes
  <2> QED BY <2>1
<1>2. DOMAIN idx = 1 .. Len(idx)
  BY DEF Indexes, IsIndex
<1> DEFINE W(s, k) == SubSeq(idx[s].users, k - n + 1, k)
                        = SubSeq(asked, Len(asked) - n + 1, Len(asked))
<1>3. m \in Matches(idx, asked, n)
        <=> \E s \in 1 .. Len(idx) : \E k \in n .. Len(idx[s].users) : m = <<s, k>> /\ W(s, k)
  <2>1. Matches(idx, asked, n)
          = {x \in UNION {{s} \X (n .. Len(idx[s].users)) : s \in 1 .. Len(idx)} : W(x[1], x[2])}
    BY <1>2 DEF Matches
  <2> HIDE DEF W
  <2>2. m \in UNION {{s} \X (n .. Len(idx[s].users)) : s \in 1 .. Len(idx)}
          <=> \E s \in 1 .. Len(idx) : \E k \in n .. Len(idx[s].users) : m = <<s, k>>
    OBVIOUS
  <2>3. \A s, k : m = <<s, k>> => m[1] = s /\ m[2] = k
    OBVIOUS
  <2> QED BY <2>1, <2>2, <2>3
<1>4. \A s \in 1 .. Len(idx) : \A k \in 1 .. Len(idx[s].users) :
        PlaceOf(idx, <<s, k>>)
  BY DEF PlaceOf
<1>5. ASSUME NEW s \in 1 .. Len(idx), NEW k \in 1 .. Len(idx[s].users)
      PROVE  n <= RunOf(idx[s].users, asked, k) <=> n <= k /\ (n <= k => W(s, k))
  <2> DEFINE users == idx[s].users
  <2>1. users \in Seq(Normals) /\ asked \in Seq(Normals)
    <3>1. PlaceOf(idx, <<s, k>>)
      BY <1>4
    <3>2. idx[(<<s, k>>)[1]].users \in Seq(Normals)
      BY <3>1, PlacesAre
    <3>3. asked \in Seq(Normals)
      BY DEF Indexes
    <3> QED BY <3>2, <3>3
  <2> HIDE DEF users, W
  <2>2. k \in 1 .. Len(users) /\ Len(users) \in Nat
    BY <2>1 DEF users
  <2>3. k \in Nat
    BY <2>2
  <2>4. n <= RunOf(users, asked, k) <=> n <= k /\ Agrees(users, k, asked, n)
    BY <2>1, <2>3, RunIs
  <2>5. ASSUME n <= k PROVE W(s, k) <=> Agrees(users, k, asked, n)
    <3>1. k \in n .. Len(users)
      BY <1>1, <2>2, <2>5
    <3>2. SubSeq(users, k - n + 1, k) = SubSeq(asked, Len(asked) - n + 1, Len(asked))
            <=> Agrees(users, k, asked, n)
      BY <2>1, <3>1, WindowsAgree
    <3> QED BY <3>2 DEF W, users
  <2> QED BY <2>4, <2>5 DEF users
<1> HIDE DEF W
<1>6. ASSUME m \in Matches(idx, asked, n)
      PROVE  PlaceOf(idx, m) /\ n <= RunTo(idx, asked, m)
  <2>1. PICK s \in 1 .. Len(idx) : \E k \in n .. Len(idx[s].users) : m = <<s, k>> /\ W(s, k)
    BY <1>3, <1>6
  <2>2. PICK k \in n .. Len(idx[s].users) : m = <<s, k>> /\ W(s, k)
    BY <2>1
  <2>3. k \in 1 .. Len(idx[s].users) /\ n <= k
    <3>1. k \in Int /\ n <= k /\ k <= Len(idx[s].users)
      BY <1>1, <2>2
    <3> QED BY <1>1, <3>1
  <2>4. n <= RunOf(idx[s].users, asked, k)
    BY <1>5, <2>2, <2>3
  <2>5. m[1] = s /\ m[2] = k
    BY <2>2
  <2> QED BY <1>4, <2>2, <2>3, <2>4, <2>5 DEF RunTo
<1>7. ASSUME PlaceOf(idx, m), n <= RunTo(idx, asked, m)
      PROVE  m \in Matches(idx, asked, n)
  <2>1. m[1] \in 1 .. Len(idx) /\ m[2] \in 1 .. Len(idx[m[1]].users) /\ m = <<m[1], m[2]>>
        /\ idx[m[1]].users \in Seq(Normals)
    BY <1>7, PlacesAre
  <2>2. n <= m[2] /\ W(m[1], m[2])
    BY <1>5, <1>7, <2>1 DEF RunTo
  <2>3. m[2] \in n .. Len(idx[m[1]].users)
    <3>1. Len(idx[m[1]].users) \in Nat
      BY <2>1
    <3> QED BY <1>1, <2>1, <2>2, <3>1
  <2> QED BY <1>3, <2>1, <2>2, <2>3
<1> QED BY <1>6, <1>7

(***************************************************************************)
(* The first of the matches.                                               *)
(***************************************************************************)
Leads(matches, m) ==
  m \in matches /\ \A o \in matches : m[1] < o[1] \/ (m[1] = o[1] /\ m[2] <= o[2])

LEMMA FirstIs ==
  ASSUME NEW matches, matches # {}, \A m \in matches : m[1] \in Nat /\ m[2] \in Nat
  PROVE  Leads(matches, FirstOf(matches))
<1> DEFINE S == {m[1] : m \in matches}
<1>1. S \in SUBSET Nat /\ S # {}
  OBVIOUS
<1>2. PICK s \in S : \A x \in S : s <= x
  <2> HIDE DEF S
  <2> QED BY <1>1, LeastExists
<1> DEFINE K == {m[2] : m \in {o \in matches : o[1] = s}}
<1>3. K \in SUBSET Nat /\ K # {}
  BY <1>2
<1>4. PICK k \in K : \A x \in K : k <= x
  <2> HIDE DEF K
  <2> QED BY <1>3, LeastExists
<1>5. PICK m \in matches : m[1] = s /\ m[2] = k
  BY <1>4
<1>6. ASSUME NEW o \in matches PROVE m[1] < o[1] \/ (m[1] = o[1] /\ m[2] <= o[2])
  <2>1. o[1] \in S /\ s <= o[1] /\ s \in Nat /\ o[1] \in Nat
    BY <1>1, <1>2
  <2>2. CASE o[1] = s
    <3>1. o[2] \in K
      BY <2>2
    <3> QED BY <1>4, <1>5, <2>2, <3>1
  <2>3. CASE o[1] # s
    BY <1>5, <2>1, <2>3
  <2> QED BY <2>2, <2>3
<1>7. \E x \in matches : \A o \in matches : x[1] < o[1] \/ (x[1] = o[1] /\ x[2] <= o[2])
  BY <1>6
<1> QED BY <1>7 DEF FirstOf, Leads

LEMMA AskedTyped ==
  ASSUME NEW request \in Requests
  PROVE  Asked(request) \in Seq(Normals)
<1> DEFINE messages == request.messages
           n == Len(messages)
           turns == KeyTurns(request)
           texts == TextsOf(turns)
<1>1. messages \in Seq(ChatMessage)
  BY RequestsAssumption
<1>2. n \in Nat /\ DOMAIN messages = 1 .. n
      /\ \A i \in 1 .. n : messages[i].text \in Texts
  <2> HIDE DEF messages
  <2>1. n \in Nat /\ DOMAIN messages = 1 .. n /\ \A i \in 1 .. n : messages[i] \in ChatMessage
    BY <1>1
  <2> QED BY <2>1 DEF ChatMessage
<1>3. turns = [i \in DOMAIN messages |->
                 [role |-> messages[i].role, text |-> Normal(messages[i].text)]]
  BY DEF KeyTurns
<1> HIDE DEF messages, n, turns
<1>4. DOMAIN turns = 1 .. n /\ \A i \in 1 .. n : turns[i].text = Normal(messages[i].text)
  BY <1>2, <1>3
<1>5. texts = [i \in 1 .. n |-> Normal(messages[i].text)]
  BY <1>4 DEF TextsOf
<1>6. \A i \in 1 .. n : Normal(messages[i].text) \in Normals
  BY <1>2 DEF Normals
<1> HIDE DEF texts
<1>7. texts \in Seq(Normals)
  BY <1>2, <1>5, <1>6
<1>8. \A S : ElementsAt(texts, S) \in Seq(Normals)
  BY <1>7, ElementsAtIs
<1> QED BY <1>8 DEF Asked, texts, turns

(***************************************************************************)
(* What is selected.                                                       *)
(***************************************************************************)
\* All that is asked stands at the start of a script, up to the place m.
Whole(idx, asked, m) ==
  PlaceOf(idx, m) /\ RunTo(idx, asked, m) = Len(asked) /\ m[2] = Len(asked)

Before(m, o) == m[1] < o[1] \/ (m[1] = o[1] /\ m[2] <= o[2])

ByPrefix(idx, asked, m) ==
  Whole(idx, asked, m) /\ \A o : Whole(idx, asked, o) => Before(m, o)

BySuffix(idx, asked, m) ==
  /\ PlaceOf(idx, m)
  /\ \A o : ~Whole(idx, asked, o)
  /\ \A o : PlaceOf(idx, o) =>
       /\ RunTo(idx, asked, o) <= RunTo(idx, asked, m)
       /\ RunTo(idx, asked, o) = RunTo(idx, asked, m) => Before(m, o)

Unmatched(idx, asked) == \A o : PlaceOf(idx, o) => RunTo(idx, asked, o) = 0

LEMMA WholeMatches ==
  ASSUME NEW scripts, NEW idx, NEW asked, Indexes(scripts, idx, asked),
         Len(asked) \in Nat, Len(asked) > 0, NEW m
  PROVE  m \in PrefixMatches(idx, asked) <=> Whole(idx, asked, m)
<1>1. Len(asked) \in 1 .. Len(asked)
  OBVIOUS
<1>2. m \in Matches(idx, asked, Len(asked)) <=>
        PlaceOf(idx, m) /\ Len(asked) <= RunTo(idx, asked, m)
  BY <1>1, MatchesByRun
<1>3. PlaceOf(idx, m) => RunTo(idx, asked, m) \in Nat /\ RunTo(idx, asked, m) <= Len(asked)
  BY PlacesAre
<1>4. m \in Matches(idx, asked, Len(asked)) <=>
        PlaceOf(idx, m) /\ RunTo(idx, asked, m) = Len(asked)
  BY <1>2, <1>3
<1> QED BY <1>4 DEF PrefixMatches, Whole

\* The longest context is found where a run is longest.
LEMMA LongestMatches ==
  ASSUME NEW scripts, NEW idx, NEW asked, Indexes(scripts, idx, asked),
         Len(asked) \in Nat, Len(asked) > 0
  PROVE  /\ SuffixMatches(idx, asked) = {} => Unmatched(idx, asked)
         /\ \A m \in SuffixMatches(idx, asked) :
              /\ PlaceOf(idx, m) /\ RunTo(idx, asked, m) > 0
              /\ \A o : PlaceOf(idx, o) =>
                   /\ RunTo(idx, asked, o) <= RunTo(idx, asked, m)
                   /\ RunTo(idx, asked, o) = RunTo(idx, asked, m) => o \in SuffixMatches(idx, asked)
<1> DEFINE l == Len(asked)
           M(n) == Matches(idx, asked, n)
           R(m) == RunTo(idx, asked, m)
           P(m) == PlaceOf(idx, m)
           lengths == {n \in 1 .. l : M(n) # {}}
           best == Max(lengths)
           found == SuffixMatches(idx, asked)
<1>1. l \in Nat
  OBVIOUS
<1>2. \A n \in 1 .. l : \A m : m \in M(n) <=> P(m) /\ n <= R(m)
  BY MatchesByRun
<1>3. \A m : P(m) => R(m) \in Nat /\ R(m) <= l
  BY PlacesAre
<1>4. found = IF lengths = {} THEN {} ELSE M(best)
  BY DEF SuffixMatches
<1> HIDE DEF l, M, R, P, found
<1>5. ASSUME NEW m, P(m), R(m) > 0 PROVE R(m) \in lengths
  <2>1. R(m) \in 1 .. l
    BY <1>1, <1>3, <1>5
  <2>2. m \in M(R(m))
    BY <1>2, <1>3, <1>5, <2>1
  <2> QED BY <2>1, <2>2
<1>6. CASE lengths = {}
  <2>1. \A m : P(m) => R(m) = 0
    <3> SUFFICES ASSUME NEW m, P(m) PROVE R(m) = 0
      OBVIOUS
    <3>1. ~(R(m) > 0)
      BY <1>5, <1>6
    <3> HIDE DEF lengths
    <3> QED BY <1>3, <3>1
  <2>2. found = {}
    BY <1>4, <1>6
  <2> QED BY <2>1, <2>2 DEF Unmatched, P, R, found
<1>7. CASE lengths # {}
  <2>1. lengths \in SUBSET Nat /\ \A x \in lengths : x <= l
    BY <1>1
  <2>2. best \in lengths /\ \A x \in lengths : best >= x
    <3> HIDE DEF lengths
    <3>1. \E x \in lengths : \A y \in lengths : x >= y
      BY <1>1, <1>7, <2>1, GreatestExists
    <3> QED BY <3>1 DEF Max
  <2>3. found = M(best)
    BY <1>4, <1>7
  <2> HIDE DEF best
  <2>4. best \in 1 .. l /\ M(best) # {} /\ best \in Nat /\ best > 0
    BY <1>1, <2>2
  <2>5. \A m : m \in found <=> P(m) /\ best <= R(m)
    BY <1>2, <2>3, <2>4
  <2> HIDE DEF lengths
  <2>6. \A m : P(m) => R(m) <= best
    <3> SUFFICES ASSUME NEW m, P(m) PROVE R(m) <= best
      OBVIOUS
    <3>1. R(m) \in Nat
      BY <1>3
    <3>2. CASE R(m) > 0
      <4>1. R(m) \in lengths
        BY <1>5, <3>2
      <4> QED BY <2>2, <2>4, <3>1, <4>1
    <3> QED BY <2>4, <3>1, <3>2
  <2>7. \A m \in found :
          /\ P(m) /\ R(m) > 0
          /\ \A o : P(o) => R(o) <= R(m) /\ (R(o) = R(m) => o \in found)
    <3> SUFFICES ASSUME NEW m \in found
                 PROVE  /\ P(m) /\ R(m) > 0
                        /\ \A o : P(o) => R(o) <= R(m) /\ (R(o) = R(m) => o \in found)
      OBVIOUS
    <3>1. P(m) /\ R(m) = best
      BY <1>3, <2>4, <2>5, <2>6
    <3> QED BY <2>4, <2>5, <2>6, <3>1
  <2>8. found # {}
    BY <2>3, <2>4
  <2> QED BY <2>7, <2>8 DEF P, R, found
<1> QED BY <1>6, <1>7

\* The three levels of select, of which the last has nothing to add.
Levels(idx, asked) ==
  <<[kind |-> "conversation_prefix", matches |-> PrefixMatches(idx, asked)],
    [kind |-> "suffix", matches |-> SuffixMatches(idx, asked)],
    [kind |-> "last_user", matches |-> LastUsers(idx, asked)]>>

LEMMA SelectByLevel ==
  ASSUME NEW idx, NEW request, NEW asked, asked = Asked(request), asked # <<>>
  PROVE  /\ PrefixMatches(idx, asked) # {} =>
              Select(idx, request)
                = Selection(idx, FirstOf(PrefixMatches(idx, asked)), "conversation_prefix")
         /\ PrefixMatches(idx, asked) = {} /\ SuffixMatches(idx, asked) # {} =>
              Select(idx, request)
                = Selection(idx, FirstOf(SuffixMatches(idx, asked)), "suffix")
         /\ /\ PrefixMatches(idx, asked) = {} /\ SuffixMatches(idx, asked) = {}
            /\ LastUsers(idx, asked) = {}
            => Select(idx, request) = ByDigest(idx, DigestOf(Key(request)))
<1> DEFINE levels == Levels(idx, asked)
           pre == PrefixMatches(idx, asked)
           suf == SuffixMatches(idx, asked)
           last == LastUsers(idx, asked)
           found == {l \in DOMAIN levels : levels[l].matches # {}}
           level == Min(found)
<1>1. Select(idx, request) = IF found = {} THEN ByDigest(idx, DigestOf(Key(request)))
        ELSE Selection(idx, FirstOf(levels[level].matches), levels[level].kind)
  BY DEF Select, Levels
<1>2. /\ DOMAIN levels = {1, 2, 3}
      /\ levels[1] = [kind |-> "conversation_prefix", matches |-> pre]
      /\ levels[2] = [kind |-> "suffix", matches |-> suf]
      /\ levels[3] = [kind |-> "last_user", matches |-> last]
  BY DEF Levels
<1> HIDE DEF levels, pre, suf, last
<1>3. /\ levels[1].matches = pre /\ levels[1].kind = "conversation_prefix"
      /\ levels[2].matches = suf /\ levels[2].kind = "suffix"
      /\ levels[3].matches = last
  BY <1>2
<1>4. /\ 1 \in found <=> pre # {}
      /\ 2 \in found <=> suf # {}
      /\ 3 \in found <=> last # {}
      /\ found \subseteq {1, 2, 3}
  BY <1>2, <1>3
<1>5. found \in SUBSET Nat
  BY <1>4
<1> HIDE DEF found
<1>6. found # {} => level \in found /\ \A x \in found : level <= x
  BY <1>5, MinOfSome
<1> HIDE DEF level
<1>7. ASSUME pre # {}
      PROVE  Select(idx, request) = Selection(idx, FirstOf(pre), "conversation_prefix")
  <2>1. 1 \in found
    BY <1>4, <1>7
  <2>2. level \in {1, 2, 3} /\ level <= 1
    BY <1>4, <1>6, <2>1
  <2>3. level = 1
    BY <2>2
  <2> QED BY <1>1, <1>3, <2>1, <2>3
<1>8. ASSUME pre = {}, suf # {}
      PROVE  Select(idx, request) = Selection(idx, FirstOf(suf), "suffix")
  <2>1. 1 \notin found /\ 2 \in found
    BY <1>4, <1>8
  <2>2. level \in {1, 2, 3} /\ level <= 2 /\ level # 1
    BY <1>4, <1>6, <2>1
  <2>3. level = 2
    BY <2>2
  <2> QED BY <1>1, <1>3, <2>1, <2>3
<1>9. ASSUME pre = {}, suf = {}, last = {}
      PROVE  Select(idx, request) = ByDigest(idx, DigestOf(Key(request)))
  BY <1>1, <1>4, <1>9
<1> QED BY <1>7, <1>8, <1>9 DEF pre, suf, last

\* A request is answered from a place at which all it asks is begun and ended,
\* or else the longest run is found, or by its digest when no turn is asked.
LEMMA SelectIs ==
  ASSUME NEW scripts, NEW idx, NEW request \in Requests,
         scripts \in Seq(ScriptType), IsIndex(scripts, idx)
  PROVE  \/ /\ Unmatched(idx, Asked(request))
            /\ Select(idx, request) = ByDigest(idx, DigestOf(Key(request)))
         \/ \E m : /\ ByPrefix(idx, Asked(request), m) /\ RunTo(idx, Asked(request), m) > 0
                   /\ Select(idx, request) = Selection(idx, m, "conversation_prefix")
         \/ \E m : /\ BySuffix(idx, Asked(request), m) /\ RunTo(idx, Asked(request), m) > 0
                   /\ Select(idx, request) = Selection(idx, m, "suffix")
<1> DEFINE asked == Asked(request)
           pre == PrefixMatches(idx, asked)
           suf == SuffixMatches(idx, asked)
<1>1. asked \in Seq(Normals)
  BY AskedTyped
<1> HIDE DEF asked
<1>2. Len(asked) \in Nat /\ Indexes(scripts, idx, asked) /\ (Len(asked) = 0 <=> asked = <<>>)
  BY <1>1 DEF Indexes
<1>3. \A m : PlaceOf(idx, m) => m[1] \in Nat /\ m[2] \in Nat /\ RunTo(idx, asked, m) \in Nat
                                /\ RunTo(idx, asked, m) <= Len(asked)
  BY <1>2, PlacesAre
<1>4. CASE asked = <<>>
  <2>1. Select(idx, request) = ByDigest(idx, DigestOf(Key(request)))
    BY <1>4 DEF Select, asked
  <2>2. Unmatched(idx, asked)
    BY <1>2, <1>3, <1>4 DEF Unmatched
  <2> QED BY <2>1, <2>2 DEF asked
<1>5. CASE asked # <<>>
  <2>1. Len(asked) > 0
    BY <1>2, <1>5
  <2>2. \A m : m \in pre <=> Whole(idx, asked, m)
    BY <1>2, <2>1, WholeMatches
  <2>3. /\ suf = {} => Unmatched(idx, asked)
        /\ \A m \in suf :
              /\ PlaceOf(idx, m) /\ RunTo(idx, asked, m) > 0
              /\ \A o : PlaceOf(idx, o) =>
                   /\ RunTo(idx, asked, o) <= RunTo(idx, asked, m)
                   /\ RunTo(idx, asked, o) = RunTo(idx, asked, m) => o \in suf
    BY <1>2, <2>1, LongestMatches
  <2>4. /\ pre # {} => Select(idx, request) = Selection(idx, FirstOf(pre), "conversation_prefix")
        /\ pre = {} /\ suf # {} => Select(idx, request) = Selection(idx, FirstOf(suf), "suffix")
        /\ pre = {} /\ suf = {} /\ LastUsers(idx, asked) = {} =>
              Select(idx, request) = ByDigest(idx, DigestOf(Key(request)))
    BY <1>5, SelectByLevel DEF asked
  <2> HIDE DEF pre, suf
  <2>5. CASE pre # {}
    <3> DEFINE m == FirstOf(pre)
    <3>1. \A o \in pre : o[1] \in Nat /\ o[2] \in Nat
      BY <1>3, <2>2 DEF Whole
    <3>2. Leads(pre, m)
      BY <2>5, <3>1, FirstIs
    <3> HIDE DEF m
    <3>3. ByPrefix(idx, asked, m)
      BY <2>2, <3>2 DEF Leads, ByPrefix, Before
    <3>4. RunTo(idx, asked, m) > 0
      BY <2>1, <3>3 DEF ByPrefix, Whole
    <3>5. Select(idx, request) = Selection(idx, m, "conversation_prefix")
      BY <2>4, <2>5 DEF m
    <3> QED BY <3>3, <3>4, <3>5 DEF asked
  <2>6. CASE pre = {} /\ suf # {}
    <3> DEFINE m == FirstOf(suf)
    <3>1. \A o \in suf : o[1] \in Nat /\ o[2] \in Nat
      BY <1>3, <2>3
    <3>2. Leads(suf, m)
      BY <2>6, <3>1, FirstIs
    <3> HIDE DEF m
    <3>3. PlaceOf(idx, m) /\ RunTo(idx, asked, m) > 0
      BY <2>3, <3>2 DEF Leads
    <3>4. \A o : ~Whole(idx, asked, o)
      BY <2>2, <2>6
    <3>5. \A o : PlaceOf(idx, o) =>
             /\ RunTo(idx, asked, o) <= RunTo(idx, asked, m)
             /\ RunTo(idx, asked, o) = RunTo(idx, asked, m) => Before(m, o)
      BY <2>3, <3>2 DEF Leads, Before
    <3>6. BySuffix(idx, asked, m)
      BY <3>3, <3>4, <3>5 DEF BySuffix
    <3>7. Select(idx, request) = Selection(idx, m, "suffix")
      BY <2>4, <2>6 DEF m
    <3> QED BY <3>3, <3>6, <3>7 DEF asked
  <2>7. CASE pre = {} /\ suf = {}
    <3>1. Unmatched(idx, asked)
      BY <2>3, <2>7
    <3>2. LastUsers(idx, asked) = {}
      <4>1. 1 \in 1 .. Len(asked)
        BY <1>2, <2>1
      <4>2. \A m : m \in Matches(idx, asked, 1) <=> PlaceOf(idx, m) /\ 1 <= RunTo(idx, asked, m)
        BY <1>2, <4>1, MatchesByRun
      <4>3. \A m : m \notin Matches(idx, asked, 1)
        BY <3>1, <4>2 DEF Unmatched
      <4> QED BY <4>3 DEF LastUsers
    <3> QED BY <2>4, <2>7, <3>1, <3>2 DEF asked
  <2> QED BY <2>5, <2>6, <2>7
<1> QED BY <1>4, <1>5

(***************************************************************************)
(* Places of the index and places of the conversations.                    *)
(***************************************************************************)
\* What a dataset is loaded as.
IsLoaded(sources, scripts, idx) ==
  /\ sources \in Seq(Source)
  /\ scripts = Load(Rows(sources)) /\ idx = Build(scripts)

LEMMA LoadedIs ==
  ASSUME NEW sources, NEW scripts, NEW idx, IsLoaded(sources, scripts, idx)
  PROVE  /\ scripts \in Seq(ScriptType) /\ IsIndex(scripts, idx)
         /\ \A s, z \in 1 .. Len(scripts) : s < z => scripts[s].id < scripts[z].id
         /\ \A s \in 1 .. Len(scripts) :
              \E q \in 1 .. Len(scripts[s].turns) : IsAssistant(scripts[s].turns[q])
<1>1. Scripts(Rows(sources), scripts)
  BY ScriptsAre DEF IsLoaded
<1>2. \A s \in 1 .. Len(scripts) :
        \E q \in 1 .. Len(scripts[s].turns) : IsAssistant(scripts[s].turns[q])
  BY ScriptsReply DEF IsLoaded
<1>3. scripts \in Seq(ScriptType)
  BY <1>1 DEF Scripts
<1>4. IsIndex(scripts, Build(scripts))
  BY <1>2, <1>3, IndexIs
<1>5. IsIndex(scripts, idx)
  BY <1>4 DEF IsLoaded
<1>6. \A s, z \in 1 .. Len(scripts) : s < z => scripts[s].id < scripts[z].id
  BY <1>1 DEF Scripts
<1> QED BY <1>2, <1>3, <1>5, <1>6

PlacesIn(sources) == UNION {{i} \X DOMAIN UserTurnsOf(sources[i]) : i \in DOMAIN sources}

RunAt(sources, asked, p) == Context(sources[p[1]], asked, p[2])

\* A place of the index and a place of the conversations are the same.
Corresponds(scripts, sources, m, p) ==
  /\ p[1] \in 1 .. Len(sources) /\ m[1] \in 1 .. Len(scripts)
  /\ m[2] = p[2] /\ IsScript(scripts[m[1]], sources[p[1]])

LEMMA UsersOfScript ==
  ASSUME NEW script, NEW source, IsScript(script, source)
  PROVE  UserTurnsOf(script) = UserTurnsOf(source)
BY DEF UserTurnsOf, IsScript

LEMMA PlacesInAre ==
  ASSUME NEW sources \in Seq(Source), NEW p
  PROVE  p \in PlacesIn(sources) <=>
           \E i \in 1 .. Len(sources) :
             \E k \in 1 .. Len(UserPlaces(sources[i].turns)) : p = <<i, k>>
<1>1. DOMAIN sources = 1 .. Len(sources)
  OBVIOUS
<1>2. \A i \in 1 .. Len(sources) :
        DOMAIN UserTurnsOf(sources[i]) = 1 .. Len(UserPlaces(sources[i].turns))
  <2> SUFFICES ASSUME NEW i \in 1 .. Len(sources)
               PROVE  DOMAIN UserTurnsOf(sources[i]) = 1 .. Len(UserPlaces(sources[i].turns))
    OBVIOUS
  <2>1. sources[i] \in Source
    OBVIOUS
  <2>2. sources[i].turns \in Seq(ScriptTurn)
    BY <2>1 DEF Source
  <2>3. UserPlaces(sources[i].turns) \in Seq(Nat)
    BY <2>2, UserPlacesAre
  <2>4. DOMAIN UserPlaces(sources[i].turns) = 1 .. Len(UserPlaces(sources[i].turns))
    BY <2>3
  <2> QED BY <2>4 DEF UserTurnsOf
<1>3. PlacesIn(sources)
        = UNION {{i} \X (1 .. Len(UserPlaces(sources[i].turns))) : i \in 1 .. Len(sources)}
  BY <1>1, <1>2 DEF PlacesIn
<1> QED BY <1>3

LEMMA EveryPlace ==
  ASSUME NEW sources, NEW scripts, NEW idx, IsLoaded(sources, scripts, idx),
         DistinctIds(sources), NEW asked
  PROVE  /\ \A m : PlaceOf(idx, m) =>
              \E p \in PlacesIn(sources) :
                Corresponds(scripts, sources, m, p)
                /\ RunAt(sources, asked, p) = RunTo(idx, asked, m)
         /\ \A p \in PlacesIn(sources) :
              \E m : /\ PlaceOf(idx, m) /\ Corresponds(scripts, sources, m, p)
                     /\ RunAt(sources, asked, p) = RunTo(idx, asked, m)
<1>1. /\ Len(idx) = Len(scripts)
      /\ \A s \in 1 .. Len(scripts) : IsEntry(scripts[s], idx[s])
  BY LoadedIs DEF IsIndex
<1>2. /\ \A s \in 1 .. Len(scripts) : \E i \in 1 .. Len(sources) :
           IsScript(scripts[s], sources[i])
      /\ \A i \in 1 .. Len(sources) : \A q \in 1 .. Len(sources[i].turns) :
           IsAssistant(sources[i].turns[q]) =>
             \E s \in 1 .. Len(scripts) : IsScript(scripts[s], sources[i])
  BY ScriptsAreSources DEF IsLoaded
<1>3. sources \in Seq(Source)
  BY DEF IsLoaded
<1>4. ASSUME NEW s \in 1 .. Len(scripts), NEW i \in 1 .. Len(sources),
             IsScript(scripts[s], sources[i]), NEW k \in 1 .. Len(UserPlaces(sources[i].turns))
      PROVE  /\ PlaceOf(idx, <<s, k>>) /\ <<i, k>> \in PlacesIn(sources)
             /\ Corresponds(scripts, sources, <<s, k>>, <<i, k>>)
             /\ RunAt(sources, asked, <<i, k>>) = RunTo(idx, asked, <<s, k>>)
  <2>1. idx[s].users = UserTurnsOf(sources[i])
    <3>1. idx[s].users = UserTurnsOf(scripts[s])
      BY <1>1 DEF IsEntry
    <3>2. UserTurnsOf(scripts[s]) = UserTurnsOf(sources[i])
      BY <1>4, UsersOfScript
    <3> QED BY <3>1, <3>2
  <2>2. Len(idx[s].users) = Len(UserPlaces(sources[i].turns))
    BY <1>1, <1>4 DEF IsEntry, IsScript
  <2>3. PlaceOf(idx, <<s, k>>)
    BY <1>1, <2>2 DEF PlaceOf
  <2>4. <<i, k>> \in PlacesIn(sources)
    BY <1>3, PlacesInAre
  <2>5. RunAt(sources, asked, <<i, k>>) = Context(sources[i], asked, k)
    BY DEF RunAt
  <2>6. Context(sources[i], asked, k) = RunOf(idx[s].users, asked, k)
    BY <2>1, ContextIsRun
  <2>7. RunTo(idx, asked, <<s, k>>) = RunOf(idx[s].users, asked, k)
    BY DEF RunTo
  <2>8. Corresponds(scripts, sources, <<s, k>>, <<i, k>>)
    BY <1>4 DEF Corresponds
  <2> QED BY <2>3, <2>4, <2>5, <2>6, <2>7, <2>8
<1>5. ASSUME NEW m, PlaceOf(idx, m)
      PROVE  \E p \in PlacesIn(sources) :
                Corresponds(scripts, sources, m, p)
                /\ RunAt(sources, asked, p) = RunTo(idx, asked, m)
  <2>1. PICK s \in 1 .. Len(idx) : \E k \in 1 .. Len(idx[s].users) : m = <<s, k>>
    BY <1>5 DEF PlaceOf
  <2>2. PICK k \in 1 .. Len(idx[s].users) : m = <<s, k>>
    BY <2>1
  <2>3. PICK i \in 1 .. Len(sources) : IsScript(scripts[s], sources[i])
    BY <1>1, <1>2
  <2>4. Len(idx[s].users) = Len(UserPlaces(sources[i].turns))
    BY <1>1, <2>3 DEF IsEntry, IsScript
  <2>5. k \in 1 .. Len(UserPlaces(sources[i].turns)) /\ s \in 1 .. Len(scripts)
    BY <1>1, <2>4
  <2> QED BY <1>4, <2>2, <2>3, <2>5
<1>6. ASSUME NEW p \in PlacesIn(sources)
      PROVE  \E m : /\ PlaceOf(idx, m) /\ Corresponds(scripts, sources, m, p)
                    /\ RunAt(sources, asked, p) = RunTo(idx, asked, m)
  <2>1. PICK i \in 1 .. Len(sources) :
          \E k \in 1 .. Len(UserPlaces(sources[i].turns)) : p = <<i, k>>
    BY <1>3, PlacesInAre
  <2>2. PICK k \in 1 .. Len(UserPlaces(sources[i].turns)) : p = <<i, k>>
    BY <2>1
  <2>3. sources[i] \in Source
    BY <1>3
  <2>4. sources[i].turns \in Seq(ScriptTurn)
    BY <2>3 DEF Source
  <2>5. \E q \in 1 .. Len(sources[i].turns) : IsAssistant(sources[i].turns[q])
    BY <2>4, UserPlacesAre
  <2>6. PICK s \in 1 .. Len(scripts) : IsScript(scripts[s], sources[i])
    BY <1>2, <2>5
  <2>7. /\ PlaceOf(idx, <<s, k>>)
        /\ Corresponds(scripts, sources, <<s, k>>, <<i, k>>)
        /\ RunAt(sources, asked, <<i, k>>) = RunTo(idx, asked, <<s, k>>)
    BY <1>4, <2>6
  <2> QED BY <2>2, <2>7
<1> QED BY <1>5, <1>6

\* The reply at a place is one that its conversation gave directly.
LEMMA ReplyGiven ==
  ASSUME NEW sources, NEW scripts, NEW idx, IsLoaded(sources, scripts, idx),
         NEW m, PlaceOf(idx, m), NEW p, Corresponds(scripts, sources, m, p), NEW kind
  PROVE  /\ Selection(idx, m, kind).kind = kind
         /\ Selection(idx, m, kind).script = sources[p[1]].conversation
         /\ Selection(idx, m, kind).reply \in RepliesIn(sources[p[1]], p[2])
<1> DEFINE s == m[1]
           k == m[2]
           source == sources[p[1]]
           turns == source.turns
           reply == idx[s].replies[k]
<1>1. IsEntry(scripts[s], idx[s]) /\ IsScript(scripts[s], source) /\ p[2] = k
      /\ source \in Source /\ Len(idx) = Len(scripts)
  BY LoadedIs DEF IsIndex, Corresponds, IsLoaded
<1>2. k \in 1 .. Len(idx[s].users)
  <2>1. PICK z \in 1 .. Len(idx) : \E j \in 1 .. Len(idx[z].users) : m = <<z, j>>
    BY DEF PlaceOf
  <2> QED BY <2>1
<1>3. Selection(idx, m, kind) = [script |-> idx[s].id, reply |-> reply, kind |-> kind]
  BY DEF Selection
<1> HIDE DEF s, k, source, reply
<1>4. scripts[s].turns = turns /\ scripts[s].id = source.conversation
  BY <1>1 DEF IsScript
<1>5. k \in 1 .. Len(UserPlaces(turns)) /\ idx[s].id = source.conversation
  BY <1>1, <1>2, <1>4 DEF IsEntry
<1>6. RepliesTo(turns, UserPlaces(turns)[k], reply)
  BY <1>1, <1>4, <1>5 DEF IsEntry, reply
<1>7. DOMAIN turns = 1 .. Len(turns)
  BY <1>1 DEF Source
<1>8. reply \in RepliesIn(source, k)
  BY <1>6, <1>7 DEF RepliesTo, RepliesIn
<1> QED BY <1>1, <1>3, <1>5, <1>8 DEF source

(***************************************************************************)
(* The dataset, whatever is built, recorded and loaded.                    *)
(***************************************************************************)
LEMMA InteractionTyped ==
  ASSUME NEW messages \in Seq(ScriptTurn), NEW reply \in ScriptTurn
  PROVE  Interaction(messages, reply) \in Seq(ScriptTurn)
<1>1. Append(messages, reply) \in Seq(ScriptTurn)
  <2> DEFINE T == ScriptTurn
  <2> HIDE DEF T
  <2>1. ASSUME NEW x \in Seq(T), NEW e \in T PROVE Append(x, e) \in Seq(T)
    BY <2>1
  <2> QED BY <2>1 DEF T
<1> QED BY <1>1 DEF Interaction

LEMMA LibraryStarts == Init => LibraryTypeOK
BY DEF Init, LibraryTypeOK

LEMMA LibrarySteps == LibraryTypeOK /\ [Next]_vars => LibraryTypeOK'
<1> SUFFICES ASSUME LibraryTypeOK, [Next]_vars PROVE LibraryTypeOK'
  OBVIOUS
<1> DEFINE T == Seq(Source)
           Loads(sources) == Load(Rows(sources))
<1>1. file \in T \cup {None} /\ loaded \in T \cup {None}
      /\ (loaded # None => Loads(loaded) # <<>> /\ index = Build(Loads(loaded)))
  BY DEF LibraryTypeOK
<1>2. LibraryTypeOK' <=>
        /\ file' \in T \cup {None} /\ loaded' \in T \cup {None}
        /\ (loaded' # None => Loads(loaded') # <<>> /\ index' = Build(Loads(loaded')))
  BY DEF LibraryTypeOK
<1>3. Sets \subseteq T /\ Sample \in T
  BY SourcesAssumption
<1>4. ASSUME NEW s \in T, NEW e \in Source PROVE Append(s, e) \in T /\ <<e>> \in T
  <2> DEFINE S == Source
  <2> HIDE DEF S
  <2>1. ASSUME NEW x \in Seq(S), NEW y \in S PROVE Append(x, y) \in Seq(S) /\ <<y>> \in Seq(S)
    BY <2>1
  <2> QED BY <1>4, <2>1 DEF S
<1>5. ASSUME NEW sets \in Sets, BuildDataset(sets) PROVE LibraryTypeOK'
  <2>1. file' \in T /\ loaded' = loaded /\ index' = index
    BY <1>3, <1>5 DEF BuildDataset
  <2> HIDE DEF T, Loads
  <2> QED BY <1>1, <1>2, <2>1
<1>6. ASSUME NEW interaction \in Interactions, Record(interaction) PROVE LibraryTypeOK'
  <2> DEFINE recorded == [conversation |-> interaction.conversation,
                          turns |-> Interaction(interaction.messages, interaction.reply)]
  <2>1. interaction.conversation \in Conversations /\ interaction.messages \in Seq(ScriptTurn)
        /\ interaction.reply \in ScriptTurn
    BY SourcesAssumption
  <2>2. Interaction(interaction.messages, interaction.reply) \in Seq(ScriptTurn)
    BY <2>1, InteractionTyped
  <2>3. recorded \in Source
    BY <2>1, <2>2 DEF Source
  <2>4. file' = (IF file = None THEN <<recorded>> ELSE Append(file, recorded))
        /\ loaded' = loaded /\ index' = index
    BY <1>6 DEF Record
  <2> HIDE DEF recorded
  <2>5. file = None => file' \in T
    <3>1. <<recorded>> \in T
      BY <1>3, <1>4, <2>3
    <3> QED BY <2>4, <3>1
  <2>6. file # None => file' \in T
    <3> HIDE DEF T
    <3> SUFFICES ASSUME file # None PROVE file' \in T
      OBVIOUS
    <3>1. file \in T
      BY <1>1
    <3>2. Append(file, recorded) \in T
      BY <1>4, <2>3, <3>1
    <3> QED BY <2>4, <3>2
  <2> HIDE DEF T, Loads
  <2> QED BY <1>1, <1>2, <2>4, <2>5, <2>6
<1>7. ASSUME Start PROVE LibraryTypeOK'
  <2> DEFINE present == IF file = None THEN Sample ELSE file
  <2>1. present \in T
    <3> HIDE DEF T
    <3> QED BY <1>1, <1>3
  <2>2. Loads(present) # <<>> /\ file' = present /\ loaded' = present
        /\ index' = Build(Loads(present))
    BY <1>7 DEF Start
  <2> HIDE DEF present, T, Loads
  <2> QED BY <1>2, <2>1, <2>2
<1>8. CASE UNCHANGED vars
  <2>1. file' = file /\ loaded' = loaded /\ index' = index
    BY <1>8 DEF vars
  <2> HIDE DEF T, Loads
  <2> QED BY <1>1, <1>2, <2>1
<1> QED BY <1>5, <1>6, <1>7, <1>8 DEF Next

\* The running server's index is that of the conversations it has loaded, which
\* have a reply, whatever has been built or recorded since.
THEOREM LibraryTypeCorrect == Spec => []LibraryTypeOK
<1>1. Init => LibraryTypeOK
  BY LibraryStarts
<1>2. LibraryTypeOK /\ [Next]_vars => LibraryTypeOK'
  BY LibrarySteps
<1> QED BY <1>1, <1>2, PTL DEF Spec

(***************************************************************************)
(* Replies follow the turns they were recorded for.                        *)
(***************************************************************************)
\* What RepliesFollowTheirTurns says of one request.
ReplyFollows(sources, idx, request) ==
  LET asked == Asked(request)
      places == UNION {{i} \X DOMAIN UserTurnsOf(sources[i]) : i \in DOMAIN sources}
      Run(p) == Context(sources[p[1]], asked, p[2])
      given == Select(idx, request)
  IN  IF given.kind = "fallback"
      THEN \A p \in places : Run(p) = 0
      ELSE \E p \in places :
             /\ sources[p[1]].conversation = given.script
             /\ given.reply \in RepliesIn(sources[p[1]], p[2])
             /\ Run(p) > 0
             /\ \A o \in places : Run(o) <= Run(p)
             /\ given.kind = "conversation_prefix" => p[2] = Len(asked)
             /\ given.kind = "conversation_prefix" <=>
                  \E o \in places : Run(o) = o[2] /\ Run(o) = Len(asked)

LEMMA EachReplyFollows ==
  ASSUME NEW sources, NEW scripts, NEW idx, IsLoaded(sources, scripts, idx),
         DistinctIds(sources), NEW request \in Requests
  PROVE  ReplyFollows(sources, idx, request)
<1> DEFINE asked == Asked(request)
           places == PlacesIn(sources)
           Run(p) == RunAt(sources, asked, p)
           R(m) == RunTo(idx, asked, m)
           P(m) == PlaceOf(idx, m)
           given == Select(idx, request)
           Same(m, p) == Corresponds(scripts, sources, m, p)
<1>1. /\ \A m : P(m) => \E p \in places : Same(m, p) /\ Run(p) = R(m)
      /\ \A p \in places : \E m : P(m) /\ Same(m, p) /\ Run(p) = R(m)
  BY EveryPlace
<1>2. \/ Unmatched(idx, asked) /\ given = ByDigest(idx, DigestOf(Key(request)))
      \/ \E m : /\ ByPrefix(idx, asked, m) /\ R(m) > 0
                /\ given = Selection(idx, m, "conversation_prefix")
      \/ \E m : /\ BySuffix(idx, asked, m) /\ R(m) > 0 /\ given = Selection(idx, m, "suffix")
  BY LoadedIs, SelectIs
<1>3. \A m, p, kind : P(m) /\ Same(m, p) =>
        /\ Selection(idx, m, kind).kind = kind
        /\ Selection(idx, m, kind).script = sources[p[1]].conversation
        /\ Selection(idx, m, kind).reply \in RepliesIn(sources[p[1]], p[2])
  BY ReplyGiven
<1>4. \A m, p : Same(m, p) => m[2] = p[2]
  BY DEF Corresponds
<1>5. ReplyFollows(sources, idx, request) <=>
        IF given.kind = "fallback"
        THEN \A p \in places : Run(p) = 0
        ELSE \E p \in places :
               /\ sources[p[1]].conversation = given.script
               /\ given.reply \in RepliesIn(sources[p[1]], p[2])
               /\ Run(p) > 0
               /\ \A o \in places : Run(o) <= Run(p)
               /\ given.kind = "conversation_prefix" => p[2] = Len(asked)
               /\ given.kind = "conversation_prefix" <=>
                    \E o \in places : Run(o) = o[2] /\ Run(o) = Len(asked)
  BY DEF ReplyFollows, PlacesIn, RunAt
<1>6. Unmatched(idx, asked) => \A m : P(m) => R(m) = 0
  BY DEF Unmatched
<1>7. \A m : ByPrefix(idx, asked, m) => P(m) /\ R(m) = Len(asked) /\ m[2] = Len(asked)
  BY DEF ByPrefix, Whole
<1>8. \A m : BySuffix(idx, asked, m) =>
        /\ P(m) /\ \A o : P(o) => R(o) <= R(m) /\ ~(R(o) = Len(asked) /\ o[2] = Len(asked))
  BY DEF BySuffix, Whole
<1>9. ByDigest(idx, DigestOf(Key(request))).kind = "fallback"
  BY DEF ByDigest
<1>10. \A m : P(m) => R(m) <= Len(asked)
  <2>1. asked \in Seq(Normals)
    BY AskedTyped
  <2>2. scripts \in Seq(ScriptType) /\ IsIndex(scripts, idx)
    BY LoadedIs
  <2>3. Indexes(scripts, idx, asked)
    BY <2>1, <2>2 DEF Indexes
  <2> QED BY <2>3, PlacesAre
<1> HIDE DEF asked, places, Run, R, P, given, Same
<1>11. CASE Unmatched(idx, asked) /\ given = ByDigest(idx, DigestOf(Key(request)))
  <2>1. \A p \in places : Run(p) = 0
    BY <1>1, <1>6, <1>11
  <2> QED BY <1>5, <1>9, <1>11, <2>1
<1>12. ASSUME NEW m, ByPrefix(idx, asked, m), R(m) > 0,
              given = Selection(idx, m, "conversation_prefix")
       PROVE  ReplyFollows(sources, idx, request)
  <2>1. P(m) /\ R(m) = Len(asked) /\ m[2] = Len(asked)
    BY <1>7, <1>12
  <2>2. PICK p \in places : Same(m, p) /\ Run(p) = R(m)
    BY <1>1, <2>1
  <2>3. given.kind = "conversation_prefix" /\ given.script = sources[p[1]].conversation
        /\ given.reply \in RepliesIn(sources[p[1]], p[2])
    BY <1>3, <1>12, <2>1, <2>2
  <2>4. Run(p) > 0 /\ Run(p) = p[2] /\ Run(p) = Len(asked)
    BY <1>4, <1>12, <2>1, <2>2
  <2>5. \A o \in places : Run(o) <= Run(p)
    BY <1>1, <1>10, <2>4
  <2> QED BY <1>5, <2>3, <2>4, <2>5
<1>13. ASSUME NEW m, BySuffix(idx, asked, m), R(m) > 0,
              given = Selection(idx, m, "suffix")
       PROVE  ReplyFollows(sources, idx, request)
  <2>1. P(m) /\ \A o : P(o) => R(o) <= R(m) /\ ~(R(o) = Len(asked) /\ o[2] = Len(asked))
    BY <1>8, <1>13
  <2>2. PICK p \in places : Same(m, p) /\ Run(p) = R(m)
    BY <1>1, <2>1
  <2>3. given.kind = "suffix" /\ given.script = sources[p[1]].conversation
        /\ given.reply \in RepliesIn(sources[p[1]], p[2])
    BY <1>3, <1>13, <2>1, <2>2
  <2>4. \A o \in places : Run(o) <= Run(p) /\ ~(Run(o) = o[2] /\ Run(o) = Len(asked))
    BY <1>1, <1>4, <2>1, <2>2
  <2>5. Run(p) > 0
    BY <1>13, <2>2
  <2> QED BY <1>5, <2>3, <2>4, <2>5
<1> QED BY <1>2, <1>11, <1>12, <1>13

LEMMA LoadedNow ==
  ASSUME LibraryTypeOK, loaded # None
  PROVE  IsLoaded(loaded, Load(Rows(loaded)), index) /\ Load(Rows(loaded)) # <<>>
BY DEF LibraryTypeOK, IsLoaded

\* When conversations have ids of their own, what a request is answered is what
\* one of them gave, directly, to the last user turn asked, and that one had
\* come to it through the longest run of the turns asked before.
THEOREM RepliesFollow == Spec => []RepliesFollowTheirTurns
<1>1. LibraryTypeOK => RepliesFollowTheirTurns
  <2> SUFFICES ASSUME LibraryTypeOK, loaded # None, DistinctIds(loaded), NEW request \in Valid
               PROVE  ReplyFollows(loaded, index, request)
    BY DEF RepliesFollowTheirTurns, ReplyFollows
  <2>1. request \in Requests
    BY DEF Valid
  <2>2. IsLoaded(loaded, Load(Rows(loaded)), index)
    BY LoadedNow
  <2> QED BY <2>1, <2>2, EachReplyFollows
<1> QED BY <1>1, LibraryTypeCorrect, PTL

(***************************************************************************)
(* A dataset that grows.                                                   *)
(***************************************************************************)
LEMMA PrefixHasElements ==
  ASSUME NEW A, NEW s \in Seq(A), NEW t \in Seq(A), IsPrefix(s, t)
  PROVE  Len(s) <= Len(t) /\ \A i \in 1 .. Len(s) : t[i] = s[i]
<1>1. Len(s) \in Nat /\ Len(t) \in Nat
  OBVIOUS
<1>2. Len(s) <= Len(t) /\ SubSeq(s, 1, Len(s)) = SubSeq(t, 1, Len(s))
  BY DEF IsPrefix
<1>3. SubSeq(s, 1, Len(s)) = s
  OBVIOUS
<1>4. \A i \in 1 .. Len(s) : SubSeq(t, 1, Len(s))[i] = t[i]
  BY <1>1, <1>2
<1> QED BY <1>2, <1>3, <1>4

\* The conversations of one dataset are there in the other.
Grows(sources, more) ==
  /\ Len(sources) <= Len(more)
  /\ \A i \in 1 .. Len(sources) : more[i] = sources[i]

\* A place of one index and a place of the other are the same conversation's.
Carries(scripts, others, m, o) ==
  /\ m[1] \in 1 .. Len(scripts) /\ o[1] \in 1 .. Len(others) /\ m[2] = o[2]
  /\ scripts[m[1]].id = others[o[1]].id /\ scripts[m[1]].turns = others[o[1]].turns

LEMMA GrownDistinct ==
  ASSUME NEW sources \in Seq(Source), NEW more \in Seq(Source), Grows(sources, more),
         DistinctIds(more)
  PROVE  DistinctIds(sources)
<1>1. DOMAIN sources = 1 .. Len(sources) /\ DOMAIN more = 1 .. Len(more)
      /\ Len(sources) \in Nat /\ Len(more) \in Nat
  OBVIOUS
<1>2. \A i \in 1 .. Len(sources) : i \in 1 .. Len(more) /\ more[i] = sources[i]
  BY <1>1 DEF Grows
<1> QED BY <1>1, <1>2 DEF DistinctIds

\* Equal turns are asked and answered equally.
LEMMA SameEntries ==
  ASSUME NEW scripts, NEW idx, NEW others, NEW odx, IsIndex(scripts, idx), IsIndex(others, odx),
         NEW s \in 1 .. Len(scripts), NEW z \in 1 .. Len(others),
         scripts[s].id = others[z].id, scripts[s].turns = others[z].turns
  PROVE  /\ odx[z].id = idx[s].id /\ odx[z].users = idx[s].users
         /\ \A k \in 1 .. Len(idx[s].users) : odx[z].replies[k] = idx[s].replies[k]
<1>1. IsEntry(scripts[s], idx[s]) /\ IsEntry(others[z], odx[z])
  BY DEF IsIndex
<1>2. UserTurnsOf(scripts[s]) = UserTurnsOf(others[z])
  BY DEF UserTurnsOf
<1>3. odx[z].users = idx[s].users
  BY <1>1, <1>2 DEF IsEntry
<1>4. \A k \in 1 .. Len(idx[s].users) :
        /\ idx[s].replies[k] = ReplyAfter(scripts[s].turns, UserPlaces(scripts[s].turns)[k])
        /\ odx[z].replies[k] = ReplyAfter(others[z].turns, UserPlaces(others[z].turns)[k])
  BY <1>1 DEF IsEntry
<1>5. odx[z].id = idx[s].id
  BY <1>1 DEF IsEntry
<1> QED BY <1>3, <1>4, <1>5

LEMMA CarriedPlace ==
  ASSUME NEW scripts, NEW idx, NEW others, NEW odx, IsIndex(scripts, idx), IsIndex(others, odx),
         NEW m, NEW o, PlaceOf(idx, m), Carries(scripts, others, m, o), o = <<o[1], o[2]>>,
         NEW asked
  PROVE  /\ PlaceOf(odx, o) /\ RunTo(odx, asked, o) = RunTo(idx, asked, m)
         /\ \A kind : Selection(odx, o, kind) = Selection(idx, m, kind)
<1> DEFINE s == m[1]
           z == o[1]
           k == m[2]
<1>1. s \in 1 .. Len(scripts) /\ z \in 1 .. Len(others) /\ k = o[2]
      /\ scripts[s].id = others[z].id /\ scripts[s].turns = others[z].turns
  BY DEF Carries
<1>2. k \in 1 .. Len(idx[s].users)
  <2>1. PICK x \in 1 .. Len(idx) : \E j \in 1 .. Len(idx[x].users) : m = <<x, j>>
    BY DEF PlaceOf
  <2> QED BY <2>1
<1>3. RunTo(odx, asked, o) = RunOf(odx[z].users, asked, o[2])
      /\ RunTo(idx, asked, m) = RunOf(idx[s].users, asked, k)
  BY DEF RunTo
<1>4. \A kind :
        /\ Selection(odx, o, kind)
             = [script |-> odx[z].id, reply |-> odx[z].replies[o[2]], kind |-> kind]
        /\ Selection(idx, m, kind)
             = [script |-> idx[s].id, reply |-> idx[s].replies[k], kind |-> kind]
  BY DEF Selection
<1> HIDE DEF s, k
<1>5. odx[z].id = idx[s].id /\ odx[z].users = idx[s].users
      /\ odx[z].replies[k] = idx[s].replies[k]
  BY <1>1, <1>2, SameEntries
<1>6. z \in 1 .. Len(odx) /\ o[2] \in 1 .. Len(odx[z].users)
  BY <1>1, <1>2, <1>5 DEF IsIndex
<1>7. PlaceOf(odx, o)
  BY <1>6 DEF PlaceOf
<1> QED BY <1>1, <1>3, <1>4, <1>5, <1>7

\* Every place is carried over, and none comes to a conversation that was there.
LEMMA PlacesCarry ==
  ASSUME NEW sources, NEW scripts, NEW idx, IsLoaded(sources, scripts, idx),
         NEW more, NEW others, NEW odx, IsLoaded(more, others, odx),
         Grows(sources, more), DistinctIds(more), NEW asked
  PROVE  /\ \A m : PlaceOf(idx, m) =>
              \E o : /\ PlaceOf(odx, o) /\ Carries(scripts, others, m, o)
                     /\ RunTo(odx, asked, o) = RunTo(idx, asked, m)
         /\ \A o, i : PlaceOf(odx, o) /\ i \in 1 .. Len(sources)
                      /\ others[o[1]].id = sources[i].conversation =>
              \E m : /\ PlaceOf(idx, m) /\ Carries(scripts, others, m, o)
                     /\ RunTo(odx, asked, o) = RunTo(idx, asked, m)
<1>1. sources \in Seq(Source) /\ more \in Seq(Source)
  BY DEF IsLoaded
<1>2. DistinctIds(sources)
  BY <1>1, GrownDistinct
<1>3. IsIndex(scripts, idx) /\ IsIndex(others, odx)
      /\ (\A s \in 1 .. Len(scripts) :
            \E q \in 1 .. Len(scripts[s].turns) : IsAssistant(scripts[s].turns[q]))
      /\ \A s \in 1 .. Len(others) :
           \E q \in 1 .. Len(others[s].turns) : IsAssistant(others[s].turns[q])
  BY LoadedIs
<1>4. /\ \A s \in 1 .. Len(scripts) : \E i \in 1 .. Len(sources) :
           IsScript(scripts[s], sources[i])
      /\ \A i \in 1 .. Len(sources) : \A q \in 1 .. Len(sources[i].turns) :
           IsAssistant(sources[i].turns[q]) =>
             \E s \in 1 .. Len(scripts) : IsScript(scripts[s], sources[i])
  BY <1>2, ScriptsAreSources DEF IsLoaded
<1>5. /\ \A s \in 1 .. Len(others) : \E i \in 1 .. Len(more) :
           IsScript(others[s], more[i])
      /\ \A i \in 1 .. Len(more) : \A q \in 1 .. Len(more[i].turns) :
           IsAssistant(more[i].turns[q]) =>
             \E s \in 1 .. Len(others) : IsScript(others[s], more[i])
  BY ScriptsAreSources DEF IsLoaded
<1>6. DOMAIN more = 1 .. Len(more) /\ Len(sources) \in Nat /\ Len(more) \in Nat
  BY <1>1
<1>7. \A i \in 1 .. Len(sources) : i \in 1 .. Len(more) /\ more[i] = sources[i]
  BY <1>6 DEF Grows
<1>8. ASSUME NEW m, PlaceOf(idx, m)
      PROVE  \E o : /\ PlaceOf(odx, o) /\ Carries(scripts, others, m, o)
                    /\ RunTo(odx, asked, o) = RunTo(idx, asked, m)
  <2>1. PICK s \in 1 .. Len(idx) : \E k \in 1 .. Len(idx[s].users) : m = <<s, k>>
    BY <1>8 DEF PlaceOf
  <2>2. PICK k \in 1 .. Len(idx[s].users) : m = <<s, k>>
    BY <2>1
  <2>3. s \in 1 .. Len(scripts)
    BY <1>3 DEF IsIndex
  <2>4. PICK i \in 1 .. Len(sources) : IsScript(scripts[s], sources[i])
    BY <1>4, <2>3
  <2>5. \E q \in 1 .. Len(sources[i].turns) : IsAssistant(sources[i].turns[q])
    BY <1>3, <2>3, <2>4 DEF IsScript
  <2>6. PICK z \in 1 .. Len(others) : IsScript(others[z], more[i])
    BY <1>5, <1>7, <2>5
  <2>7. Carries(scripts, others, m, <<z, k>>)
    BY <1>7, <2>2, <2>3, <2>4, <2>6 DEF Carries, IsScript
  <2> DEFINE o == <<z, k>>
  <2>8. o = <<o[1], o[2]>> /\ Carries(scripts, others, m, o)
    BY <2>7
  <2> HIDE DEF o
  <2>9. PlaceOf(odx, o) /\ RunTo(odx, asked, o) = RunTo(idx, asked, m)
    BY <1>3, <1>8, <2>8, CarriedPlace
  <2> QED BY <2>8, <2>9
<1>9. ASSUME NEW o, NEW i, PlaceOf(odx, o), i \in 1 .. Len(sources),
             others[o[1]].id = sources[i].conversation
      PROVE  \E m : /\ PlaceOf(idx, m) /\ Carries(scripts, others, m, o)
                    /\ RunTo(odx, asked, o) = RunTo(idx, asked, m)
  <2>1. PICK z \in 1 .. Len(odx) : \E k \in 1 .. Len(odx[z].users) : o = <<z, k>>
    BY <1>9 DEF PlaceOf
  <2>2. PICK k \in 1 .. Len(odx[z].users) : o = <<z, k>>
    BY <2>1
  <2>3. z \in 1 .. Len(others) /\ others[z].id = sources[i].conversation
    BY <1>3, <1>9, <2>2 DEF IsIndex
  <2>4. PICK j \in 1 .. Len(more) : IsScript(others[z], more[j])
    BY <1>5, <2>3
  <2>5. j = i
    <3>1. more[j].conversation = more[i].conversation
      BY <1>7, <1>9, <2>3, <2>4 DEF IsScript
    <3> QED BY <1>6, <1>7, <1>9, <3>1 DEF DistinctIds
  <2>6. \E q \in 1 .. Len(sources[i].turns) : IsAssistant(sources[i].turns[q])
    BY <1>3, <1>7, <1>9, <2>3, <2>4, <2>5 DEF IsScript
  <2>7. PICK s \in 1 .. Len(scripts) : IsScript(scripts[s], sources[i])
    BY <1>4, <1>9, <2>6
  <2>8. Carries(others, scripts, o, <<s, k>>) /\ Carries(scripts, others, <<s, k>>, o)
    BY <1>7, <1>9, <2>2, <2>3, <2>4, <2>5, <2>7 DEF Carries, IsScript
  <2> DEFINE m == <<s, k>>
  <2>9. m = <<m[1], m[2]>> /\ Carries(others, scripts, o, m) /\ Carries(scripts, others, m, o)
    BY <2>8
  <2> HIDE DEF m
  <2>10. IsIndex(others, odx) /\ IsIndex(scripts, idx)
    BY <1>3
  <2>11. PlaceOf(idx, m) /\ RunTo(idx, asked, m) = RunTo(odx, asked, o)
    BY <1>9, <2>9, <2>10, CarriedPlace
  <2> QED BY <2>9, <2>11
<1> QED BY <1>8, <1>9

\* Scripts stay in the order of their ids: what comes first in one index and
\* its image in the other cannot change places.
LEMMA OrderKept ==
  ASSUME NEW sources, NEW scripts, NEW idx, IsLoaded(sources, scripts, idx),
         NEW more, NEW others, NEW odx, IsLoaded(more, others, odx),
         NEW m, NEW n, NEW o, NEW q,
         PlaceOf(idx, m), PlaceOf(idx, n), PlaceOf(odx, o), PlaceOf(odx, q),
         Carries(scripts, others, m, q), Carries(scripts, others, n, o),
         Before(m, n), Before(o, q)
  PROVE  m = n /\ o = q
<1>1. /\ scripts \in Seq(ScriptType) /\ others \in Seq(ScriptType)
      /\ \A s, z \in 1 .. Len(scripts) : s < z => scripts[s].id < scripts[z].id
      /\ \A s, z \in 1 .. Len(others) : s < z => others[s].id < others[z].id
      /\ IsIndex(scripts, idx) /\ IsIndex(others, odx)
  BY LoadedIs
<1>2. \A p : PlaceOf(idx, p) => p = <<p[1], p[2]>> /\ p[2] \in Nat
  <2>1. Indexes(scripts, idx, <<>>)
    BY <1>1 DEF Indexes
  <2> QED BY <2>1, PlacesAre
<1>3. \A p : PlaceOf(odx, p) => p = <<p[1], p[2]>> /\ p[2] \in Nat
  <2>1. Indexes(others, odx, <<>>)
    BY <1>1 DEF Indexes
  <2> QED BY <2>1, PlacesAre
<1>4. /\ m[1] \in 1 .. Len(scripts) /\ n[1] \in 1 .. Len(scripts)
      /\ o[1] \in 1 .. Len(others) /\ q[1] \in 1 .. Len(others)
      /\ m[2] = q[2] /\ n[2] = o[2]
      /\ scripts[m[1]].id = others[q[1]].id /\ scripts[n[1]].id = others[o[1]].id
  BY DEF Carries
<1>5. \A s \in 1 .. Len(scripts) : scripts[s].id \in Nat
  <2> SUFFICES ASSUME NEW s \in 1 .. Len(scripts) PROVE scripts[s].id \in Nat
    OBVIOUS
  <2>1. scripts[s] \in ScriptType
    BY <1>1
  <2> QED BY <2>1 DEF ScriptType
<1>6. m[1] < n[1] => scripts[m[1]].id < scripts[n[1]].id
  BY <1>1, <1>4
<1>7. o[1] < q[1] => scripts[n[1]].id < scripts[m[1]].id
  BY <1>1, <1>4
<1>8. scripts[m[1]].id \in Nat /\ scripts[n[1]].id \in Nat
  BY <1>4, <1>5
<1>9. m[2] \in Nat /\ n[2] \in Nat
  BY <1>2
<1>10. ~(m[1] < n[1] /\ o[1] < q[1])
  BY <1>6, <1>7, <1>8
<1>11. m[1] = n[1] => ~(o[1] < q[1])
  BY <1>7, <1>8
<1>12. o[1] = q[1] => ~(m[1] < n[1])
  BY <1>4, <1>6, <1>8
<1>13. m[1] = n[1] /\ m[2] <= n[2] /\ o[1] = q[1] /\ o[2] <= q[2]
  BY <1>10, <1>11, <1>12 DEF Before
<1>14. m[2] = n[2] /\ o[2] = q[2]
  BY <1>4, <1>9, <1>13
<1> QED BY <1>2, <1>3, <1>13, <1>14

LEMMA PlaceRuns ==
  ASSUME NEW sources, NEW scripts, NEW idx, IsLoaded(sources, scripts, idx),
         NEW asked \in Seq(Normals), NEW m, PlaceOf(idx, m)
  PROVE  /\ RunTo(idx, asked, m) \in Nat /\ m = <<m[1], m[2]>>
         /\ \A kind : Selection(idx, m, kind).script = scripts[m[1]].id
                      /\ Selection(idx, m, kind).kind = kind
<1>1. Indexes(scripts, idx, asked) /\ IsIndex(scripts, idx)
  BY LoadedIs DEF Indexes
<1>2. m[1] \in 1 .. Len(idx) /\ RunTo(idx, asked, m) \in Nat /\ m = <<m[1], m[2]>>
  BY <1>1, PlacesAre
<1>3. IsEntry(scripts[m[1]], idx[m[1]])
  BY <1>1, <1>2 DEF IsIndex
<1>4. idx[m[1]].id = scripts[m[1]].id
  BY <1>3 DEF IsEntry
<1> QED BY <1>2, <1>4 DEF Selection

\* By either level, the place that is chosen.
Chosen(idx, asked, m, kind) ==
  \/ kind = "conversation_prefix" /\ ByPrefix(idx, asked, m)
  \/ kind = "suffix" /\ BySuffix(idx, asked, m)

LEMMA SelectChosen ==
  ASSUME NEW sources, NEW scripts, NEW idx, IsLoaded(sources, scripts, idx),
         NEW request \in Requests
  PROVE  \/ /\ Unmatched(idx, Asked(request))
            /\ Select(idx, request).kind = "fallback"
         \/ \E m, kind : /\ Chosen(idx, Asked(request), m, kind)
                         /\ RunTo(idx, Asked(request), m) > 0
                         /\ Select(idx, request) = Selection(idx, m, kind)
<1>1. scripts \in Seq(ScriptType) /\ IsIndex(scripts, idx)
  BY LoadedIs
<1>2. ByDigest(idx, DigestOf(Key(request))).kind = "fallback"
  BY DEF ByDigest
<1> QED BY <1>1, <1>2, SelectIs DEF Chosen

\* What was chosen, and what is chosen now from a conversation that was there.
LEMMA ChosenAgain ==
  ASSUME NEW sources, NEW scripts, NEW idx, IsLoaded(sources, scripts, idx),
         NEW more, NEW others, NEW odx, IsLoaded(more, others, odx),
         NEW asked \in Seq(Normals),
         NEW m, NEW n, NEW o, NEW q, NEW kind, NEW other,
         Chosen(idx, asked, m, kind), Chosen(odx, asked, o, other),
         PlaceOf(idx, n), PlaceOf(odx, q),
         Carries(scripts, others, m, q), Carries(scripts, others, n, o),
         RunTo(odx, asked, q) = RunTo(idx, asked, m), RunTo(odx, asked, o) = RunTo(idx, asked, n)
  PROVE  m = n /\ o = q /\ kind = other
<1>1. PlaceOf(idx, m) /\ PlaceOf(odx, o)
  BY DEF Chosen, ByPrefix, BySuffix, Whole
<1>2. RunTo(idx, asked, m) \in Nat /\ RunTo(idx, asked, n) \in Nat
  BY <1>1, PlaceRuns
<1>3. m[2] = q[2] /\ n[2] = o[2]
  BY DEF Carries
<1>4. (Whole(idx, asked, m) <=> Whole(odx, asked, q))
      /\ (Whole(idx, asked, n) <=> Whole(odx, asked, o))
  BY <1>1, <1>3 DEF Whole
<1>5. Before(m, n) /\ Before(o, q) /\ kind = other
  <2>1. CASE kind = "conversation_prefix" /\ ByPrefix(idx, asked, m)
    <3>1. Whole(odx, asked, q)
      BY <1>4, <2>1 DEF ByPrefix
    <3>2. other = "conversation_prefix" /\ ByPrefix(odx, asked, o)
      BY <3>1 DEF Chosen, BySuffix
    <3>3. Whole(idx, asked, n)
      BY <1>4, <3>2 DEF ByPrefix
    <3> QED BY <2>1, <3>1, <3>2, <3>3 DEF ByPrefix
  <2>2. CASE kind = "suffix" /\ BySuffix(idx, asked, m)
    <3>1. ~Whole(odx, asked, o)
      BY <1>4, <2>2 DEF BySuffix
    <3>2. other = "suffix" /\ BySuffix(odx, asked, o)
      BY <3>1 DEF Chosen, ByPrefix
    <3>3. RunTo(idx, asked, n) <= RunTo(idx, asked, m)
          /\ (RunTo(idx, asked, n) = RunTo(idx, asked, m) => Before(m, n))
      BY <2>2 DEF BySuffix
    <3>4. RunTo(odx, asked, q) <= RunTo(odx, asked, o)
          /\ (RunTo(odx, asked, q) = RunTo(odx, asked, o) => Before(o, q))
      BY <3>2 DEF BySuffix
    <3>5. RunTo(idx, asked, n) = RunTo(idx, asked, m)
      BY <1>2, <3>3, <3>4
    <3> QED BY <2>2, <3>2, <3>3, <3>4, <3>5
  <2> QED BY <2>1, <2>2 DEF Chosen
<1>6. m = n /\ o = q
  BY <1>1, <1>5, OrderKept
<1> QED BY <1>5, <1>6

LEMMA MatchesAreKept ==
  ASSUME NEW sources, NEW scripts, NEW idx, IsLoaded(sources, scripts, idx),
         NEW more, NEW others, NEW odx, IsLoaded(more, others, odx),
         Grows(sources, more), DistinctIds(more), NEW request \in Requests,
         Select(idx, request).kind # "fallback"
  PROVE  \/ Select(odx, request) = Select(idx, request)
         \/ \A i \in 1 .. Len(sources) : sources[i].conversation # Select(odx, request).script
<1> SUFFICES ASSUME NEW i \in 1 .. Len(sources),
                    sources[i].conversation = Select(odx, request).script
             PROVE  Select(odx, request) = Select(idx, request)
  OBVIOUS
<1> DEFINE asked == Asked(request)
<1>1. asked \in Seq(Normals)
  BY AskedTyped
<1>2. \E m, kind : Chosen(idx, asked, m, kind) /\ RunTo(idx, asked, m) > 0
                   /\ Select(idx, request) = Selection(idx, m, kind)
  BY SelectChosen
<1>3. \/ Unmatched(odx, asked)
      \/ \E o, other : /\ Chosen(odx, asked, o, other) /\ RunTo(odx, asked, o) > 0
                       /\ Select(odx, request) = Selection(odx, o, other)
  BY SelectChosen
<1> HIDE DEF asked
<1>4. PICK m : \E kind : Chosen(idx, asked, m, kind) /\ RunTo(idx, asked, m) > 0
                         /\ Select(idx, request) = Selection(idx, m, kind)
  BY <1>2
<1>5. PICK kind : Chosen(idx, asked, m, kind) /\ RunTo(idx, asked, m) > 0
                  /\ Select(idx, request) = Selection(idx, m, kind)
  BY <1>4
<1>6. PlaceOf(idx, m)
  BY <1>5 DEF Chosen, ByPrefix, BySuffix, Whole
<1>7. PICK q : /\ PlaceOf(odx, q) /\ Carries(scripts, others, m, q)
               /\ RunTo(odx, asked, q) = RunTo(idx, asked, m)
  BY <1>6, PlacesCarry
<1>8. ~Unmatched(odx, asked)
  <2>1. RunTo(odx, asked, q) # 0
    BY <1>5, <1>7
  <2> QED BY <1>7, <2>1 DEF Unmatched
<1>9. PICK o : \E other : /\ Chosen(odx, asked, o, other) /\ RunTo(odx, asked, o) > 0
                          /\ Select(odx, request) = Selection(odx, o, other)
  BY <1>3, <1>8
<1>10. PICK other : /\ Chosen(odx, asked, o, other) /\ RunTo(odx, asked, o) > 0
                    /\ Select(odx, request) = Selection(odx, o, other)
  BY <1>9
<1>11. PlaceOf(odx, o)
  BY <1>10 DEF Chosen, ByPrefix, BySuffix, Whole
<1>12. others[o[1]].id = sources[i].conversation /\ o = <<o[1], o[2]>>
  BY <1>1, <1>10, <1>11, PlaceRuns
<1>13. PICK n : /\ PlaceOf(idx, n) /\ Carries(scripts, others, n, o)
                /\ RunTo(odx, asked, o) = RunTo(idx, asked, n)
  BY <1>11, <1>12, PlacesCarry
<1>14. m = n /\ o = q /\ kind = other
  BY <1>1, <1>5, <1>7, <1>10, <1>13, ChosenAgain
<1>15. IsIndex(scripts, idx) /\ IsIndex(others, odx)
  BY LoadedIs
<1>16. Selection(odx, o, kind) = Selection(idx, m, kind)
  <2>1. Carries(scripts, others, m, o)
    BY <1>7, <1>14
  <2>2. \A k : Selection(odx, o, k) = Selection(idx, m, k)
    BY <1>6, <1>12, <1>15, <2>1, CarriedPlace
  <2> QED BY <2>2
<1> QED BY <1>5, <1>10, <1>14, <1>16

\* A dataset that has grown by conversations with ids of their own answers what
\* it matched as before, or from a conversation that is new: an old one never
\* takes a request over from another.
THEOREM GrowthKeeps == Spec => GrowthKeepsMatches
<1> DEFINE KeepsMatches == Grown =>
               \A request \in Valid :
                 LET before == Select(index, request)
                     after == Select(index', request)
                 IN  before.kind /= "fallback" =>
                       \/ after = before
                       \/ \A i \in DOMAIN loaded : loaded[i].conversation /= after.script
<1>1. ASSUME LibraryTypeOK, LibraryTypeOK' PROVE KeepsMatches
  <2> SUFFICES ASSUME Grown, NEW request \in Valid, Select(index, request).kind # "fallback"
               PROVE  \/ Select(index', request) = Select(index, request)
                      \/ \A i \in DOMAIN loaded :
                           loaded[i].conversation /= Select(index', request).script
    OBVIOUS
  <2>1. PICK sources : sources = loaded
    OBVIOUS
  <2>2. PICK more : more = loaded'
    OBVIOUS
  <2>3. PICK idx : idx = index
    OBVIOUS
  <2>4. PICK odx : odx = index'
    OBVIOUS
  <2>5. IsLoaded(sources, Load(Rows(sources)), idx)
    BY <1>1, <2>1, <2>3 DEF Grown, LibraryTypeOK, IsLoaded
  <2>6. IsLoaded(more, Load(Rows(more)), odx)
    BY <1>1, <2>2, <2>4 DEF Grown, LibraryTypeOK, IsLoaded
  <2>7. IsPrefix(sources, more) /\ DistinctIds(more)
    BY <2>1, <2>2 DEF Grown
  <2>8. sources \in Seq(Source) /\ more \in Seq(Source)
    BY <2>5, <2>6 DEF IsLoaded
  <2>9. Grows(sources, more)
    BY <2>7, <2>8, PrefixHasElements DEF Grows
  <2>10. request \in Requests /\ Select(idx, request).kind # "fallback"
    BY <2>3 DEF Valid
  <2>11. \/ Select(odx, request) = Select(idx, request)
         \/ \A i \in 1 .. Len(sources) : sources[i].conversation # Select(odx, request).script
    BY <2>5, <2>6, <2>7, <2>9, <2>10, MatchesAreKept
  <2>12. DOMAIN sources = 1 .. Len(sources)
    BY <2>8
  <2> QED BY <2>1, <2>3, <2>4, <2>11, <2>12
<1>2. LibraryTypeOK /\ LibraryTypeOK' => [KeepsMatches]_vars
  BY <1>1
<1>3. [][KeepsMatches]_vars => GrowthKeepsMatches
  BY DEF GrowthKeepsMatches
<1> HIDE DEF KeepsMatches
<1> QED BY <1>2, <1>3, LibraryTypeCorrect, PTL

(***************************************************************************)
(* The limits of the chat route.                                           *)
(***************************************************************************)
LEMMA CapTyped ==
  ASSUME NEW request \in Requests
  PROVE  Cap(request) # None => Cap(request) \in Nat
<1>1. {request.max_completion_tokens, request.max_tokens, request.n} \subseteq Nat \cup {None}
  BY RequestsAssumption
<1> QED BY <1>1 DEF Cap

LEMMA TakenLength ==
  ASSUME NEW A, NEW text \in Seq(A), NEW k \in Nat, k <= Len(text)
  PROVE  SubSeq(text, 1, k) \in Seq(A) /\ Len(SubSeq(text, 1, k)) = k
<1>1. Len(text) \in Nat
  OBVIOUS
<1>2. 1 \in 1 .. Len(text) + 1 /\ k \in 1 - 1 .. Len(text) /\ k - 1 + 1 = k
  <2> DEFINE l == Len(text)
  <2> HIDE DEF l
  <2>1. l \in Nat /\ k <= l
    BY <1>1 DEF l
  <2>2. 1 \in 1 .. l + 1 /\ k \in 1 - 1 .. l /\ k - 1 + 1 = k
    BY <2>1
  <2> QED BY <2>2 DEF l
<1> QED BY <1>2, SubSeqProperties

LEMMA PlanKeepsBudget ==
  ASSUME NEW request \in Requests, NEW plan \in SemanticPlans
  PROVE  PlanBudgetIsKept(request, plan)
<1> DEFINE cap == Cap(request)
           text == plan.text
           l == Len(text)
           full == FullTrace(plan)
           over == cap /= None /\ cap < full + l
           used == IF over THEN Least(full, cap) ELSE full
           least == Least(cap - used, l)
           shown == IF over THEN SubSeq(text, 1, least) ELSE text
           given == SemanticCompletion(plan, request)
<1>1. text \in Texts /\ plan.trace \in Texts \cup {None} /\ plan.tokens \in Nat
  BY SemanticPlansAssumption
<1>2. l \in Nat
  BY <1>1 DEF Texts
<1>3. full \in Nat
  <2>1. TokensOf(plan.trace) \in Nat
    <3>1. CASE plan.trace = None
      BY <3>1 DEF TokensOf
    <3>2. CASE plan.trace # None
      <4>1. plan.trace \in Seq(Tokens)
        BY <1>1, <3>2 DEF Texts
      <4>2. Len(plan.trace) \in Nat
        BY <4>1
      <4> QED BY <3>2, <4>2 DEF TokensOf
    <3> QED BY <3>1, <3>2
  <2> QED BY <1>1, <2>1 DEF FullTrace
<1>4. cap # None => cap \in Nat
  BY CapTyped
<1>5. /\ given.tokens = shown /\ given.reasoning = used
      /\ given.finish = IF ~over /\ plan.terminal = "completed" THEN "stop" ELSE "length"
  BY DEF SemanticCompletion
<1>6. PlanBudgetIsKept(request, plan) <=>
        /\ cap # None => Len(given.tokens) + given.reasoning <= cap
        /\ given.finish = "stop" => given.tokens = text
        /\ given.tokens # <<>> => given.reasoning = full
  BY DEF PlanBudgetIsKept
<1> HIDE DEF cap, text, l, full, given
<1>7. CASE over
  <2>1. cap \in Nat /\ used \in Nat /\ used <= full /\ used <= cap /\ used \in {full, cap}
    BY <1>3, <1>4, <1>7, LeastIsLeast
  <2>2. cap - used \in Nat
    <3> HIDE DEF used
    <3> QED BY <2>1
  <2>3. least \in Nat /\ least <= cap - used /\ least <= l
    <3> HIDE DEF used
    <3> QED BY <1>2, <2>2, LeastIsLeast
  <2>4. shown = SubSeq(text, 1, least)
    BY <1>7
  <2> HIDE DEF shown, least, used, over
  <2>5. shown \in Seq(Tokens) /\ Len(shown) = least
    BY <1>1, <2>3, <2>4, TakenLength DEF Texts, l
  <2>6. Len(shown) + used <= cap
    BY <2>1, <2>3, <2>5
  <2>7. shown # <<>> => used = full
    <3> SUFFICES ASSUME used # full PROVE shown = <<>>
      OBVIOUS
    <3>1. used = cap
      BY <2>1
    <3>2. least = 0
      BY <2>1, <2>3, <3>1
    <3> QED BY <2>5, <3>2, EmptySeq
  <2> QED BY <1>5, <1>6, <1>7, <2>6, <2>7
<1>8. CASE ~over
  <2>1. used = full /\ shown = text
    BY <1>8
  <2>2. cap # None => l + full <= cap
    BY <1>2, <1>3, <1>4, <1>8
  <2> HIDE DEF used, shown, over
  <2>3. cap # None => Len(shown) + used <= cap
    BY <2>1, <2>2 DEF l
  <2> QED BY <1>5, <1>6, <2>1, <2>3
<1> QED BY <1>7, <1>8

\* Splitting a text loses its two tags, or nothing.
LEMMA SplitKeeps ==
  ASSUME NEW text \in Texts
  PROVE  LET split == SplitReasoning(text)
         IN  /\ Len(split.reasoning) \in Nat /\ Len(split.visible) \in Nat
             /\ split.reasoning # <<>> =>
                  Len(split.visible) + Len(split.reasoning) = Len(text) - 2
<1> DEFINE l == Len(text)
           closes == {i \in DOMAIN text : text[i] = ThinkClose}
           m == Min(closes)
           split == SplitReasoning(text)
           plain == text = <<>> \/ text[1] /= ThinkOpen \/ closes = {}
<1>1. text \in Seq(Tokens) /\ l \in Nat /\ DOMAIN text = 1 .. l
  BY DEF Texts
<1>2. split = IF plain THEN [reasoning |-> <<>>, visible |-> text]
              ELSE [reasoning |-> SubSeq(text, 2, m - 1), visible |-> SubSeq(text, m + 1, l)]
  BY DEF SplitReasoning
<1>3. ASSUME ~plain
      PROVE  m \in 1 .. l
  <2>1. closes \in SUBSET Nat /\ closes # {}
    BY <1>1, <1>3
  <2>2. m \in closes
    <3> HIDE DEF closes
    <3> QED BY <2>1, MinOfSome
  <2> HIDE DEF m, l
  <2> QED BY <1>1, <2>2
<1> HIDE DEF split
<1>4. CASE plain
  <2>1. split.reasoning = <<>> /\ split.visible = text
    BY <1>2, <1>4
  <2> QED BY <1>1, <2>1 DEF split
<1>5. CASE ~plain
  <2>1. split.reasoning = SubSeq(text, 2, m - 1) /\ split.visible = SubSeq(text, m + 1, l)
    BY <1>2, <1>5
  <2>2. m \in 1 .. l
    BY <1>3, <1>5
  <2> HIDE DEF m, plain, l
  <2>3. m \in Nat /\ 1 <= m /\ m <= l
    BY <1>1, <2>2
  <2>4. Len(SubSeq(text, m + 1, l)) = l - m
    <3>1. m + 1 \in 1 .. l + 1 /\ l \in (m + 1) - 1 .. l /\ l - (m + 1) + 1 = l - m
      BY <1>1, <2>3
    <3> QED BY <1>1, <3>1, SubSeqProperties DEF l
  <2>5. CASE m = 1
    <3>1. SubSeq(text, 2, m - 1) = <<>>
      BY <1>1, <2>5
    <3> QED BY <1>1, <2>1, <2>3, <2>4, <3>1 DEF split
  <2>6. CASE m # 1
    <3>1. 2 \in 1 .. l + 1 /\ m - 1 \in 2 - 1 .. l /\ (m - 1) - 2 + 1 = m - 2
      BY <1>1, <2>3, <2>6
    <3>2. Len(SubSeq(text, 2, m - 1)) = m - 2
      BY <1>1, <3>1, SubSeqProperties DEF l
    <3>3. m - 2 \in Nat /\ l - m \in Nat /\ (l - m) + (m - 2) = l - 2
      BY <1>1, <2>3, <2>6
    <3> QED BY <2>1, <2>4, <3>2, <3>3 DEF split, l
  <2> QED BY <2>5, <2>6
<1> QED BY <1>4, <1>5

\* A reply that a choice is made of.
LEMMA FirstChoiceIs ==
  ASSUME NEW reply \in ScriptTurn, NEW cap, cap # None => cap \in Nat
  PROVE  LET first == FirstChoice(reply, cap)
             size == Len(first.tokens) + Len(first.reasoning)
         IN  /\ size \in Nat
             /\ cap # None => size <= cap \/ CutWithin(reply.text, cap)
             /\ first.finish = "stop" => Len(reply.text) - size \in {0, 2}
<1> DEFINE text == reply.text
           l == Len(text)
           cuts == Cuts(text, cap)
           kept == WithinCap(text, cap)
           split == SplitReasoning(kept)
           whole == (reply.parts /\ ~cuts) \/ split.reasoning = <<>>
           first == FirstChoice(reply, cap)
           size == Len(first.tokens) + Len(first.reasoning)
<1>1. text \in Texts /\ text \in Seq(Tokens) /\ l \in Nat
  <2>1. text \in Texts
    BY DEF ScriptTurn
  <2> HIDE DEF text
  <2>2. text \in Seq(Tokens)
    BY <2>1 DEF Texts
  <2> QED BY <2>1, <2>2
<1>2. cuts <=> cap # None /\ cap < l
  BY DEF Cuts
<1>3. kept = IF cuts /\ Decodes(SubSeq(text, 1, cap)) THEN SubSeq(text, 1, cap) ELSE text
  BY DEF WithinCap
<1>4. /\ first.tokens = (IF whole THEN kept ELSE split.visible)
      /\ first.reasoning = (IF whole THEN <<>> ELSE split.reasoning)
      /\ cuts => first.finish = "length"
  BY DEF FirstChoice
<1>5. CutWithin(text, cap) <=> cuts /\ ~Decodes(SubSeq(text, 1, cap))
  BY DEF CutWithin
<1> HIDE DEF text, l, cuts, kept, first
<1>6. /\ kept \in Texts
      /\ cuts /\ Decodes(SubSeq(text, 1, cap)) => Len(kept) = cap
      /\ ~(cuts /\ Decodes(SubSeq(text, 1, cap))) => kept = text
  <2>1. CASE cuts /\ Decodes(SubSeq(text, 1, cap))
    <3>1. cap \in Nat /\ cap <= l
      BY <1>1, <1>2, <2>1
    <3>2. SubSeq(text, 1, cap) \in Seq(Tokens) /\ Len(SubSeq(text, 1, cap)) = cap
      BY <1>1, <3>1, TakenLength DEF l
    <3> QED BY <1>3, <2>1, <3>2 DEF Texts
  <2>2. CASE ~(cuts /\ Decodes(SubSeq(text, 1, cap)))
    BY <1>1, <1>3, <2>2
  <2> QED BY <2>1, <2>2
<1>7. Len(kept) \in Nat
  <2>1. kept \in Seq(Tokens)
    BY <1>6 DEF Texts
  <2> QED BY <2>1
<1>8. /\ Len(split.reasoning) \in Nat /\ Len(split.visible) \in Nat
      /\ split.reasoning # <<>> =>
           Len(split.visible) + Len(split.reasoning) = Len(kept) - 2
  BY <1>6, SplitKeeps
<1>9. size \in Nat /\ (size = Len(kept) \/ size = Len(kept) - 2)
  <2>1. CASE whole
    <3>1. first.tokens = kept /\ first.reasoning = <<>>
      BY <1>4, <2>1
    <3>2. Len(first.tokens) = Len(kept) /\ Len(first.reasoning) = 0
      BY <3>1
    <3> QED BY <1>7, <3>2
  <2>2. CASE ~whole
    <3>1. first.tokens = split.visible /\ first.reasoning = split.reasoning
          /\ split.reasoning # <<>>
      BY <1>4, <2>2
    <3>2. /\ Len(first.reasoning) \in Nat /\ Len(first.tokens) \in Nat
          /\ Len(first.tokens) + Len(first.reasoning) = Len(kept) - 2
      <4> HIDE DEF split
      <4> QED BY <1>8, <3>1
    <3>3. \A a, b \in Nat : a + b \in Nat
      OBVIOUS
    <3> HIDE DEF split, whole
    <3>4. Len(first.tokens) + Len(first.reasoning) \in Nat
      BY <3>2, <3>3, Zenon
    <3>5. size = Len(kept) - 2 /\ size \in Nat
      BY <3>2, <3>4, Zenon
    <3> QED BY <3>5
  <2> QED BY <2>1, <2>2
<1> HIDE DEF size, split
<1>10. cap # None => size <= cap \/ CutWithin(text, cap)
  <2> SUFFICES ASSUME cap # None, ~CutWithin(text, cap) PROVE size <= cap
    OBVIOUS
  <2>1. Len(kept) <= cap /\ cap \in Nat
    <3>1. CASE cuts
      BY <1>5, <1>6, <3>1
    <3>2. CASE ~cuts
      <4>1. kept = text /\ cap \in Nat /\ ~(cap < l)
        BY <1>2, <1>6, <3>2
      <4> QED BY <1>1, <4>1 DEF l
    <3> QED BY <3>1, <3>2
  <2> QED BY <1>7, <1>9, <2>1
<1>11. first.finish = "stop" => Len(text) - size \in {0, 2}
  <2> SUFFICES ASSUME first.finish = "stop" PROVE Len(text) - size \in {0, 2}
    OBVIOUS
  <2>1. ~cuts
    BY <1>4
  <2>2. kept = text
    BY <1>6, <2>1
  <2> QED BY <1>7, <1>9, <2>2
<1> QED BY <1>9, <1>10, <1>11 DEF text, size, first

\* Every reply of a loaded dataset is one of its turns.
LEMMA ReplyTyped ==
  ASSUME NEW sources, NEW scripts, NEW idx, IsLoaded(sources, scripts, idx), scripts # <<>>,
         NEW request \in Requests
  PROVE  Select(idx, request).reply \in ScriptTurn
<1>1. scripts \in Seq(ScriptType) /\ IsIndex(scripts, idx)
  BY LoadedIs
<1>2. Len(idx) \in Nat /\ Len(idx) > 0 /\ Len(idx) = Len(scripts)
      /\ \A s \in 1 .. Len(scripts) : IsEntry(scripts[s], idx[s]) /\ scripts[s] \in ScriptType
  <2>1. Len(scripts) \in Nat /\ Len(scripts) # 0
    BY <1>1, EmptySeq
  <2> QED BY <1>1, <2>1 DEF IsIndex
<1>3. ASSUME NEW m, PlaceOf(idx, m), NEW kind
      PROVE  Selection(idx, m, kind).reply \in ScriptTurn
  <2>1. PICK s \in 1 .. Len(idx) : \E k \in 1 .. Len(idx[s].users) : m = <<s, k>>
    BY <1>3 DEF PlaceOf
  <2>2. PICK k \in 1 .. Len(idx[s].users) : m = <<s, k>>
    BY <2>1
  <2>3. Selection(idx, m, kind).reply = idx[s].replies[k]
    BY <2>2 DEF Selection
  <2>4. \E j \in 1 .. Len(scripts[s].turns) : idx[s].replies[k] = scripts[s].turns[j]
    BY <1>2, <2>1, <2>2 DEF IsEntry, RepliesTo
  <2>5. scripts[s].turns \in Seq(ScriptTurn)
    BY <1>2 DEF ScriptType
  <2> QED BY <2>3, <2>4, <2>5
<1>4. ByDigest(idx, DigestOf(Key(request))).reply \in ScriptTurn
  <2> DEFINE digest == DigestOf(Key(request))
             s == (digest % Len(idx)) + 1
             half == digest \div High
             a == idx[s].assistants
             r == (half % Len(a)) + 1
  <2>1. digest \in Nat
    BY RequestsAssumption
  <2>2. s \in 1 .. Len(idx)
    <3> HIDE DEF digest
    <3> QED BY <1>2, <2>1
  <2>3. half \in Nat
    <3> HIDE DEF digest
    <3> QED BY <2>1, HighAssumption
  <2>4. ByDigest(idx, digest).reply = a[r]
    BY DEF ByDigest
  <2> HIDE DEF digest, s, half
  <2>5. a \in Seq(ScriptTurn) /\ Len(a) > 0
    BY <1>2, <2>2 DEF IsEntry
  <2> HIDE DEF a
  <2>6. r \in 1 .. Len(a)
    <3>1. Len(a) \in Nat
      BY <2>5
    <3> QED BY <2>3, <2>5, <3>1
  <2> HIDE DEF r
  <2>7. a[r] \in ScriptTurn
    BY <2>5, <2>6
  <2> QED BY <2>4, <2>7 DEF digest
<1>5. \/ Select(idx, request) = ByDigest(idx, DigestOf(Key(request)))
      \/ \E m, kind : PlaceOf(idx, m) /\ Select(idx, request) = Selection(idx, m, kind)
  <2>1. \A asked, m : ByPrefix(idx, asked, m) \/ BySuffix(idx, asked, m) => PlaceOf(idx, m)
    BY DEF ByPrefix, BySuffix, Whole
  <2> QED BY <1>1, <2>1, SelectIs
<1> QED BY <1>3, <1>4, <1>5

\* The choices of a completion begin with the first, and are no more than it
\* when nothing is put behind it.
LEMMA ChoicesBegin ==
  ASSUME NEW first, NEW n \in Nat, NEW f, f = [i \in 1 .. n |-> f[i]]
  PROVE  /\ (<<first>> \o f)[1] = first
         /\ n = 0 => Tail(<<first>> \o f) = <<>>
<1> DEFINE S == {first} \cup {f[i] : i \in 1 .. n}
<1>1. f \in Seq(S) /\ Len(f) = n /\ <<first>> \in Seq(S)
  <2>1. first \in S /\ \A i \in 1 .. n : f[i] \in S
    OBVIOUS
  <2> HIDE DEF S
  <2>2. f \in [1 .. n -> S]
    BY <2>1
  <2> QED BY <2>1, <2>2
<1> HIDE DEF S
<1>2. (<<first>> \o f)[1] = first
  BY <1>1
<1>3. n = 0 => Tail(<<first>> \o f) = <<>>
  <2> SUFFICES ASSUME n = 0 PROVE Tail(<<first>> \o f) = <<>>
    OBVIOUS
  <2>1. f = <<>>
    BY <1>1, EmptySeq
  <2>2. <<first>> \o f = <<first>>
    BY <1>1, <2>1
  <2> QED BY <2>2
<1> QED BY <1>2, <1>3

LEMMA ScriptKeepsBudget ==
  ASSUME LibraryTypeOK, loaded # None, NEW request \in Requests
  PROVE  ScriptBudgetIsKept(request)
<1> DEFINE cap == Cap(request)
           count == ChoiceCount(request)
           selection == Select(index, request)
           reply == selection.reply
           chosen == FirstChoice(reply, cap)
           plan == [key |-> Key(request), script |-> selection.script, text |-> reply.text,
                    length |-> Len(WithinCap(reply.text, cap))]
           rest == [i \in 1 .. count - 1 |-> FurtherChoice(Alternative(index, plan, i))]
           choices == <<chosen>> \o rest
           given == ScriptCompletion(index, request)
           first == given.choices[1]
           size == Len(first.tokens) + Len(first.reasoning)
<1>1. reply \in ScriptTurn
  BY LoadedNow, ReplyTyped
<1>2. cap # None => cap \in Nat
  BY CapTyped
<1>3. count \in Nat
  <2>1. {request.max_completion_tokens, request.max_tokens, request.n} \subseteq Nat \cup {None}
    BY RequestsAssumption
  <2> QED BY <2>1 DEF ChoiceCount
<1>4. /\ given.choices = choices /\ given.reply = reply
      /\ given.completion = CompletionUsage(reply, choices, cap)
  BY DEF ScriptCompletion
<1>5. /\ choices[1] = chosen
      /\ count = 1 => Tail(choices) = <<>>
  <2> DEFINE n == IF count = 0 THEN 0 ELSE count - 1
  <2>1. n \in Nat /\ 1 .. count - 1 = 1 .. n /\ (count = 1 => n = 0)
    <3> HIDE DEF count
    <3> QED BY <1>3
  <2> HIDE DEF n
  <2>2. rest = [i \in 1 .. n |-> rest[i]]
    BY <2>1
  <2> HIDE DEF rest, chosen
  <2> QED BY <2>1, <2>2, ChoicesBegin
<1>6. ScriptBudgetIsKept(request) <=>
        /\ cap # None => size <= cap \/ CutWithin(given.reply.text, cap)
        /\ first.finish = "stop" => Len(given.reply.text) - size \in {0, 2}
        /\ /\ count = 1
           /\ \/ given.reply.usage = None \/ Cuts(given.reply.text, cap)
              \/ first.reasoning # <<>>
           => given.completion = size
  BY DEF ScriptBudgetIsKept
<1> HIDE DEF count, reply, given, choices, cap
<1>7. first = chosen
  BY <1>4, <1>5
<1>8. /\ size \in Nat
      /\ cap # None => size <= cap \/ CutWithin(reply.text, cap)
      /\ first.finish = "stop" => Len(reply.text) - size \in {0, 2}
  <2>1. LET c == FirstChoice(reply, cap)
            s == Len(c.tokens) + Len(c.reasoning)
        IN  /\ s \in Nat
            /\ cap # None => s <= cap \/ CutWithin(reply.text, cap)
            /\ c.finish = "stop" => Len(reply.text) - s \in {0, 2}
    BY <1>1, <1>2, FirstChoiceIs
  <2> HIDE DEF first
  <2>2. first = FirstChoice(reply, cap)
    BY <1>7
  <2> QED BY <2>1, <2>2, Zenon
<1>9. ASSUME count = 1,
             reply.usage = None \/ Cuts(reply.text, cap) \/ first.reasoning # <<>>
      PROVE  given.completion = size
  <2>1. choices[1] = first /\ Tail(choices) = <<>>
    BY <1>5, <1>7, <1>9
  <2> HIDE DEF first
  <2>2. [i \in DOMAIN Tail(choices) |-> Len(Tail(choices)[i].tokens)] = <<>>
    BY <2>1
  <2>3. CompletionUsage(reply, choices, cap) = size + SumOf(<<>>)
    BY <1>9, <2>1, <2>2 DEF CompletionUsage
  <2>4. size + 0 = size
    <3> HIDE DEF size
    <3> QED BY <1>8
  <2> QED BY <1>4, <2>3, <2>4, SumOfNothing
<1> QED BY <1>4, <1>6, <1>8, <1>9

\* A chat answer keeps its limit on tokens, reasoning first: of a script unless
\* the limit falls within a character, of a plan always; one that stopped by
\* itself is whole, and usage counts what is on the wire.
THEOREM ChatBudgetHolds == Spec => []ChatBudgetIsKept
<1>1. LibraryTypeOK => ChatBudgetIsKept
  <2> SUFFICES ASSUME LibraryTypeOK, NEW request \in Valid
               PROVE  /\ loaded /= None => ScriptBudgetIsKept(request)
                      /\ \A plan \in SemanticPlans : PlanBudgetIsKept(request, plan)
    BY DEF ChatBudgetIsKept
  <2>1. request \in Requests
    BY DEF Valid
  <2> QED BY <2>1, ScriptKeepsBudget, PlanKeepsBudget
<1> QED BY <1>1, LibraryTypeCorrect, PTL
================================================================================
