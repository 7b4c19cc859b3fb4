------------------------------ MODULE ChatFrames ------------------------------
(***************************************************************************)
(* The frames of a streamed chat completion (src/sim/stream.rs), resolved  *)
(* before the stream starts: one sequence of deltas per choice, round-     *)
(* robined.                                                                *)
(*                                                                         *)
(* A choice is abstracted to the pieces its members split into; calls      *)
(* gives the argument fragments of each tool call.  A frame tells which    *)
(* piece of which member of which choice it carries.                       *)
(***************************************************************************)
EXTENDS Naturals, Sequences, SequencesExt

\* What a choice has to tell.
ChoicesToTell == [reasoning : Nat, content : Nat, refusal : Nat, calls : Seq(Nat),
                  functionCall : BOOLEAN]

\* What a frame of the main loop carries, and what comes after the loop.
DeltaKinds == {"role", "reasoning", "content", "refusal", "call", "arguments",
               "function_call"}
ClosingKinds == {"finish", "usage", "done", "error"}

Frames(kinds) == [choice : Nat, kind : kinds, call : Nat, part : Nat]

Frame(choice, kind, call, part) ==
  [choice |-> choice, kind |-> kind, call |-> call, part |-> part]

\* Rows taken in turn, one element of each that has one per round: pairs of a
\* row and a position in it.
RoundRobin(rows) ==
  LET rounds == Max({0} \cup {Len(rows[row]) : row \in DOMAIN rows})
      turn(row, round) ==
        IF round <= Len(rows[row]) THEN << <<row, round>> >> ELSE <<>>
  IN FlattenSeq([round \in 1 .. rounds |->
       FlattenSeq([row \in DOMAIN rows |-> turn(row, round)])])

Pieces(choice, kind, count) ==
  [part \in 1 .. count |-> Frame(choice, kind, 0, part)]

\* Mutant: calls are opened after their arguments.
OpenCallsLate(choice, calls) ==
  LET fragments == [call \in DOMAIN calls |-> Pieces(choice, "arguments", calls[call])]
      turns == RoundRobin(fragments)
  IN [k \in DOMAIN turns |-> Frame(choice, "arguments", turns[k][1], turns[k][2])]
       \o [call \in DOMAIN calls |-> Frame(choice, "call", call, 0)]

\* Every call is opened before any argument, then arguments interleave.
ToolCallFrames(choice, calls) ==
  LET fragments == [call \in DOMAIN calls |-> Pieces(choice, "arguments", calls[call])]
      turns == RoundRobin(fragments)
  IN [call \in DOMAIN calls |-> Frame(choice, "call", call, 0)]
       \o [k \in DOMAIN turns |->
             Frame(choice, "arguments", turns[k][1], turns[k][2])]

BuildFrames(choice, message) ==
  <<Frame(choice, "role", 0, 0)>>
    \o Pieces(choice, "reasoning", message.reasoning)
    \o Pieces(choice, "content", message.content)
    \o Pieces(choice, "refusal", message.refusal)
    \o ToolCallFrames(choice, message.calls)
    \o IF message.functionCall
       THEN <<Frame(choice, "function_call", 0, 0)>>
       ELSE <<>>

\* Mutant: one choice after the other.
ConcatenateChoices(perChoice) == FlattenSeq(perChoice)

InterleaveChoices(perChoice) ==
  LET turns == RoundRobin(perChoice)
  IN [k \in DOMAIN turns |-> perChoice[turns[k][1]][turns[k][2]]]

\* token_sets has one entry per choice, except for an upstream's completion,
\* which has one for the first choice only.
StreamFrames(messages, tokenSets) ==
  InterleaveChoices([choice \in 1 .. tokenSets |-> BuildFrames(choice, messages[choice])])

\* The stage a fault may address a frame by.
DeltaStage(frame) ==
  CASE frame.kind = "reasoning" -> "reasoning"
    [] frame.kind \in {"content", "refusal", "call", "arguments", "function_call"}
         -> "output"
    [] OTHER -> "none"

=============================================================================
