----------------------------- MODULE MCChatStream -----------------------------
(***************************************************************************)
(* ChatStream on small instances.                                          *)
(***************************************************************************)
EXTENDS ChatStream

CONSTANT s1

Message(reasoning, content, refusal, calls, functionCall) ==
  [reasoning |-> reasoning, content |-> content, refusal |-> refusal,
   calls |-> calls, functionCall |-> functionCall]

Fault(kind, stage, after, rate) ==
  [kind |-> kind, stage |-> stage, after_frames |-> after, rate |-> rate]

NoFault == Fault("none", None, None, "never")

\* One token set per choice, as fixtures give.
PlanOf(messages, fault) ==
  [messages |-> messages, tokenSets |-> Len(messages),
   frames |-> StreamFrames(messages, Len(messages)), choices |-> Len(messages),
   usage |-> TRUE, ttft |-> TRUE, burst |-> 2, fault |-> fault]

Thinker == Message(2, 2, 0, <<>>, FALSE)
Caller == Message(0, 1, 0, <<2, 1>>, FALSE)
Short == Message(0, 1, 0, <<>>, FALSE)

\* Every kind of fault at every address, within the stream and beyond it.
FaultPlans ==
  {PlanOf(<<m>>, Fault(kind, stage, after, "maybe")) :
     m \in {Thinker, Caller},
     kind \in {"drop", "sse_error", "stall", "slow_then_recover"},
     stage \in Stages \cup {None}, after \in {None, 0, 1, 5, 6}}
  \cup {PlanOf(<<Short, Short>>, Fault(kind, "terminal", None, "always")) :
          kind \in {"drop", "sse_error", "stall"}}
  \cup {PlanOf(<<Short>>, Fault("http_error", None, None, rate)) :
          rate \in {"never", "maybe", "always"}}

\* Several choices of different lengths.
Messages ==
  {Message(reasoning, content, refusal, calls, functionCall) :
     reasoning \in {0, 2}, content \in {0, 1}, refusal \in {0, 1},
     calls \in {<<>>, <<1>>, <<2, 0, 1>>}, functionCall \in BOOLEAN}
ChoicePlans ==
  {PlanOf(<<m, n, Short>>, NoFault) : m \in {Thinker, Caller}, n \in Messages}

\* An upstream's two choices: only the first has a token set.
LivePlans ==
  {[PlanOf(<<m, m>>, NoFault) EXCEPT !.tokenSets = 1,
                                     !.frames = StreamFrames(<<m, m>>, 1)] :
     m \in {Thinker, Caller, Short}}

\* Without a delay before the first frame and without usage after the last.
BarePlans ==
  {[PlanOf(<<Short>>, fault) EXCEPT !.ttft = FALSE, !.usage = FALSE] :
     fault \in {NoFault, Fault("drop", "output", None, "always"),
                Fault("sse_error", None, 0, "maybe")}}

AnyPlans == FaultPlans \cup ChoicePlans \cup LivePlans \cup BarePlans

=============================================================================
