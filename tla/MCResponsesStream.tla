-------------------------- MODULE MCResponsesStream --------------------------
(***************************************************************************)
(* ResponsesStream on small instances.                                     *)
(***************************************************************************)
EXTENDS ResponsesStream

CONSTANT s1

Fault(kind, stage, after, rate) ==
  [kind |-> kind, stage |-> stage, after_frames |-> after, rate |-> rate]

PlanOf(output, ttft, fault) ==
  [output |-> output, events |-> ResponseSchedule(output), ttft |-> ttft,
   burst |-> 3, fault |-> fault]

Reasoning == [kind |-> "reasoning", parts |-> <<2>>]
Answer == [kind |-> "message", parts |-> <<1, 2>>]
Silent == [kind |-> "message", parts |-> <<0>>]

\* Every kind of fault at every address, within the schedule and beyond it.
FaultPlans ==
  {PlanOf(output, TRUE, Fault(kind, stage, after, "maybe")) :
     output \in {<<Reasoning, Answer>>, <<Silent>>},
     kind \in {"drop", "sse_error", "stall", "slow_then_recover"},
     stage \in Stages \cup {None}, after \in {None, 0, 1, 7, 30}}
  \cup {PlanOf(<<>>, FALSE, Fault("http_error", None, None, rate)) :
          rate \in {"never", "maybe", "always"}}

=============================================================================
