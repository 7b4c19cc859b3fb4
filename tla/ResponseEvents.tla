---------------------------- MODULE ResponseEvents ----------------------------
(***************************************************************************)
(* The events of a streamed response (src/sim/responses_stream.rs): the    *)
(* complete schedule, built before the stream starts.                      *)
(*                                                                         *)
(* An output item is abstracted to its kind and the number of deltas that  *)
(* each of its parts (summaries, or contents) is told in:                  *)
(*   [kind : {"reasoning", "message"}, parts : Seq(Nat)]                   *)
(***************************************************************************)
EXTENDS Naturals, Sequences, SequencesExt

OutputItems == [kind : {"reasoning", "message"}, parts : Seq(Nat)]

EventTypes == {"created", "in_progress", "item.added", "part.added", "delta",
               "text.done", "part.done", "item.done", "terminal", "error"}
Events == [type : EventTypes, kind : {"response", "reasoning", "message"},
           item : Nat, part : Nat, delta : Nat, sequence_number : Nat]

Event(type, kind, item, part, delta) ==
  [type |-> type, kind |-> kind, item |-> item, part |-> part, delta |-> delta,
   sequence_number |-> 0]

\* A summary part or a content part.
PartEvents(kind, item, part, deltas) ==
  <<Event("part.added", kind, item, part, 0)>>
    \o [d \in 1 .. deltas |-> Event("delta", kind, item, part, d)]
    \o <<Event("text.done", kind, item, part, deltas),
         Event("part.done", kind, item, part, 0)>>

\* Mutant: the item is done before its parts.
ItemDoneEarly(output, item) ==
  LET parts == output[item].parts
      kind == output[item].kind
  IN <<Event("item.added", kind, item, 0, 0), Event("item.done", kind, item, 0, 0)>>
       \o FlattenSeq([part \in DOMAIN parts |->
                        PartEvents(kind, item, part, parts[part])])

ItemEvents(output, item) ==
  LET parts == output[item].parts
      kind == output[item].kind
  IN <<Event("item.added", kind, item, 0, 0)>>
       \o FlattenSeq([part \in DOMAIN parts |->
                        PartEvents(kind, item, part, parts[part])])
       \o <<Event("item.done", kind, item, 0, 0)>>

\* push_with_stage numbers an event by its position.
Numbered(events) ==
  [k \in DOMAIN events |-> [events[k] EXCEPT !.sequence_number = k - 1]]

ResponseSchedule(output) ==
  Numbered(<<Event("created", "response", 0, 0, 0),
             Event("in_progress", "response", 0, 0, 0)>>
             \o FlattenSeq([item \in DOMAIN output |-> ItemEvents(output, item)])
             \o <<Event("terminal", "response", 0, 0, 0)>>)

EventStage(event) ==
  CASE event.type = "delta" /\ event.kind = "reasoning" -> "reasoning"
    [] event.type = "delta" /\ event.kind = "message"   -> "output"
    [] event.type = "terminal"                          -> "terminal"
    [] OTHER                                            -> "none"

=============================================================================
