--------------------------- MODULE ResponsesStream ---------------------------
(***************************************************************************)
(* Streamed responses: the generator responses_sse_stream of               *)
(* src/sim/responses_stream.rs and the part of create_response that opens  *)
(* it once the response is rendered (src/http/routes.rs).                  *)
(*                                                                         *)
(* The generator is the chat one (ChatStream) with its own rules for where *)
(* a fault strikes and how a stream ends: the terminal event is part of    *)
(* the schedule, there is no [DONE], and an error event takes the sequence *)
(* number of the event in whose place it is sent.                          *)
(***************************************************************************)
EXTENDS Naturals, FiniteSets, Sequences, SequencesExt, ResponseEvents

CONSTANTS
  Streams,
  Plans,   \* the responses that may be asked for, as scheduled for streaming
  None

Kinds == {"none", "stall", "drop", "sse_error", "http_error", "slow_then_recover"}
Stages == {"reasoning", "output", "tool", "terminal"}

\* A plan: the output and its schedule, whether there is a delay before the
\* first event, how many events burst without a gap, and the fault, its rate
\* reduced to whether it may, must or cannot fire.
ASSUME PlanAssumption ==
  \A p \in Plans :
    /\ p.output \in Seq(OutputItems) /\ p.events = ResponseSchedule(p.output)
    /\ p.burst \in Nat /\ p.ttft \in BOOLEAN
    /\ p.fault.kind \in Kinds /\ p.fault.stage \in Stages \cup {None}
    /\ p.fault.after_frames \in Nat \cup {None}
    /\ p.fault.rate \in {"never", "maybe", "always"}

ASSUME NoneAssumption == None \notin Plans /\ None \notin BOOLEAN /\ None \notin Nat

VARIABLES
  pc,      \* [Streams -> where the generator is suspended, or how it ended]
  plan,    \* [Streams -> Plans, or None]
  fires,   \* [Streams -> BOOLEAN once the generator has started, or None]
  out,     \* [Streams -> the events yielded]
  metrics  \* counters: streams, streams cancelled, faults injected

vars == <<pc, plan, fires, out, metrics>>

-----------------------------------------------------------------------------
AfterFrames(fault, default) ==
  IF fault.after_frames = None THEN default ELSE fault.after_frames

\* The events at a stage, by their zero-based index.
AtStage(p, stage) == {i \in 0 .. Len(p.events) - 1 : EventStage(p.events[i + 1]) = stage}

\* Mutant: the terminal stage is taken, as for chat, to be after the events.
FaultTriggerAfterEvents(p) ==
  IF p.fault.stage = "terminal" THEN Len(p.events) ELSE AfterFrames(p.fault, 2)

\* The fault strikes before the event with this index; None stands for an
\* index that is never reached.
FaultTrigger(p) ==
  IF p.fault.stage = None THEN AfterFrames(p.fault, 2)
  ELSE LET stage == AtStage(p, p.fault.stage)
           nth == {i \in stage :
                     Cardinality({j \in stage : j < i}) = AfterFrames(p.fault, 0)}
       IN IF nth = {} THEN None ELSE CHOOSE i \in nth : TRUE

Outcomes(fault) ==
  CASE fault.kind = "none" \/ fault.rate = "never" -> {FALSE}
    [] fault.kind # "none" /\ fault.rate = "always" -> {TRUE}
    [] OTHER -> BOOLEAN

ErrorEvent(index) ==
  [Event("error", "response", 0, 0, 0) EXCEPT !.sequence_number = index]

-----------------------------------------------------------------------------
Init ==
  /\ pc = [s \in Streams |-> "new"]
  /\ plan = [s \in Streams |-> None]
  /\ fires = [s \in Streams |-> None]
  /\ out = [s \in Streams |-> <<>>]
  /\ metrics = [streams |-> 0, cancelled |-> 0, faults |-> 0]

Suspend(s, where) ==
  /\ pc' = [pc EXCEPT ![s] = where]
  /\ UNCHANGED out

Yield(s, event, where) ==
  /\ pc' = [pc EXCEPT ![s] = where]
  /\ out' = [out EXCEPT ![s] = Append(@, event)]

Finish(s) ==
  /\ pc' = [pc EXCEPT ![s] = "ended"]
  /\ UNCHANGED out

NextEvent(s) == plan[s].events[Len(out[s]) + 1]

\* Every event but the first waits for a gap once the burst is over.
Pace(s) ==
  LET paced == 0 < Len(out[s]) /\ plan[s].burst <= Len(out[s])
  IN \/ paced /\ Suspend(s, "gap")
     \/ ~paced /\ Yield(s, NextEvent(s), "yield")

\* The head of an iteration.
Iterate(s, fire) ==
  LET strikes == fire /\ FaultTrigger(plan[s]) = Len(out[s])
      kind == plan[s].fault.kind
  IN \/ strikes /\ kind = "drop" /\ Finish(s)
     \/ strikes /\ kind = "sse_error" /\ Yield(s, ErrorEvent(Len(out[s])), "error")
     \/ strikes /\ kind = "stall" /\ Suspend(s, "stall")
     \/ ~(strikes /\ kind \in {"drop", "sse_error", "stall"}) /\ Pace(s)

-----------------------------------------------------------------------------
\* An http_error that fires is answered before anything is counted.
HttpError(s) ==
  /\ pc[s] = "new"
  /\ \E p \in Plans :
       /\ p.fault.kind = "http_error" /\ TRUE \in Outcomes(p.fault)
       /\ plan' = [plan EXCEPT ![s] = p]
  /\ pc' = [pc EXCEPT ![s] = "refused"]
  /\ metrics' = [metrics EXCEPT !.faults = @ + 1]
  /\ UNCHANGED <<fires, out>>

\* The completion is counted, and then the response committed: what follows is
\* a stream, or a conflict (create_response, modelled by CreateResponse).
Count(s) ==
  /\ pc[s] = "new"
  /\ \E p \in Plans :
       /\ ~(p.fault.kind = "http_error" /\ Outcomes(p.fault) = {TRUE})
       /\ plan' = [plan EXCEPT ![s] = p]
  /\ metrics' = [metrics EXCEPT !.streams = @ + 1]
  /\ UNCHANGED <<fires, out>>

OpenStream(s) == Count(s) /\ pc' = [pc EXCEPT ![s] = "created"]
Conflict(s) == Count(s) /\ pc' = [pc EXCEPT ![s] = "refused"]

\* The first poll creates the guard and decides whether the fault fires.
Start(s) ==
  /\ pc[s] = "created"
  /\ \E fire \in Outcomes(plan[s].fault) :
       /\ fires' = [fires EXCEPT ![s] = fire]
       /\ IF plan[s].ttft THEN Suspend(s, "ttft") ELSE Iterate(s, fire)
  /\ UNCHANGED <<plan, metrics>>

\* Mutant: a stall comes back to the head of its iteration.
WakeAtHead(s) ==
  /\ \/ pc[s] \in {"ttft", "stall"} /\ Iterate(s, fires[s])
     \/ pc[s] = "gap" /\ Yield(s, NextEvent(s), "yield")
  /\ UNCHANGED <<plan, fires, metrics>>

\* A sleep is over.
Wake(s) ==
  /\ \/ pc[s] = "ttft" /\ Iterate(s, fires[s])
     \/ pc[s] = "stall" /\ Pace(s)
     \/ pc[s] = "gap" /\ Yield(s, NextEvent(s), "yield")
  /\ UNCHANGED <<plan, fires, metrics>>

\* Mutant: an error does not end the stream.
ResumeAfterError(s) ==
  /\ \/ pc[s] \in {"yield", "error"} /\ Len(out[s]) < Len(plan[s].events) /\ Iterate(s, fires[s])
     \/ pc[s] = "yield" /\ Len(out[s]) = Len(plan[s].events) /\ Finish(s)
  /\ UNCHANGED <<plan, fires, metrics>>

\* The client took the event yielded last and polls for more.
Resume(s) ==
  /\ \/ pc[s] = "yield" /\ Len(out[s]) < Len(plan[s].events) /\ Iterate(s, fires[s])
     \/ pc[s] = "yield" /\ Len(out[s]) = Len(plan[s].events) /\ Finish(s)
     \/ pc[s] = "error" /\ Finish(s)
  /\ UNCHANGED <<plan, fires, metrics>>

Started == {"ttft", "stall", "gap", "yield", "error"}

\* The client goes away.  Only a generator that has started has a guard.
Drop(s) ==
  /\ pc[s] \in Started \cup {"created"}
  /\ pc' = [pc EXCEPT ![s] = "dropped"]
  /\ metrics' = IF pc[s] \in Started THEN [metrics EXCEPT !.cancelled = @ + 1]
                                     ELSE metrics
  /\ UNCHANGED <<plan, fires, out>>

Poll(s) == Start(s) \/ Wake(s) \/ Resume(s)

Next ==
  \E s \in Streams :
    HttpError(s) \/ OpenStream(s) \/ Conflict(s) \/ Poll(s) \/ Drop(s)

Spec == Init /\ [][Next]_vars

\* A sleep ends, and the server polls on for as long as the client is there.
FairSpec == Spec /\ \A s \in Streams : WF_vars(Poll(s))

-----------------------------------------------------------------------------
\* Properties.

\* A stream is at a suspension or over, has a plan once it was asked for, and
\* has drawn whether its fault fires once its generator runs.
TypeOK ==
  /\ pc \in [Streams -> {"new", "refused", "created", "ended", "dropped"} \cup Started]
  /\ plan \in [Streams -> Plans \cup {None}]
  /\ fires \in [Streams -> BOOLEAN \cup {None}]
  /\ out \in [Streams -> Seq(Events)]
  /\ metrics \in [streams : Nat, cancelled : Nat, faults : Nat]
  /\ \A s \in Streams :
       /\ (plan[s] = None) = (pc[s] = "new")
       /\ pc[s] \in Started \cup {"ended"} => fires[s] \in BOOLEAN
       /\ pc[s] \in {"new", "refused", "created"} => fires[s] = None

Told(o, type) == {k \in DOMAIN o : o[k].type = type}
Sent(s, type) == Told(out[s], type)

\* Before the k-th event of o: the events of a type about the same part, and
\* whether an item was added, and done.
Earlier(o, k, type) ==
  {j \in 1 .. k - 1 : o[j].type = type /\ o[j].item = o[k].item /\ o[j].part = o[k].part}
Added(o, k, i) == \E j \in 1 .. k - 1 : o[j].type = "item.added" /\ o[j].item = i
Done(o, k, i) == \E j \in 1 .. k - 1 : o[j].type = "item.done" /\ o[j].item = i

\* The k-th event of o finds its item, and its part, in the state it is for.
NestsAt(o, k) ==
  LET e == o[k]
  IN /\ e.sequence_number = k - 1
     /\ e.type = "item.added" => /\ ~Added(o, k, e.item)
                                 /\ \A i \in 1 .. e.item - 1 : Done(o, k, i)
     /\ e.item > 0 /\ e.type # "item.added" =>
          Added(o, k, e.item) /\ ~Done(o, k, e.item)
     /\ e.type = "part.added" => Earlier(o, k, "part.added") = {}
     /\ e.type \in {"delta", "text.done"} =>
          Earlier(o, k, "part.added") # {} /\ Earlier(o, k, "text.done") = {}
     /\ e.type = "delta" => Cardinality(Earlier(o, k, "delta")) = e.delta - 1
     /\ e.type = "text.done" => Cardinality(Earlier(o, k, "delta")) = e.delta
     /\ e.type = "part.done" =>
          Earlier(o, k, "text.done") # {} /\ Earlier(o, k, "part.done") = {}
     /\ e.type = "item.done" =>
          \A j \in Told(o, "part.added") : o[j].item = e.item =>
            \E d \in Told(o, "part.done") :
              d < k /\ o[d].item = e.item /\ o[d].part = o[j].part
     /\ e.type = "terminal" => \A i \in {o[j].item : j \in DOMAIN o} \ {0} : Done(o, k, i)

\* The event state machine of the scope document, on all a client has received
\* so far: an item is added and done once and one at a time, in the order of
\* the output, and so are the parts within it; deltas come in order within
\* their part and before its text is done, which has all of them.  Every event
\* carries its place as its number, the error of a fault included.
EventsNest == \A s \in Streams : \A k \in DOMAIN out[s] : NestsAt(out[s], k)

\* A drop or sse_error fault has acted, after this many events.
Struck(s) ==
  \/ Sent(s, "error") # {}
  \/ pc[s] = "ended" /\ Sent(s, "terminal") = {}
EventsBefore(s) == Len(out[s]) - Cardinality(Sent(s, "error"))

\* A fault strikes where it is addressed, and one that fires misses only when
\* the schedule has no such place.
FaultsStrikeTheirStage ==
  \A s \in Streams : plan[s] # None =>
    LET p == plan[s]
        stage == p.fault.stage
        places == IF stage = None THEN 0 .. Len(p.events) - 1 ELSE AtStage(p, stage)
        skip == AfterFrames(p.fault, IF stage = None THEN 2 ELSE 0)
    IN /\ Struck(s) =>
            /\ EventsBefore(s) \in places
            /\ Cardinality({i \in places : i < EventsBefore(s)}) = skip
       /\ /\ pc[s] \in Started /\ fires[s]
          /\ p.fault.kind \in {"drop", "sse_error"}
          /\ Sent(s, "terminal") # {}
          => Cardinality(places) <= skip

\* A client that stays gets to the end of its stream, whatever the fault.
EveryStreamEnds ==
  \A s \in Streams : pc[s] = "created" ~> pc[s] \in {"ended", "dropped"}

\* The generator implements an event stream.  The terminal event is the last
\* of the body, which a fault may replace.
ScriptOf(p) ==
  [whole |-> p.events, body |-> Len(p.events) - 1,
   failure |-> [n \in 0 .. Len(p.events) - 1 |-> <<ErrorEvent(n)>>]]

Status(s) ==
  CASE pc[s] \in Started \cup {"created"} -> "open"
    [] pc[s] = "ended" -> IF Sent(s, "error") # {} THEN "failed"
                          ELSE IF Sent(s, "terminal") # {} THEN "complete" ELSE "cut"
    [] OTHER -> pc[s]

AbstractStream == INSTANCE EventStream
  WITH Scripts <- {ScriptOf(p) : p \in Plans}, NoScript <- None,
       script <- [s \in Streams |-> IF plan[s] = None THEN None ELSE ScriptOf(plan[s])],
       sent <- out, status <- [s \in Streams |-> Status(s)]

\* Clients get the schedule from its start, each event once and in order, and
\* an error in the place of an event (responses_sse_stream).
ImplementsEventStream == AbstractStream!Spec

=============================================================================
