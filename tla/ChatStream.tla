------------------------------ MODULE ChatStream ------------------------------
(***************************************************************************)
(* Streamed chat completions: the generator sse_stream of                  *)
(* src/sim/stream.rs, the tail of create_chat_completion that opens it     *)
(* (src/http/routes.rs), and the counters streams share.                   *)
(*                                                                         *)
(* A generator runs only when its client polls, from one suspension to the *)
(* next: the first poll, a sleep, or a yielded frame.  pc names the        *)
(* suspension a stream is at, and a client may drop it at any of them.     *)
(* The next frame of the main loop is told by how many were sent.          *)
(* Serialising a frame never fails, so the fallback frame of encode is     *)
(* left out, and so is the length of a sleep.                              *)
(***************************************************************************)
EXTENDS Naturals, FiniteSets, Sequences, SequencesExt, ChatFrames

CONSTANTS
  Streams,
  Plans,   \* the completions that may be asked for, as resolved for streaming
  None

Kinds == {"none", "stall", "drop", "sse_error", "http_error", "slow_then_recover"}
Stages == {"reasoning", "output", "tool", "terminal"}

\* A plan: the choices to tell and how many of them have a token set, the
\* frames of the main loop, the number of choices that get a finish frame,
\* whether usage was asked for, whether there is a delay before the first
\* frame, how many frames burst without a gap, and the fault.  The rate of a
\* fault is reduced to whether it may, must or cannot fire.
ASSUME PlanAssumption ==
  \A p \in Plans :
    /\ p.frames \in Seq(Frames(DeltaKinds))
    /\ p.choices \in Nat /\ p.burst \in Nat
    /\ {p.usage, p.ttft} \subseteq BOOLEAN
    /\ p.fault.kind \in Kinds /\ p.fault.stage \in Stages \cup {None}
    /\ p.fault.after_frames \in Nat \cup {None}
    /\ p.fault.rate \in {"never", "maybe", "always"}

\* The main loop is resolved from the choices.
ASSUME FramesAssumption ==
  \A p \in Plans :
    /\ p.messages \in Seq(ChoicesToTell) /\ p.tokenSets \in 0 .. Len(p.messages)
    /\ p.frames = StreamFrames(p.messages, p.tokenSets)

ASSUME StreamsAssumption ==
  /\ IsFiniteSet(Streams)
  /\ None \notin Plans /\ None \notin BOOLEAN /\ None \notin Nat

VARIABLES
  pc,      \* [Streams -> where the generator is suspended, or how it ended]
  plan,    \* [Streams -> Plans, or None]
  fires,   \* [Streams -> BOOLEAN once the generator has started, or None]
  out,     \* [Streams -> the frames yielded]
  metrics  \* counters: streams opened, streams cancelled, faults injected

vars == <<pc, plan, fires, out, metrics>>

-----------------------------------------------------------------------------
\* What a stream sends after its main loop.
Closing(p) ==
  [choice \in 1 .. p.choices |-> Frame(choice, "finish", 0, 0)]
    \o (IF p.usage THEN <<Frame(0, "usage", 0, 0)>> ELSE <<>>)
    \o <<Frame(0, "done", 0, 0)>>

Whole(p) == p.frames \o Closing(p)

ErrorFrame == Frame(0, "error", 0, 0)
DoneFrame == Frame(0, "done", 0, 0)

AfterFrames(fault, default) ==
  IF fault.after_frames = None THEN default ELSE fault.after_frames

\* The frames at the stage of the fault, by their zero-based index.
AtStage(p, stage) == {i \in 0 .. Len(p.frames) - 1 : DeltaStage(p.frames[i + 1]) = stage}

\* The index of the frame at the stage that has n others before it; None
\* stands for an index that is never reached.
NthAtStage(p, stage, n) ==
  LET at == AtStage(p, stage)
      nth == {i \in at : Cardinality({j \in at : j < i}) = n}
  IN IF nth = {} THEN None ELSE CHOOSE i \in nth : TRUE

\* Mutant: the check after the main loop is left out.
FaultTriggerInLoop(p) ==
  CASE p.fault.stage = None       -> AfterFrames(p.fault, 2)
    [] p.fault.stage = "terminal" -> None
    [] OTHER -> NthAtStage(p, p.fault.stage, AfterFrames(p.fault, 0))

\* The fault strikes before the frame with this index.
FaultTrigger(p) ==
  CASE p.fault.stage = None       -> AfterFrames(p.fault, 2)
    [] p.fault.stage = "terminal" -> Len(p.frames)
    [] OTHER -> NthAtStage(p, p.fault.stage, AfterFrames(p.fault, 0))

Outcomes(fault) ==
  CASE fault.kind = "none" \/ fault.rate = "never" -> {FALSE}
    [] fault.kind # "none" /\ fault.rate = "always" -> {TRUE}
    [] OTHER -> BOOLEAN

-----------------------------------------------------------------------------
Init ==
  /\ pc = [s \in Streams |-> "new"]
  /\ plan = [s \in Streams |-> None]
  /\ fires = [s \in Streams |-> None]
  /\ out = [s \in Streams |-> <<>>]
  /\ metrics = [streams |-> 0, cancelled |-> 0, faults |-> 0]

Suspend(s, where) ==
  /\ pc' = [pc EXCEPT ![s] = where]
  /\ UNCHANGED out

Yield(s, frame, where) ==
  /\ pc' = [pc EXCEPT ![s] = where]
  /\ out' = [out EXCEPT ![s] = Append(@, frame)]

\* The generator runs to its end, with the guard told that it is done.
Finish(s) ==
  /\ pc' = [pc EXCEPT ![s] = "ended"]
  /\ UNCHANGED out

NextFrame(s) == Whole(plan[s])[Len(out[s]) + 1]

\* Frames of the main loop wait for a gap, but for the first and a burst.
Paced(s) ==
  /\ 0 < Len(out[s])
  /\ Len(out[s]) < Len(plan[s].frames)
  /\ plan[s].burst <= Len(out[s])

Pace(s) ==
  \/ Paced(s) /\ Suspend(s, "gap")
  \/ ~Paced(s) /\ Yield(s, NextFrame(s), "yield")

\* Mutant: the stream goes on after an error frame.
IterateOn(s, fire) ==
  IF fire /\ FaultTrigger(plan[s]) = Len(out[s]) /\ plan[s].fault.kind = "sse_error"
  THEN Yield(s, ErrorFrame, "yield") ELSE Pace(s)

\* The head of an iteration, or what follows the last one.
Iterate(s, fire) ==
  LET strikes == fire /\ FaultTrigger(plan[s]) = Len(out[s])
      kind == plan[s].fault.kind
  IN \/ strikes /\ kind = "drop" /\ Finish(s)
     \/ strikes /\ kind = "sse_error" /\ Yield(s, ErrorFrame, "error")
     \/ strikes /\ kind = "stall" /\ Suspend(s, "stall")
     \/ ~(strikes /\ kind \in {"drop", "sse_error", "stall"}) /\ Pace(s)

-----------------------------------------------------------------------------
\* The end of create_chat_completion: an http_error that fires is answered
\* before a stream exists.
HttpError(s) ==
  /\ pc[s] = "new"
  /\ \E p \in Plans :
       /\ p.fault.kind = "http_error" /\ TRUE \in Outcomes(p.fault)
       /\ plan' = [plan EXCEPT ![s] = p]
  /\ pc' = [pc EXCEPT ![s] = "refused"]
  /\ metrics' = [metrics EXCEPT !.faults = @ + 1]
  /\ UNCHANGED <<fires, out>>

OpenStream(s) ==
  /\ pc[s] = "new"
  /\ \E p \in Plans :
       /\ ~(p.fault.kind = "http_error" /\ Outcomes(p.fault) = {TRUE})
       /\ plan' = [plan EXCEPT ![s] = p]
  /\ pc' = [pc EXCEPT ![s] = "created"]
  /\ metrics' = [metrics EXCEPT !.streams = @ + 1]
  /\ UNCHANGED <<fires, out>>

\* The first poll creates the guard and decides whether the fault fires.
Start(s) ==
  /\ pc[s] = "created"
  /\ \E fire \in Outcomes(plan[s].fault) :
       /\ fires' = [fires EXCEPT ![s] = fire]
       /\ IF plan[s].ttft THEN Suspend(s, "ttft") ELSE Iterate(s, fire)
  /\ UNCHANGED <<plan, metrics>>

\* Mutant: a stall comes back to the head of its iteration.
WakeAtHead(s) ==
  /\ \/ pc[s] \in {"ttft", "stall"} /\ Iterate(s, fires[s])
     \/ pc[s] = "gap" /\ Yield(s, NextFrame(s), "yield")
  /\ UNCHANGED <<plan, fires, metrics>>

\* A sleep is over.
Wake(s) ==
  /\ \/ pc[s] = "ttft" /\ Iterate(s, fires[s])
     \/ pc[s] = "stall" /\ Pace(s)
     \/ pc[s] = "gap" /\ Yield(s, NextFrame(s), "yield")
  /\ UNCHANGED <<plan, fires, metrics>>

\* The client took the frame yielded last and polls for more.
Resume(s) ==
  /\ \/ /\ pc[s] = "yield"
        /\ Len(out[s]) <= Len(plan[s].frames)
        /\ Iterate(s, fires[s])
     \/ /\ pc[s] = "yield"
        /\ Len(out[s]) \in Len(plan[s].frames) + 1 .. Len(Whole(plan[s])) - 1
        /\ Yield(s, NextFrame(s), "yield")
     \/ pc[s] = "yield" /\ Len(out[s]) = Len(Whole(plan[s])) /\ Finish(s)
     \/ pc[s] = "error" /\ Yield(s, DoneFrame, "error_done")
     \/ pc[s] = "error_done" /\ Finish(s)
  /\ UNCHANGED <<plan, fires, metrics>>

Started == {"ttft", "stall", "gap", "yield", "error", "error_done"}

\* Mutant: counted whether the generator has started or not.
DropCountsAll(s) ==
  /\ pc[s] \in Started \cup {"created"}
  /\ pc' = [pc EXCEPT ![s] = "dropped"]
  /\ metrics' = [metrics EXCEPT !.cancelled = @ + 1]
  /\ UNCHANGED <<plan, fires, out>>

\* The client goes away.  Only a generator that has started has a guard.
Drop(s) ==
  /\ pc[s] \in Started \cup {"created"}
  /\ pc' = [pc EXCEPT ![s] = "dropped"]
  /\ metrics' = IF pc[s] \in Started THEN [metrics EXCEPT !.cancelled = @ + 1]
                                     ELSE metrics
  /\ UNCHANGED <<plan, fires, out>>

Poll(s) == Start(s) \/ Wake(s) \/ Resume(s)

Next == \E s \in Streams : HttpError(s) \/ OpenStream(s) \/ Poll(s) \/ Drop(s)

Spec == Init /\ [][Next]_vars

\* A sleep ends, and the server polls on for as long as the client is there.
FairSpec == Spec /\ \A s \in Streams : WF_vars(Poll(s))

-----------------------------------------------------------------------------
\* Properties.

\* A stream is at a suspension or over, has a plan once it was asked for, and
\* has drawn whether its fault fires once its generator runs.
TypeOK ==
  /\ pc \in [Streams -> {"new", "refused", "created", "ended", "dropped"} \cup Started]
  /\ plan \in [Streams -> Plans \cup {None}]
  /\ fires \in [Streams -> BOOLEAN \cup {None}]
  /\ out \in [Streams -> Seq(Frames(DeltaKinds \cup ClosingKinds))]
  /\ metrics \in [streams : Nat, cancelled : Nat, faults : Nat]
  /\ \A s \in Streams :
       /\ (plan[s] = None) = (pc[s] = "new")
       /\ pc[s] \in Started \cup {"ended"} => fires[s] # None
       /\ pc[s] \in {"new", "refused", "created"} => fires[s] = None

Sent(s, kind) == {k \in DOMAIN out[s] : out[s][k].kind = kind}

\* The clients that went away: before the terminal frame, and of those the ones
\* whose stream was never polled; and with [DONE] in their hands.
Left == {s \in Streams : pc[s] = "dropped"}
Abandoned == {s \in Left : Sent(s, "done") = {}}
NeverPolled == {s \in Left : fires[s] = None}
LeftWithDone == Left \ Abandoned

\* The counter is said to be of the streams abandoned before the terminal frame
\* (the comment on CancelCounter), which are Abandoned.  It is, but for two
\* things that the comment does not have: a stream that was never polled has no guard and is not counted,
\* and one left between [DONE] and the poll after it is, since the guard is
\* told only then that the stream is done.  Of the streams that are over
\* otherwise none is counted: not one that a drop fault cut, that reported an
\* error, or that ran to its end (CancelGuard).
CancelledExactly ==
  metrics.cancelled = Cardinality((Abandoned \ NeverPolled) \cup LeftWithDone)

\* [DONE] ends every stream that ends by itself, on every path but a drop
\* fault, which cuts the stream before any finish frame; and nothing ever
\* follows it (the comment of sse_stream).
DoneUnlessDropped ==
  \A s \in Streams :
    /\ Sent(s, "done") \subseteq {Len(out[s])}
    /\ pc[s] = "ended" /\ Sent(s, "done") = {} =>
         /\ fires[s] /\ plan[s].fault.kind = "drop"
         /\ Sent(s, "finish") \cup Sent(s, "error") = {}

\* A drop or sse_error fault has acted, after this many frames.
Struck(s) ==
  \/ Sent(s, "error") # {}
  \/ pc[s] = "ended" /\ Sent(s, "done") = {}
FramesBefore(s) == Len(out[s]) - Cardinality(Sent(s, "error"))
                     - IF Sent(s, "error") = {} THEN 0 ELSE Cardinality(Sent(s, "done"))

StruckInPlace(s) ==
  LET p == plan[s]
      n == FramesBefore(s)
      stage == p.fault.stage
  IN \/ stage = None /\ n = AfterFrames(p.fault, 2)
     \/ stage = "terminal" /\ n = Len(p.frames)
     \/ /\ stage \notin {None, "terminal"}
        /\ DeltaStage(p.frames[n + 1]) = stage
        /\ Cardinality({k \in 1 .. n : DeltaStage(out[s][k]) = stage})
             = AfterFrames(p.fault, 0)

\* The main loop is shorter than the fault's address.
HasNoPlace(p) ==
  IF p.fault.stage = None THEN AfterFrames(p.fault, 2) > Len(p.frames)
  ELSE /\ p.fault.stage # "terminal"
       /\ Cardinality(AtStage(p, p.fault.stage)) <= AfterFrames(p.fault, 0)

\* A fault strikes where it is addressed: after so many frames, or after so
\* many frames of its stage and before another, or when all the choices have
\* been told and none has finished; and a choice finishes in spite of a fault
\* that fires only when the fault has no place to strike.
FaultsStrikeTheirStage ==
  \A s \in Streams :
    /\ Struck(s) => StruckInPlace(s)
    /\ /\ pc[s] \in Started /\ fires[s]
       /\ plan[s].fault.kind \in {"drop", "sse_error"}
       /\ Sent(s, "finish") # {}
       => HasNoPlace(plan[s])

OfChoice(s, choice) ==
  {k \in DOMAIN out[s] : out[s][k].choice = choice /\ out[s][k].kind # "finish"}
ToTell(s, choice) ==
  {k \in DOMAIN plan[s].frames : plan[s].frames[k].choice = choice}

\* No choice runs ahead: until it is told completely, a choice is at most one
\* frame behind any other (the comment of interleave).
ChoicesKeepPace ==
  \A s \in Streams : plan[s] # None =>
    \A c, d \in 1 .. plan[s].choices :
      \/ Cardinality(OfChoice(s, c)) + 1 >= Cardinality(OfChoice(s, d))
      \/ Cardinality(OfChoice(s, c)) = Cardinality(ToTell(s, c))

\* A client that assembles the answer finds a place for every frame: each
\* choice opens with its role, calls open before any of their arguments, and
\* arguments come in order.
FramesFindTheirPlace ==
  \A s \in Streams : \A k \in DOMAIN out[s] :
    LET frame == out[s][k]
        before == {out[s][j] : j \in 1 .. k - 1}
    IN /\ frame.choice # 0 /\ frame.kind \notin {"role", "finish"} =>
            Frame(frame.choice, "role", 0, 0) \in before
       /\ frame.kind = "arguments" =>
            /\ Frame(frame.choice, "call", frame.call, 0) \in before
            /\ frame.part > 1 => [frame EXCEPT !.part = @ - 1] \in before

\* A client that stays gets to the end of its stream, whatever the fault: a
\* stall goes on where it stopped.
EveryStreamEnds ==
  \A s \in Streams : pc[s] = "created" ~> pc[s] \in {"ended", "dropped"}

\* The generator implements an event stream.
ScriptOf(p) ==
  [whole |-> Whole(p), body |-> Len(p.frames),
   failure |-> [n \in 0 .. Len(p.frames) |-> <<ErrorFrame, DoneFrame>>]]

Status(s) ==
  CASE pc[s] \in Started \cup {"created"} -> "open"
    [] pc[s] = "ended" -> IF Sent(s, "error") # {} THEN "failed"
                          ELSE IF Sent(s, "done") # {} THEN "complete" ELSE "cut"
    [] OTHER -> pc[s]

AbstractStream == INSTANCE EventStream
  WITH Scripts <- {ScriptOf(p) : p \in Plans}, NoScript <- None,
       script <- [s \in Streams |-> IF plan[s] = None THEN None ELSE ScriptOf(plan[s])],
       sent <- out, status <- [s \in Streams |-> Status(s)]

\* Clients get the script from its start, each frame once and in order, and a
\* failure is told in its place; nothing follows the end (sse_stream).
ImplementsEventStream == AbstractStream!Spec
=============================================================================
