--------------------------- MODULE ChatStreamProofs ---------------------------
(***************************************************************************)
(* How a streamed chat completion ends, which streams are counted          *)
(* cancelled, where faults strike, and what a client assembles, for any    *)
(* plans and any finite set of streams.                                    *)
(***************************************************************************)
EXTENDS ChatStream, DataFacts, FiniteSetTheorems, SequenceTheorems, TLAPS

(***************************************************************************)
(* What a stream has to send.                                              *)
(***************************************************************************)
AllFrames == Frames(DeltaKinds \cup ClosingKinds)

\* All frames of a concatenation are of the kinds of its parts.
LEMMA ConcatKinds ==
  ASSUME NEW a \in Seq(AllFrames), NEW b \in Seq(AllFrames), NEW K,
         \A k \in 1 .. Len(a) : a[k].kind \in K,
         \A k \in 1 .. Len(b) : b[k].kind \in K
  PROVE  \A k \in 1 .. Len(a \o b) : (a \o b)[k].kind \in K
<1> SUFFICES ASSUME NEW k \in 1 .. Len(a \o b) PROVE (a \o b)[k].kind \in K
  OBVIOUS
<1>1. /\ Len(a \o b) = Len(a) + Len(b)
      /\ (a \o b)[k] = IF k <= Len(a) THEN a[k] ELSE b[k - Len(a)]
  BY ConcatProperties
<1>2. Len(a) \in Nat /\ Len(b) \in Nat
  OBVIOUS
<1>3. CASE k <= Len(a)
  BY <1>1, <1>2, <1>3
<1>4. CASE ~(k <= Len(a))
  <2>1. k - Len(a) \in 1 .. Len(b)
    BY <1>1, <1>2, <1>4
  <2> QED BY <1>1, <1>4, <2>1
<1> QED BY <1>3, <1>4

\* A plan's frames, then finish frames and perhaps usage, then [DONE].
LEMMA WholeShape ==
  ASSUME NEW p \in Plans
  PROVE  /\ Whole(p) \in Seq(AllFrames)
         /\ Len(p.frames) \in Nat
         /\ Len(Whole(p)) \in Nat /\ Len(Whole(p)) > Len(p.frames)
         /\ \A k \in 1 .. Len(p.frames) : /\ Whole(p)[k] = p.frames[k]
                                         /\ Whole(p)[k].kind \in DeltaKinds
         /\ \A k \in 1 .. Len(Whole(p)) - 1 :
              Whole(p)[k].kind \in DeltaKinds \cup {"finish", "usage"}
         /\ Whole(p)[Len(Whole(p))] = DoneFrame
<1> DEFINE frames == p.frames
           finish == [choice \in 1 .. p.choices |-> Frame(choice, "finish", 0, 0)]
           usage == IF p.usage THEN <<Frame(0, "usage", 0, 0)>> ELSE <<>>
           done == <<Frame(0, "done", 0, 0)>>
           body == frames \o (finish \o usage)
<1>1. /\ frames \in Seq(AllFrames) /\ p.choices \in Nat
      /\ \A k \in 1 .. Len(frames) : frames[k].kind \in DeltaKinds
  <2>1. frames \in Seq(Frames(DeltaKinds)) /\ p.choices \in Nat
    BY PlanAssumption
  <2>2. Frames(DeltaKinds) \subseteq AllFrames
    BY DEF Frames, AllFrames
  <2>3. \A f \in Frames(DeltaKinds) : f.kind \in DeltaKinds
    BY DEF Frames
  <2> HIDE DEF frames
  <2> QED BY <2>1, <2>2, <2>3
<1>2. /\ finish \in Seq(AllFrames)
      /\ \A k \in 1 .. Len(finish) : finish[k].kind = "finish"
  <2>1. \A choice \in 1 .. p.choices :
          /\ Frame(choice, "finish", 0, 0) \in AllFrames
          /\ Frame(choice, "finish", 0, 0).kind = "finish"
    BY <1>1 DEF Frame, AllFrames, Frames, ClosingKinds
  <2> QED BY <1>1, <2>1
<1>3. /\ usage \in Seq(AllFrames)
      /\ \A k \in 1 .. Len(usage) : usage[k].kind = "usage"
  <2>1. Frame(0, "usage", 0, 0) \in AllFrames /\ Frame(0, "usage", 0, 0).kind = "usage"
    BY DEF Frame, AllFrames, Frames, ClosingKinds
  <2> QED BY <2>1
<1>4. /\ done \in Seq(AllFrames) /\ Len(done) = 1
      /\ done[1] = DoneFrame
  BY DEF Frame, AllFrames, Frames, ClosingKinds, DoneFrame
<1>5. Whole(p) = body \o done
  <2> HIDE DEF finish, usage, done, frames
  <2>1. Whole(p) = frames \o ((finish \o usage) \o done)
    BY DEF Whole, Closing, finish, usage, done, frames
  <2> QED BY <1>1, <1>2, <1>3, <1>4, <2>1
<1> HIDE DEF frames, finish, usage, done
<1>6. /\ finish \o usage \in Seq(AllFrames)
      /\ \A k \in 1 .. Len(finish \o usage) :
           (finish \o usage)[k].kind \in DeltaKinds \cup {"finish", "usage"}
  BY <1>2, <1>3, ConcatKinds
<1>7. /\ body \in Seq(AllFrames)
      /\ Len(body) \in Nat /\ Len(body) >= Len(frames)
      /\ \A k \in 1 .. Len(frames) : body[k] = frames[k]
  <2> DEFINE tail == finish \o usage
  <2>1. tail \in Seq(AllFrames)
    BY <1>6
  <2> HIDE DEF tail
  <2>2. Len(tail) \in Nat /\ Len(frames) \in Nat
    BY <1>1, <2>1
  <2>3. /\ frames \o tail \in Seq(AllFrames)
        /\ Len(frames \o tail) = Len(frames) + Len(tail)
        /\ \A k \in 1 .. Len(frames) : (frames \o tail)[k] = frames[k]
    BY <1>1, <2>1, <2>2, ConcatProperties
  <2> QED BY <2>2, <2>3 DEF tail
<1>8. \A k \in 1 .. Len(body) : body[k].kind \in DeltaKinds \cup {"finish", "usage"}
  BY <1>1, <1>6, ConcatKinds
<1> HIDE DEF body
<1>9. /\ body \o done \in Seq(AllFrames)
      /\ Len(body \o done) = Len(body) + 1
      /\ \A k \in 1 .. Len(body) : (body \o done)[k] = body[k]
      /\ (body \o done)[Len(body) + 1] = DoneFrame
  <2> DEFINE n == Len(body)
  <2>1. n \in Nat
    BY <1>7
  <2>2. /\ body \o done \in Seq(AllFrames)
        /\ Len(body \o done) = n + 1
        /\ \A i \in 1 .. n + 1 :
             (body \o done)[i] = IF i <= n THEN body[i] ELSE done[i - n]
    <3>1. /\ body \o done \in Seq(AllFrames)
          /\ Len(body \o done) = Len(body) + Len(done)
          /\ \A i \in 1 .. Len(body) + Len(done) :
               (body \o done)[i] = IF i <= Len(body) THEN body[i]
                                                    ELSE done[i - Len(body)]
      BY <1>4, <1>7, ConcatProperties
    <3>2. Len(body) + Len(done) = n + 1
      BY <1>4
    <3> QED BY <3>1, <3>2
  <2> HIDE DEF n
  <2>3. (body \o done)[n + 1] = done[1]
    <3>1. n + 1 \in 1 .. n + 1 /\ ~(n + 1 <= n) /\ (n + 1) - n = 1
      BY <2>1
    <3> QED BY <2>2, <3>1
  <2>4. \A k \in 1 .. n : (body \o done)[k] = body[k]
    BY <2>1, <2>2
  <2> QED BY <1>4, <2>2, <2>3, <2>4 DEF n
<1>10. Len(frames) \in Nat
  BY <1>1
<1>11. \A k \in 1 .. Len(frames) : /\ Whole(p)[k] = frames[k]
                                    /\ Whole(p)[k].kind \in DeltaKinds
  BY <1>1, <1>5, <1>7, <1>9, <1>10
<1>12. \A k \in 1 .. Len(Whole(p)) - 1 :
         Whole(p)[k].kind \in DeltaKinds \cup {"finish", "usage"}
  BY <1>5, <1>7, <1>8, <1>9
<1> QED BY <1>5, <1>7, <1>9, <1>10, <1>11, <1>12 DEF frames

-----------------------------------------------------------------------------
(***************************************************************************)
(* The shape of what was sent, at each suspension, and where the fault     *)
(* stands to it.                                                           *)
(***************************************************************************)
\* The first n frames are those of the plan.
Tells(p, o, n) == \A k \in 1 .. n : o[k] = Whole(p)[k]

Telling(p, o) == Len(o) <= Len(Whole(p)) /\ Tells(p, o, Len(o))

\* ... and no more than the main loop has been told.
InLoop(p, o) == Telling(p, o) /\ Len(o) <= Len(p.frames)

\* A fault that fires and ends the stream did not strike at the first n heads.
Passed(p, fire, n) ==
  fire /\ p.fault.kind \in {"drop", "sse_error"} =>
    \A k \in 0 .. Len(p.frames) : k < n => FaultTrigger(p) # k

\* The last frame reports a failure, in the place of a frame of the main loop
\* or of the first finish frame, where the fault is addressed; and then [DONE].
Failed(p, o) ==
  /\ Len(o) \in 1 .. Len(p.frames) + 1
  /\ FaultTrigger(p) = Len(o) - 1
  /\ o[Len(o)] = ErrorFrame
  /\ Tells(p, o, Len(o) - 1)
FailedDone(p, o) ==
  /\ Len(o) \in 2 .. Len(p.frames) + 2
  /\ FaultTrigger(p) = Len(o) - 2
  /\ o[Len(o)] = DoneFrame
  /\ o[Len(o) - 1] = ErrorFrame
  /\ Tells(p, o, Len(o) - 2)

Complete(p, o) == Telling(p, o) /\ Len(o) = Len(Whole(p))
CutOff(p, fire, o) ==
  /\ fire /\ p.fault.kind = "drop" /\ FaultTrigger(p) = Len(o)
  /\ InLoop(p, o)

Shape(p, where, fire, o) ==
  /\ where \in {"created", "ttft"} => o = <<>>
  /\ where \in {"stall", "gap"} => InLoop(p, o) /\ Passed(p, fire, Len(o) + 1)
  /\ where = "yield" => Telling(p, o) /\ Passed(p, fire, Len(o))
  /\ where = "error" => Failed(p, o)
  /\ where = "error_done" => FailedDone(p, o)
  /\ where = "ended" => Complete(p, o) \/ FailedDone(p, o) \/ CutOff(p, fire, o)
  /\ where = "dropped" => /\ Telling(p, o) \/ Failed(p, o) \/ FailedDone(p, o)
                          /\ fire = None => o = <<>>

Shaped ==
  \A s \in Streams :
    /\ pc[s] \in {"new", "refused"} => out[s] = <<>>
    /\ plan[s] # None => Shape(plan[s], pc[s], fires[s], out[s])

\* One more frame of the plan.
LEMMA TellOneMore ==
  ASSUME NEW p \in Plans, NEW o \in Seq(AllFrames), Telling(p, o),
         Len(o) < Len(Whole(p))
  PROVE  LET o2 == Append(o, Whole(p)[Len(o) + 1])
         IN  o2 \in Seq(AllFrames) /\ Telling(p, o2)
<1>1. /\ Whole(p) \in Seq(AllFrames) /\ Len(Whole(p)) \in Nat
  BY WholeShape
<1>2. Len(o) \in Nat /\ Len(o) + 1 \in 1 .. Len(Whole(p))
  BY <1>1
<1> DEFINE w == Whole(p)
<1>3. w \in Seq(AllFrames) /\ Len(w) \in Nat /\ Len(o) + 1 \in 1 .. Len(w)
      /\ \A k \in 1 .. Len(o) : o[k] = w[k]
  BY <1>1, <1>2 DEF Telling, Tells
<1> HIDE DEF w
<1>4. w[Len(o) + 1] \in AllFrames
  BY <1>3
<1>5. /\ Append(o, w[Len(o) + 1]) \in Seq(AllFrames)
      /\ Len(Append(o, w[Len(o) + 1])) = Len(o) + 1
      /\ \A k \in 1 .. Len(o) : Append(o, w[Len(o) + 1])[k] = o[k]
      /\ Append(o, w[Len(o) + 1])[Len(o) + 1] = w[Len(o) + 1]
  BY <1>2, <1>4, AppendProperties
<1>6. \A k \in 1 .. Len(o) + 1 : Append(o, w[Len(o) + 1])[k] = w[k]
  <2> SUFFICES ASSUME NEW k \in 1 .. Len(o) + 1
               PROVE  Append(o, w[Len(o) + 1])[k] = w[k]
    OBVIOUS
  <2>1. k \in 1 .. Len(o) \/ k = Len(o) + 1
    BY <1>2
  <2> QED BY <1>3, <1>5, <2>1
<1> QED BY <1>2, <1>3, <1>5, <1>6 DEF Telling, Tells, w

\* A failure in the place of a frame of the main loop, or of what follows it.
LEMMA TellFailure ==
  ASSUME NEW p \in Plans, NEW o \in Seq(AllFrames), InLoop(p, o),
         FaultTrigger(p) = Len(o)
  PROVE  LET o2 == Append(o, ErrorFrame)
         IN  o2 \in Seq(AllFrames) /\ Failed(p, o2)
<1>1. ErrorFrame \in AllFrames
  BY DEF ErrorFrame, Frame, AllFrames, Frames, ClosingKinds
<1>2. Len(o) \in Nat /\ Len(p.frames) \in Nat /\ Len(o) <= Len(p.frames)
  BY WholeShape DEF InLoop
<1>3. /\ Append(o, ErrorFrame) \in Seq(AllFrames)
      /\ Len(Append(o, ErrorFrame)) = Len(o) + 1
      /\ \A k \in 1 .. Len(o) : Append(o, ErrorFrame)[k] = o[k]
      /\ Append(o, ErrorFrame)[Len(o) + 1] = ErrorFrame
  BY <1>1, <1>2, AppendProperties
<1>4. \A k \in 1 .. Len(o) : o[k] = Whole(p)[k]
  BY DEF InLoop, Telling, Tells
<1>5. (Len(o) + 1) - 1 = Len(o)
  BY <1>2
<1> QED BY <1>2, <1>3, <1>4, <1>5 DEF Failed, Tells

LEMMA TellDone ==
  ASSUME NEW p \in Plans, NEW o \in Seq(AllFrames), Failed(p, o)
  PROVE  LET o2 == Append(o, DoneFrame)
         IN  o2 \in Seq(AllFrames) /\ FailedDone(p, o2)
<1>1. DoneFrame \in AllFrames
  BY DEF DoneFrame, Frame, AllFrames, Frames, ClosingKinds
<1>2. Len(o) \in Nat /\ Len(p.frames) \in Nat /\ Len(o) \in 1 .. Len(p.frames) + 1
  BY WholeShape DEF Failed
<1>3. /\ Append(o, DoneFrame) \in Seq(AllFrames)
      /\ Len(Append(o, DoneFrame)) = Len(o) + 1
      /\ \A k \in 1 .. Len(o) : Append(o, DoneFrame)[k] = o[k]
      /\ Append(o, DoneFrame)[Len(o) + 1] = DoneFrame
  BY <1>1, <1>2, AppendProperties
<1>4. /\ o[Len(o)] = ErrorFrame /\ \A k \in 1 .. Len(o) - 1 : o[k] = Whole(p)[k]
      /\ FaultTrigger(p) = Len(o) - 1
  BY DEF Failed, Tells
<1>5. /\ (Len(o) + 1) - 1 = Len(o) /\ (Len(o) + 1) - 2 = Len(o) - 1
      /\ Len(o) \in 1 .. Len(o) /\ 1 .. Len(o) - 1 \subseteq 1 .. Len(o)
      /\ Len(o) + 1 \in 2 .. Len(p.frames) + 2
  BY <1>2
<1> QED BY <1>3, <1>4, <1>5 DEF FailedDone, Tells

-----------------------------------------------------------------------------
(***************************************************************************)
(* What a poll does to its stream.                                         *)
(***************************************************************************)
LEMMA OutcomesAreBoolean ==
  ASSUME NEW fault
  PROVE  Outcomes(fault) \subseteq BOOLEAN
<1>1. CASE fault.kind = "none" \/ fault.rate = "never"
  BY <1>1 DEF Outcomes
<1>2. CASE ~(fault.kind = "none" \/ fault.rate = "never") /\ fault.rate = "always"
  BY <1>2 DEF Outcomes
<1>3. CASE ~(fault.kind = "none" \/ fault.rate = "never") /\ fault.rate # "always"
  BY <1>3 DEF Outcomes
<1> QED BY <1>1, <1>2, <1>3

\* A stream in a good shape at where, once it has sent o.
Good(p, where, fire, o) ==
  /\ where \in Started \cup {"ended"}
  /\ o \in Seq(AllFrames)
  /\ Shape(p, where, fire, o)

\* s goes from its suspension to another, with at most one frame more.
Moves(s, where, o) ==
  /\ pc' = [pc EXCEPT ![s] = where]
  /\ out' = [out EXCEPT ![s] = o]
  /\ \/ o = out[s]
     \/ where # "ended" /\ \E frame \in AllFrames : o = Append(out[s], frame)

LEMMA InLoopHasMore ==
  ASSUME NEW p \in Plans, NEW o \in Seq(AllFrames), InLoop(p, o)
  PROVE  Telling(p, o) /\ Len(o) < Len(Whole(p))
<1>1. /\ Len(p.frames) \in Nat /\ Len(Whole(p)) \in Nat
      /\ Len(Whole(p)) > Len(p.frames)
  BY WholeShape
<1>2. Len(o) \in Nat /\ Len(o) <= Len(p.frames) /\ Telling(p, o)
  BY DEF InLoop
<1> QED BY <1>1, <1>2

LEMMA YieldNextShape ==
  ASSUME NEW s \in Streams, NEW fire, plan[s] \in Plans,
         out \in [Streams -> Seq(AllFrames)], Telling(plan[s], out[s]),
         Len(out[s]) < Len(Whole(plan[s])), Passed(plan[s], fire, Len(out[s]) + 1),
         Yield(s, NextFrame(s), "yield")
  PROVE  \E where, o : Moves(s, where, o) /\ Good(plan[s], where, fire, o)
<1> DEFINE p == plan[s]
           o == out[s]
<1>1. p \in Plans /\ o \in Seq(AllFrames)
      /\ Telling(p, o) /\ Len(o) < Len(Whole(p)) /\ Passed(p, fire, Len(o) + 1)
  OBVIOUS
<1>2. Whole(p)[Len(o) + 1] \in AllFrames
  <2>1. Whole(p) \in Seq(AllFrames) /\ Len(o) + 1 \in 1 .. Len(Whole(p))
    BY <1>1, WholeShape
  <2> QED BY <2>1
<1>3. Moves(s, "yield", Append(o, Whole(p)[Len(o) + 1]))
  BY <1>2 DEF Yield, Moves, NextFrame
<1> HIDE DEF p, o
<1>4. Len(Append(o, Whole(p)[Len(o) + 1])) = Len(o) + 1
  BY <1>1, <1>2, AppendProperties
<1>5. Good(p, "yield", fire, Append(o, Whole(p)[Len(o) + 1]))
  BY <1>1, <1>4, TellOneMore DEF Good, Shape, Started
<1> QED BY <1>3, <1>5 DEF p

LEMMA PaceShape ==
  ASSUME NEW s \in Streams, NEW fire, plan[s] \in Plans,
         out \in [Streams -> Seq(AllFrames)], InLoop(plan[s], out[s]),
         Passed(plan[s], fire, Len(out[s]) + 1), Pace(s)
  PROVE  \E where, o : Moves(s, where, o) /\ Good(plan[s], where, fire, o)
<1> DEFINE p == plan[s]
           o == out[s]
<1>1. /\ p \in Plans /\ o \in Seq(AllFrames) /\ InLoop(p, o)
      /\ Passed(p, fire, Len(o) + 1)
  OBVIOUS
<1>2. CASE Suspend(s, "gap")
  <2>1. Moves(s, "gap", o)
    BY <1>2 DEF Suspend, Moves
  <2>2. Good(p, "gap", fire, o)
    BY <1>1 DEF Good, Shape, Started
  <2> QED BY <2>1, <2>2
<1>3. CASE Yield(s, NextFrame(s), "yield")
  <2>1. Telling(p, o) /\ Len(o) < Len(Whole(p))
    BY <1>1, InLoopHasMore
  <2> QED BY <1>3, <2>1, YieldNextShape
<1> QED BY <1>2, <1>3 DEF Pace

LEMMA IterateShape ==
  ASSUME NEW s \in Streams, NEW fire \in BOOLEAN, plan[s] \in Plans,
         out \in [Streams -> Seq(AllFrames)], InLoop(plan[s], out[s]),
         Passed(plan[s], fire, Len(out[s])), Iterate(s, fire)
  PROVE  \E where, o : Moves(s, where, o) /\ Good(plan[s], where, fire, o)
<1> DEFINE p == plan[s]
           o == out[s]
<1>1. /\ p \in Plans /\ o \in Seq(AllFrames) /\ Len(o) \in Nat
      /\ InLoop(p, o) /\ Passed(p, fire, Len(o))
  OBVIOUS
<1> DEFINE strikes == fire /\ FaultTrigger(p) = Len(o)
<1>2. CASE strikes /\ p.fault.kind = "drop" /\ Finish(s)
  <2>1. Moves(s, "ended", o)
    BY <1>2 DEF Finish, Moves
  <2>2. Good(p, "ended", fire, o)
    BY <1>1, <1>2 DEF Good, Shape, CutOff
  <2> QED BY <2>1, <2>2
<1>3. CASE strikes /\ Yield(s, ErrorFrame, "error")
  <2>1. Moves(s, "error", Append(o, ErrorFrame))
    <3>1. ErrorFrame \in AllFrames
      BY DEF ErrorFrame, Frame, AllFrames, Frames, ClosingKinds
    <3> QED BY <1>3, <3>1 DEF Yield, Moves
  <2>2. Good(p, "error", fire, Append(o, ErrorFrame))
    <3>1. FaultTrigger(p) = Len(o)
      BY <1>3
    <3> HIDE DEF p, o
    <3> QED BY <1>1, <3>1, TellFailure DEF Good, Shape, Started
  <2> QED BY <2>1, <2>2
<1>4. CASE p.fault.kind = "stall" /\ Suspend(s, "stall")
  <2>1. Moves(s, "stall", o)
    BY <1>4 DEF Suspend, Moves
  <2>2. Good(p, "stall", fire, o)
    BY <1>1, <1>4 DEF Good, Shape, Started, Passed
  <2> QED BY <2>1, <2>2
<1>5. CASE ~(strikes /\ p.fault.kind \in {"drop", "sse_error", "stall"}) /\ Pace(s)
  <2>1. Passed(p, fire, Len(o) + 1)
    <3> SUFFICES ASSUME fire, p.fault.kind \in {"drop", "sse_error"},
                        NEW k \in 0 .. Len(p.frames), k < Len(o) + 1
                 PROVE  FaultTrigger(p) # k
      BY DEF Passed
    <3>1. k < Len(o) \/ k = Len(o)
      BY <1>1
    <3> QED BY <1>1, <1>5, <3>1 DEF Passed
  <2> QED BY <1>5, <2>1, PaceShape
<1> QED BY <1>2, <1>3, <1>4, <1>5 DEF Iterate

\* The draw is kept from the first poll on.
Drawn(s) ==
  /\ fires'[s] \in BOOLEAN
  /\ fires' = [fires EXCEPT ![s] = fires'[s]]

LEMMA PollShape ==
  ASSUME TypeOK, Shaped, NEW s \in Streams, Poll(s)
  PROVE  /\ pc[s] \in Started \cup {"created"}
         /\ plan[s] \in Plans
         /\ UNCHANGED <<plan, metrics>>
         /\ Drawn(s)
         /\ \E where, o : Moves(s, where, o) /\ Good(plan[s], where, fires'[s], o)
<1> DEFINE P == plan[s]
           O == out[s]
<1>1. /\ out \in [Streams -> Seq(AllFrames)] /\ fires \in [Streams -> BOOLEAN \cup {None}]
      /\ plan[s] \in Plans \cup {None} /\ (plan[s] = None) = (pc[s] = "new")
      /\ pc[s] \in Started => fires[s] # None
  BY DEF TypeOK, AllFrames
<1>2. pc[s] \in Started \cup {"created"}
  BY DEF Poll, Start, Wake, Resume, Started
<1>3. P \in Plans /\ O \in Seq(AllFrames)
  <2>1. pc[s] # "new"
    BY <1>2 DEF Started
  <2> QED BY <1>1, <2>1
<1>4. Shape(P, pc[s], fires[s], O)
  BY <1>3, StreamsAssumption DEF Shaped
<1>5. ASSUME NEW fire, pc[s] \in {"created", "ttft"}
      PROVE  InLoop(P, O) /\ Passed(P, fire, Len(O))
  <2>1. O = <<>> => Len(O) = 0
    OBVIOUS
  <2>2. Len(P.frames) \in Nat /\ Len(Whole(P)) \in Nat
    BY <1>3, WholeShape
  <2>3. Len(O) = 0
    BY <1>4, <1>5, <2>1 DEF Shape
  <2>4. Passed(P, fire, 0)
    BY DEF Passed
  <2> QED BY <2>2, <2>3, <2>4 DEF InLoop, Telling, Tells
<1>6. CASE Start(s)
  <2>1. PICK fire \in Outcomes(plan[s].fault) :
          /\ fires' = [fires EXCEPT ![s] = fire]
          /\ IF plan[s].ttft THEN Suspend(s, "ttft") ELSE Iterate(s, fire)
    BY <1>6 DEF Start
  <2>2. fire \in BOOLEAN
    BY OutcomesAreBoolean
  <2>3. fires'[s] = fire /\ UNCHANGED <<plan, metrics>> /\ pc[s] = "created"
    BY <1>1, <1>6, <2>1 DEF Start
  <2>4. CASE Suspend(s, "ttft")
    <3>1. Moves(s, "ttft", O)
      BY <1>1, <2>4 DEF Suspend, Moves
    <3>2. Good(P, "ttft", fire, O)
      BY <1>3, <1>4, <2>3 DEF Good, Shape, Started
    <3> QED BY <1>2, <1>3, <2>1, <2>2, <2>3, <3>1, <3>2 DEF Drawn
  <2>5. CASE Iterate(s, fire)
    <3>1. \E where, o : Moves(s, where, o) /\ Good(plan[s], where, fire, o)
      BY <1>1, <1>3, <1>5, <2>2, <2>3, <2>5, IterateShape
    <3> QED BY <1>2, <1>3, <2>1, <2>2, <2>3, <3>1 DEF Drawn
  <2> QED BY <2>1, <2>4, <2>5
<1>7. CASE Wake(s) \/ Resume(s)
  <2>1. UNCHANGED <<plan, fires, metrics>> /\ pc[s] \in Started
    BY <1>7 DEF Wake, Resume, Started
  <2>2. fires[s] \in BOOLEAN
    BY <1>1, <2>1
  <2>3. Drawn(s) /\ fires'[s] = fires[s]
    BY <1>1, <2>1, <2>2 DEF Drawn
  <2>4. CASE pc[s] = "ttft" /\ Iterate(s, fires[s])
    <3>1. InLoop(P, O) /\ Passed(P, fires[s], Len(O))
      BY <1>5, <2>4
    <3> QED BY <1>1, <1>2, <1>3, <2>1, <2>2, <2>3, <2>4, <3>1, IterateShape
  <2>5. CASE pc[s] = "stall" /\ Pace(s)
    <3>1. InLoop(P, O) /\ Passed(P, fires[s], Len(O) + 1)
      BY <1>4, <2>5 DEF Shape
    <3> QED BY <1>1, <1>2, <1>3, <2>1, <2>3, <2>5, <3>1, PaceShape
  <2>6. CASE pc[s] = "gap" /\ Yield(s, NextFrame(s), "yield")
    <3>1. InLoop(P, O) /\ Passed(P, fires[s], Len(O) + 1)
      BY <1>4, <2>6 DEF Shape
    <3>2. Telling(P, O) /\ Len(O) < Len(Whole(P))
      BY <1>3, <3>1, InLoopHasMore
    <3> QED BY <1>1, <1>2, <1>3, <2>1, <2>3, <2>6, <3>1, <3>2, YieldNextShape
  <2>7. CASE pc[s] = "yield" /\ Len(O) <= Len(P.frames) /\ Iterate(s, fires[s])
    <3>1. InLoop(P, O) /\ Passed(P, fires[s], Len(O))
      BY <1>4, <2>7 DEF Shape, InLoop
    <3> QED BY <1>1, <1>2, <1>3, <2>1, <2>2, <2>3, <2>7, <3>1, IterateShape
  <2>8. CASE /\ pc[s] = "yield"
             /\ Len(O) \in Len(P.frames) + 1 .. Len(Whole(P)) - 1
             /\ Yield(s, NextFrame(s), "yield")
    <3>1. Telling(P, O)
      BY <1>4, <2>8 DEF Shape
    <3>2. Len(O) < Len(Whole(P))
      BY <1>3, <2>8, WholeShape
    <3>3. Passed(P, fires[s], Len(O) + 1)
      BY <1>3, <1>4, <2>8, WholeShape DEF Shape, Passed
    <3> QED BY <1>1, <1>2, <1>3, <2>1, <2>3, <2>8, <3>1, <3>2, <3>3, YieldNextShape
  <2>9. CASE pc[s] = "yield" /\ Len(O) = Len(Whole(P)) /\ Finish(s)
    <3>1. Moves(s, "ended", O)
      BY <1>1, <2>9 DEF Finish, Moves
    <3>2. Good(P, "ended", fires[s], O)
      BY <1>3, <1>4, <2>9 DEF Good, Shape, Complete
    <3> QED BY <1>2, <1>3, <2>1, <2>3, <3>1, <3>2
  <2>10. CASE pc[s] = "error" /\ Yield(s, DoneFrame, "error_done")
    <3>1. Moves(s, "error_done", Append(O, DoneFrame))
      <4>1. DoneFrame \in AllFrames
        BY DEF DoneFrame, Frame, AllFrames, Frames, ClosingKinds
      <4> QED BY <2>10, <4>1 DEF Yield, Moves
    <3>2. Failed(P, O)
      BY <1>4, <2>10 DEF Shape
    <3>3. Good(P, "error_done", fires[s], Append(O, DoneFrame))
      <4> HIDE DEF P, O
      <4> QED BY <1>3, <3>2, TellDone DEF Good, Shape, Started
    <3> QED BY <1>2, <1>3, <2>1, <2>3, <3>1, <3>3
  <2>11. CASE pc[s] = "error_done" /\ Finish(s)
    <3>1. Moves(s, "ended", O)
      BY <1>1, <2>11 DEF Finish, Moves
    <3>2. Good(P, "ended", fires[s], O)
      BY <1>3, <1>4, <2>11 DEF Good, Shape
    <3> QED BY <1>2, <1>3, <2>1, <2>3, <3>1, <3>2
  <2> QED BY <1>7, <2>4, <2>5, <2>6, <2>7, <2>8, <2>9, <2>10, <2>11 DEF Wake, Resume
<1> QED BY <1>6, <1>7 DEF Poll

-----------------------------------------------------------------------------
(***************************************************************************)
(* Types and shapes.                                                       *)
(***************************************************************************)
Counters == [streams : Nat, cancelled : Nat, faults : Nat]

LEMMA CountingUp ==
  ASSUME NEW m \in Counters
  PROVE  /\ [m EXCEPT !.streams = @ + 1] \in Counters
         /\ [m EXCEPT !.cancelled = @ + 1] \in Counters
         /\ [m EXCEPT !.faults = @ + 1] \in Counters
BY DEF Counters

LEMMA InitShaped == Init => TypeOK /\ Shaped
<1> SUFFICES ASSUME Init PROVE TypeOK /\ Shaped
  OBVIOUS
<1>1. TypeOK
  BY DEF Init, TypeOK, Started
<1>2. Shaped
  BY DEF Init, Shaped
<1> QED BY <1>1, <1>2

LEMMA NextShaped == TypeOK /\ Shaped /\ [Next]_vars => TypeOK' /\ Shaped'
<1> SUFFICES ASSUME TypeOK, Shaped, [Next]_vars PROVE TypeOK' /\ Shaped'
  OBVIOUS
<1> USE StreamsAssumption
<1>1. ASSUME NEW s \in Streams, HttpError(s) PROVE TypeOK' /\ Shaped'
  <2>1. TypeOK'
    <3>1. metrics' \in Counters
      BY <1>1, CountingUp DEF HttpError, TypeOK, Counters
    <3>2. /\ pc' \in [Streams -> {"new", "refused", "created", "ended", "dropped"} \cup Started]
          /\ plan' \in [Streams -> Plans \cup {None}]
          /\ \A u \in Streams : (plan'[u] = None) = (pc'[u] = "new")
      BY <1>1 DEF HttpError, TypeOK
    <3>3. UNCHANGED <<fires, out>>
      BY <1>1 DEF HttpError
    <3>4. \A u \in Streams :
            /\ pc'[u] \in Started \cup {"ended"} => fires'[u] # None
            /\ pc'[u] \in {"new", "refused", "created"} => fires'[u] = None
      BY <1>1, <3>3 DEF HttpError, TypeOK, Started
    <3> QED BY <3>1, <3>2, <3>3, <3>4 DEF TypeOK, Counters
  <2>2. Shaped'
    BY <1>1 DEF HttpError, TypeOK, Shaped, Shape
  <2> QED BY <2>1, <2>2
<1>2. ASSUME NEW s \in Streams, OpenStream(s) PROVE TypeOK' /\ Shaped'
  <2>1. TypeOK'
    <3>1. metrics' \in Counters
      BY <1>2, CountingUp DEF OpenStream, TypeOK, Counters
    <3>2. /\ pc' \in [Streams -> {"new", "refused", "created", "ended", "dropped"} \cup Started]
          /\ plan' \in [Streams -> Plans \cup {None}]
          /\ \A u \in Streams : (plan'[u] = None) = (pc'[u] = "new")
      BY <1>2 DEF OpenStream, TypeOK
    <3>3. UNCHANGED <<fires, out>>
      BY <1>2 DEF OpenStream
    <3>4. \A u \in Streams :
            /\ pc'[u] \in Started \cup {"ended"} => fires'[u] # None
            /\ pc'[u] \in {"new", "refused", "created"} => fires'[u] = None
      BY <1>2, <3>3 DEF OpenStream, TypeOK, Started
    <3> QED BY <3>1, <3>2, <3>3, <3>4 DEF TypeOK, Counters
  <2>2. Shaped'
    BY <1>2 DEF OpenStream, TypeOK, Shaped, Shape
  <2> QED BY <2>1, <2>2
<1>3. ASSUME NEW s \in Streams, Poll(s) PROVE TypeOK' /\ Shaped'
  <2>1. /\ pc[s] \in Started \cup {"created"}
        /\ plan[s] \in Plans
        /\ UNCHANGED <<plan, metrics>>
        /\ Drawn(s)
    BY <1>3, PollShape
  <2>2. PICK where, o : Moves(s, where, o) /\ Good(plan[s], where, fires'[s], o)
    BY <1>3, PollShape
  <2>3. /\ where \in Started \cup {"ended"} /\ o \in Seq(AllFrames)
        /\ Shape(plan[s], where, fires'[s], o)
    BY <2>2 DEF Good
  <2>4. TypeOK'
    BY <2>1, <2>2, <2>3 DEF TypeOK, Moves, Drawn, Started, AllFrames
  <2>5. ASSUME NEW u \in Streams
        PROVE  /\ pc'[u] \in {"new", "refused"} => out'[u] = <<>>
               /\ plan'[u] # None => Shape(plan'[u], pc'[u], fires'[u], out'[u])
    <3>1. CASE u = s
      <4>1. pc'[s] = where /\ out'[s] = o /\ plan' = plan
        BY <2>1, <2>2 DEF Moves, TypeOK
      <4> QED BY <2>3, <3>1, <4>1 DEF Started
    <3>2. CASE u # s
      <4>1. pc'[u] = pc[u] /\ out'[u] = out[u] /\ plan' = plan /\ fires'[u] = fires[u]
        BY <2>1, <2>2, <3>2 DEF Moves, TypeOK, Drawn
      <4> QED BY <4>1 DEF Shaped
    <3> QED BY <3>1, <3>2
  <2>6. Shaped'
    BY <2>5 DEF Shaped
  <2> QED BY <2>4, <2>6
<1>4. ASSUME NEW s \in Streams, Drop(s) PROVE TypeOK' /\ Shaped'
  <2>1. TypeOK'
    <3>1. metrics' \in Counters
      BY <1>4, CountingUp DEF Drop, TypeOK, Counters
    <3> QED BY <1>4, <3>1 DEF Drop, TypeOK, Started, Counters
  <2>2. ASSUME NEW u \in Streams
        PROVE  /\ pc'[u] \in {"new", "refused"} => out'[u] = <<>>
               /\ plan'[u] # None => Shape(plan'[u], pc'[u], fires'[u], out'[u])
    <3>1. CASE u = s
      <4>1. /\ pc[s] \in Started \cup {"created"} /\ pc'[s] = "dropped"
            /\ UNCHANGED <<plan, fires, out>>
        BY <1>4 DEF Drop, TypeOK
      <4>2. plan[s] \in Plans /\ Shape(plan[s], pc[s], fires[s], out[s])
        <5>1. plan[s] # None
          BY <4>1 DEF TypeOK, Started
        <5> QED BY <5>1 DEF Shaped, TypeOK
      <4>3. out[s] = <<>> => Telling(plan[s], out[s])
        <5>1. Len(Whole(plan[s])) \in Nat
          BY <4>2, WholeShape
        <5> QED BY <5>1 DEF Telling, Tells
      <4>4. Telling(plan[s], out[s]) \/ Failed(plan[s], out[s])
              \/ FailedDone(plan[s], out[s])
        BY <4>1, <4>2, <4>3 DEF Shape, InLoop, Started
      <4>5. fires[s] = None => out[s] = <<>>
        BY <4>1, <4>2 DEF Shape, TypeOK
      <4> QED BY <3>1, <4>1, <4>4, <4>5 DEF Shape
    <3>2. CASE u # s
      <4>1. pc'[u] = pc[u] /\ UNCHANGED <<plan, fires, out>>
        BY <1>4, <3>2 DEF Drop, TypeOK
      <4> QED BY <4>1 DEF Shaped
    <3> QED BY <3>1, <3>2
  <2>3. Shaped'
    BY <2>2 DEF Shaped
  <2> QED BY <2>1, <2>3
<1>5. CASE UNCHANGED vars
  BY <1>5 DEF vars, TypeOK, Shaped
<1> QED BY <1>1, <1>2, <1>3, <1>4, <1>5 DEF Next

\* TypeOK: at every suspension a stream has drawn, planned and sent what its
\* place in sse_stream says, for any frames and any faults.
THEOREM ChatTypeCorrect == Spec => []TypeOK
BY InitShaped, NextShaped, PTL DEF Spec

-----------------------------------------------------------------------------
(***************************************************************************)
(* Which streams are counted cancelled.                                    *)
(***************************************************************************)
\* Those who left a stream whose guard was there.
Counted == {s \in Streams : pc[s] = "dropped" /\ fires[s] # None}

CountedExactly == metrics.cancelled = Cardinality(Counted)

LEMMA InitCancelled == Init => CountedExactly
<1> SUFFICES ASSUME Init PROVE CountedExactly
  OBVIOUS
<1>1. Counted = {}
  BY DEF Init, Counted
<1>2. metrics.cancelled = 0
  BY DEF Init
<1> QED BY <1>1, <1>2, FS_EmptySet DEF CountedExactly

LEMMA NextCancelled ==
  TypeOK /\ Shaped /\ CountedExactly /\ [Next]_vars => CountedExactly'
<1> SUFFICES ASSUME TypeOK, Shaped, CountedExactly, [Next]_vars
             PROVE  CountedExactly'
  OBVIOUS
<1>1. IsFiniteSet(Counted)
  BY StreamsAssumption, FS_Subset DEF Counted
<1>2. metrics.cancelled = Cardinality(Counted) /\ metrics \in Counters
  BY DEF CountedExactly, TypeOK, Counters
<1>3. CASE Counted' = Counted /\ metrics'.cancelled = metrics.cancelled
  BY <1>2, <1>3 DEF CountedExactly
<1>4. ASSUME NEW s \in Streams, HttpError(s) \/ OpenStream(s)
      PROVE  CountedExactly'
  <2>1. Counted' = Counted
    BY <1>4 DEF HttpError, OpenStream, TypeOK, Counted
  <2>2. metrics'.cancelled = metrics.cancelled
    BY <1>2, <1>4 DEF HttpError, OpenStream, Counters
  <2> QED BY <1>3, <2>1, <2>2
<1>5. ASSUME NEW s \in Streams, Poll(s)
      PROVE  CountedExactly'
  <2>1. /\ pc[s] # "dropped" /\ metrics' = metrics
        /\ Drawn(s)
    BY <1>5, PollShape DEF Started
  <2>2. PICK where, o : Moves(s, where, o) /\ where \in Started \cup {"ended"}
    BY <1>5, PollShape DEF Good
  <2>3. \A u \in Streams : u # s => pc'[u] = pc[u] /\ fires'[u] = fires[u]
    BY <2>1, <2>2 DEF Moves, Drawn, TypeOK
  <2>4. pc'[s] # "dropped"
    BY <2>2 DEF Moves, TypeOK, Started
  <2>5. Counted' = Counted
    BY <2>1, <2>3, <2>4 DEF Counted
  <2> QED BY <1>3, <2>1, <2>5
<1>6. ASSUME NEW s \in Streams, Drop(s)
      PROVE  CountedExactly'
  <2>1. /\ pc' = [pc EXCEPT ![s] = "dropped"] /\ fires' = fires
        /\ pc[s] \in Started \cup {"created"} /\ pc[s] # "dropped"
    BY <1>6 DEF Drop, Started
  <2>2. CASE pc[s] \in Started
    <3>1. Counted' = Counted \cup {s} /\ s \notin Counted
      BY <2>1, <2>2 DEF TypeOK, Counted
    <3>2. Cardinality(Counted \cup {s}) = Cardinality(Counted) + 1
      BY <1>1, <3>1, FS_AddElement
    <3>3. metrics'.cancelled = metrics.cancelled + 1
      BY <1>2, <1>6, <2>2 DEF Drop, Counters
    <3> QED BY <1>2, <3>1, <3>2, <3>3 DEF CountedExactly
  <2>3. CASE pc[s] \notin Started
    <3>1. Counted' = Counted
      BY <2>1, <2>3 DEF TypeOK, Counted
    <3>2. metrics' = metrics
      BY <1>6, <2>3 DEF Drop
    <3> QED BY <1>3, <3>1, <3>2
  <2> QED BY <2>2, <2>3
<1>7. CASE UNCHANGED vars
  BY <1>3, <1>7 DEF vars, Counted
<1> QED BY <1>4, <1>5, <1>6, <1>7 DEF Next

\* Nothing was sent of a stream that was never polled.
LEMMA CountedIs ==
  ASSUME TypeOK, Shaped
  PROVE  (Abandoned \ NeverPolled) \cup LeftWithDone = Counted
<1>1. ASSUME NEW s \in Left, fires[s] = None
      PROVE  Sent(s, "done") = {}
  <2>1. s \in Streams /\ pc[s] = "dropped" /\ plan[s] # None
    BY DEF Left, TypeOK
  <2>2. out[s] = <<>>
    BY <1>1, <2>1 DEF Shaped, Shape
  <2> QED BY <2>2 DEF Sent
<1> QED BY <1>1 DEF Left, Abandoned, NeverPolled, LeftWithDone, Counted

\* CancelledExactly: however many streams share the counter and wherever their
\* clients leave them, CancelGuard counts those who leave before the terminal
\* frame, except before the first poll, those who leave between [DONE] and the
\* poll after it, and no other.
THEOREM CancellationsAreExact == Spec => []CancelledExactly
<1>1. TypeOK /\ Shaped /\ CountedExactly => CancelledExactly
  BY CountedIs DEF CountedExactly, CancelledExactly
<1> QED BY <1>1, InitShaped, NextShaped, InitCancelled, NextCancelled, PTL DEF Spec

-----------------------------------------------------------------------------
(***************************************************************************)
(* How streams end.                                                        *)
(***************************************************************************)
\* What was sent of the main loop holds no closing frame.
LEMMA LoopKinds ==
  ASSUME NEW p \in Plans, NEW o, NEW n \in Nat, Tells(p, o, n), n <= Len(p.frames)
  PROVE  \A k \in 1 .. n : o[k].kind \notin ClosingKinds
<1>1. /\ Len(p.frames) \in Nat
      /\ \A k \in 1 .. Len(p.frames) : Whole(p)[k].kind \in DeltaKinds
  BY WholeShape
<1>2. \A k \in 1 .. n : k \in 1 .. Len(p.frames) /\ o[k] = Whole(p)[k]
  BY <1>1 DEF Tells
<1> QED BY <1>1, <1>2 DEF DeltaKinds, ClosingKinds

LEMMA TellingDone ==
  ASSUME NEW p \in Plans, NEW o \in Seq(AllFrames), Telling(p, o),
         NEW k \in 1 .. Len(o), o[k].kind = "done"
  PROVE  k = Len(o)
<1>1. /\ Len(Whole(p)) \in Nat
      /\ \A j \in 1 .. Len(Whole(p)) - 1 :
           Whole(p)[j].kind \in DeltaKinds \cup {"finish", "usage"}
  BY WholeShape
<1>2. Len(o) \in Nat /\ Len(o) <= Len(Whole(p)) /\ o[k] = Whole(p)[k]
  BY DEF Telling, Tells
<1>3. k \notin 1 .. Len(Whole(p)) - 1
  BY <1>1, <1>2 DEF DeltaKinds
<1> QED BY <1>1, <1>2, <1>3

LEMMA ClosingFrames ==
  DoneFrame.kind = "done" /\ ErrorFrame.kind = "error"
BY DEF DoneFrame, ErrorFrame, Frame

LEMMA ShapesEnd == TypeOK /\ Shaped => DoneUnlessDropped
<1> SUFFICES ASSUME TypeOK, Shaped, NEW s \in Streams
             PROVE  /\ Sent(s, "done") \subseteq {Len(out[s])}
                    /\ pc[s] = "ended" /\ Sent(s, "done") = {} =>
                         /\ fires[s] /\ plan[s].fault.kind = "drop"
                         /\ Sent(s, "finish") \cup Sent(s, "error") = {}
  BY DEF DoneUnlessDropped
<1> DEFINE p == plan[s]
           o == out[s]
<1>1. o \in Seq(AllFrames) /\ Len(o) \in Nat /\ DOMAIN o = 1 .. Len(o)
  <2>1. o \in Seq(AllFrames)
    BY DEF TypeOK, AllFrames
  <2> HIDE DEF o
  <2> QED BY <2>1
<1>2. CASE pc[s] \in {"new", "refused"}
  <2>1. Sent(s, "done") = {}
    BY <1>2 DEF Shaped, Sent
  <2> QED BY <1>2, <2>1
<1>3. CASE pc[s] \notin {"new", "refused"}
  <2>1. p \in Plans /\ Shape(p, pc[s], fires[s], o) /\ Len(p.frames) \in Nat
    <3>1. p # None
      BY <1>3 DEF TypeOK
    <3>2. p \in Plans /\ Shape(p, pc[s], fires[s], o)
      BY <3>1 DEF TypeOK, Shaped
    <3> QED BY <3>2, WholeShape
  <2>2. CASE Telling(p, o)
    <3>1. Sent(s, "done") \subseteq {Len(o)}
      BY <1>1, <2>1, <2>2, TellingDone DEF Sent
    <3>2. Complete(p, o) => Sent(s, "done") # {}
      <4> SUFFICES ASSUME Complete(p, o) PROVE Sent(s, "done") # {}
        OBVIOUS
      <4>1. /\ Len(Whole(p)) \in Nat /\ Len(Whole(p)) > Len(p.frames)
            /\ Whole(p)[Len(Whole(p))] = DoneFrame
        BY <2>1, WholeShape
      <4>2. Len(o) \in 1 .. Len(o) /\ o[Len(o)] = DoneFrame
        BY <1>1, <2>1, <4>1 DEF Complete, Telling, Tells
      <4> QED BY <1>1, <4>2, ClosingFrames DEF Sent
    <3>3. CutOff(p, fires[s], o) => /\ fires[s] /\ p.fault.kind = "drop"
                                    /\ Sent(s, "finish") \cup Sent(s, "error") = {}
      <4> SUFFICES ASSUME CutOff(p, fires[s], o)
                   PROVE  /\ fires[s] /\ p.fault.kind = "drop"
                          /\ Sent(s, "finish") \cup Sent(s, "error") = {}
        OBVIOUS
      <4>1. Tells(p, o, Len(o)) /\ Len(o) <= Len(p.frames)
        BY DEF CutOff, InLoop, Telling
      <4>2. \A k \in 1 .. Len(o) : o[k].kind \notin ClosingKinds
        BY <1>1, <2>1, <4>1, LoopKinds
      <4> QED BY <1>1, <4>2 DEF CutOff, Sent, ClosingKinds
    <3>4. FailedDone(p, o) => Sent(s, "done") # {}
      BY <1>1, <2>1, ClosingFrames DEF FailedDone, Sent
    <3> QED BY <2>1, <3>1, <3>2, <3>3, <3>4 DEF Shape
  <2>3. CASE Failed(p, o)
    <3>1. \A k \in 1 .. Len(o) - 1 : o[k].kind \notin ClosingKinds
      BY <1>1, <2>1, <2>3, LoopKinds DEF Failed
    <3>2. \A k \in 1 .. Len(o) : o[k].kind # "done"
      BY <1>1, <2>3, <3>1, ClosingFrames DEF Failed, ClosingKinds
    <3>3. Sent(s, "done") = {}
      BY <1>1, <3>2 DEF Sent
    <3>4. pc[s] = "ended" => FALSE
      <4> SUFFICES ASSUME pc[s] = "ended" PROVE FALSE
        OBVIOUS
      <4>1. Complete(p, o) \/ FailedDone(p, o) \/ CutOff(p, fires[s], o)
        BY <2>1 DEF Shape
      <4>2. ~FailedDone(p, o)
        BY <2>3, ClosingFrames DEF Failed, FailedDone
      <4>3. Telling(p, o)
        BY <4>1, <4>2 DEF Complete, CutOff, InLoop
      <4>4. o[Len(o)] = Whole(p)[Len(o)] /\ Len(o) \in 1 .. Len(Whole(p))
        BY <1>1, <2>1, <2>3, <4>3, WholeShape DEF Failed, Telling, Tells
      <4>5. Whole(p)[Len(o)].kind # "error"
        <5>1. /\ Len(Whole(p)) \in Nat
              /\ \A j \in 1 .. Len(Whole(p)) - 1 :
                   Whole(p)[j].kind \in DeltaKinds \cup {"finish", "usage"}
              /\ Whole(p)[Len(Whole(p))] = DoneFrame
          BY <2>1, WholeShape
        <5>2. Len(o) \in 1 .. Len(Whole(p)) - 1 \/ Len(o) = Len(Whole(p))
          BY <4>4, <5>1
        <5> QED BY <5>1, <5>2, ClosingFrames DEF DeltaKinds
      <4> QED BY <2>3, <4>4, <4>5, ClosingFrames DEF Failed
    <3> QED BY <3>3, <3>4
  <2>4. CASE FailedDone(p, o)
    <3>1. \A k \in 1 .. Len(o) - 2 : o[k].kind \notin ClosingKinds
      BY <1>1, <2>1, <2>4, LoopKinds DEF FailedDone
    <3>2. \A k \in 1 .. Len(o) - 1 : o[k].kind # "done"
      <4> SUFFICES ASSUME NEW k \in 1 .. Len(o) - 1 PROVE o[k].kind # "done"
        OBVIOUS
      <4>1. k \in 1 .. Len(o) - 2 \/ k = Len(o) - 1
        BY <1>1, <2>4 DEF FailedDone
      <4> QED BY <2>4, <3>1, <4>1, ClosingFrames DEF FailedDone, ClosingKinds
    <3>3. Sent(s, "done") \subseteq {Len(o)}
      BY <1>1, <3>2 DEF Sent
    <3>4. Sent(s, "done") # {}
      BY <1>1, <2>1, <2>4, ClosingFrames DEF FailedDone, Sent
    <3> QED BY <3>3, <3>4
  <2>5. Telling(p, o) \/ Failed(p, o) \/ FailedDone(p, o)
    <3>1. o = <<>> => Telling(p, o)
      <4>1. Len(Whole(p)) \in Nat
        BY <2>1, WholeShape
      <4> QED BY <4>1 DEF Telling, Tells
    <3> QED BY <1>3, <2>1, <3>1
            DEF Shape, InLoop, Complete, CutOff, TypeOK, Started
  <2> QED BY <2>2, <2>3, <2>4, <2>5
<1> QED BY <1>2, <1>3

\* DoneUnlessDropped: whatever the frames, the fault and its address, sse_stream
\* sends [DONE] once and last on every way out but a drop fault, which cuts the
\* stream before any finish frame.
THEOREM DoneEndsStreams == Spec => []DoneUnlessDropped
BY InitShaped, NextShaped, ShapesEnd, PTL DEF Spec

-----------------------------------------------------------------------------
(***************************************************************************)
(* Where faults strike.                                                    *)
(***************************************************************************)
LEMMA AfterFramesIsNat ==
  ASSUME NEW p \in Plans, NEW default \in Nat
  PROVE  AfterFrames(p.fault, default) \in Nat
BY PlanAssumption DEF AfterFrames

LEMMA AtStageFinite ==
  ASSUME NEW p \in Plans, NEW stage
  PROVE  AtStage(p, stage) \in SUBSET Nat /\ IsFiniteSet(AtStage(p, stage))
<1>1. Len(p.frames) \in Nat
  BY WholeShape
<1>2. IsFiniteSet(0 .. Len(p.frames) - 1)
  BY <1>1, FS_Interval
<1>3. AtStage(p, stage) \subseteq 0 .. Len(p.frames) - 1
  BY DEF AtStage
<1>4. IsFiniteSet(AtStage(p, stage))
  BY <1>2, <1>3, FS_Subset
<1> QED BY <1>1, <1>3, <1>4

LEMMA NthAtStageIsNth ==
  ASSUME NEW p \in Plans, NEW stage, NEW n \in Nat
  PROVE  LET i == NthAtStage(p, stage, n) IN
         \/ i = None /\ Cardinality(AtStage(p, stage)) <= n
         \/ i \in AtStage(p, stage) /\ Cardinality(Below(AtStage(p, stage), i)) = n
<1> DEFINE at == AtStage(p, stage)
           nth == {i \in at : Cardinality(Below(at, i)) = n}
<1>1. at \in SUBSET Nat /\ IsFiniteSet(at) /\ Cardinality(at) \in Nat
  BY AtStageFinite, FS_CardinalityType
<1>2. NthAtStage(p, stage, n) = IF nth = {} THEN None ELSE CHOOSE i \in nth : TRUE
  BY DEF NthAtStage, Below
<1> HIDE DEF at
<1>3. CASE nth = {}
  <2>1. ~(n < Cardinality(at))
    BY <1>1, <1>3, NthExists
  <2> QED BY <1>1, <1>2, <1>3, <2>1 DEF at
<1>4. CASE nth # {}
  <2>1. NthAtStage(p, stage, n) \in nth
    BY <1>2, <1>4
  <2> QED BY <2>1 DEF at
<1> QED BY <1>3, <1>4

\* The frames told so far that are at the stage are those below its index.
LEMMA ToldAtStage ==
  ASSUME NEW p \in Plans, NEW stage, NEW o, NEW n \in 0 .. Len(p.frames),
         Tells(p, o, n)
  PROVE  Cardinality({k \in 1 .. n : DeltaStage(o[k]) = stage})
           = Cardinality(Below(AtStage(p, stage), n))
<1> DEFINE told == {k \in 1 .. n : DeltaStage(o[k]) = stage}
           below == Below(AtStage(p, stage), n)
           f == [i \in below |-> i + 1]
<1>1. Len(p.frames) \in Nat
  BY WholeShape
<1>2. \A k \in 1 .. n : o[k] = p.frames[k]
  BY <1>1, WholeShape DEF Tells
<1>3. \A i \in below : i \in 0 .. n - 1 /\ i + 1 \in told
  BY <1>1, <1>2 DEF Below, AtStage
<1>4. \A k \in told : k - 1 \in below /\ (k - 1) + 1 = k
  BY <1>1, <1>2 DEF Below, AtStage
<1> HIDE DEF told, below
<1>5. f \in Bijection(below, told)
  <2>1. f \in Injection(below, told)
    BY <1>3 DEF Injection, IsInjective
  <2>2. f \in Surjection(below, told)
    BY <1>3, <1>4 DEF Surjection
  <2> QED BY <2>1, <2>2 DEF Bijection
<1>6. IsFiniteSet(below)
  BY AtStageFinite, FS_Subset DEF below, Below
<1>7. Cardinality(below) = Cardinality(told)
  <2> HIDE DEF f
  <2>1. ExistsBijection(below, told)
    BY <1>5 DEF ExistsBijection
  <2> QED BY <1>6, <2>1, FS_Bijection, FS_CardinalityType
<1> QED BY <1>7 DEF told, below

\* The trigger, read forwards: an index that is reached is in the place the
\* fault is addressed to.
LEMMA TriggerInPlace ==
  ASSUME NEW p \in Plans, NEW o, NEW n \in 0 .. Len(p.frames),
         FaultTrigger(p) = n, Tells(p, o, n)
  PROVE  \/ p.fault.stage = None /\ n = AfterFrames(p.fault, 2)
         \/ p.fault.stage = "terminal" /\ n = Len(p.frames)
         \/ /\ p.fault.stage \notin {None, "terminal"}
            /\ DeltaStage(p.frames[n + 1]) = p.fault.stage
            /\ Cardinality({k \in 1 .. n : DeltaStage(o[k]) = p.fault.stage})
                 = AfterFrames(p.fault, 0)
<1> DEFINE stage == p.fault.stage
<1>1. CASE stage = None
  BY <1>1 DEF FaultTrigger
<1>2. CASE stage # None /\ stage = "terminal"
  BY <1>2 DEF FaultTrigger
<1>3. CASE stage \notin {None, "terminal"}
  <2>1. n = NthAtStage(p, stage, AfterFrames(p.fault, 0)) /\ n # None
    BY <1>3, StreamsAssumption, WholeShape DEF FaultTrigger
  <2>2. n \in AtStage(p, stage)
        /\ Cardinality(Below(AtStage(p, stage), n)) = AfterFrames(p.fault, 0)
    BY <2>1, NthAtStageIsNth, AfterFramesIsNat
  <2>3. DeltaStage(p.frames[n + 1]) = stage
    BY <2>2 DEF AtStage
  <2> HIDE DEF stage
  <2>4. Cardinality({k \in 1 .. n : DeltaStage(o[k]) = stage})
          = Cardinality(Below(AtStage(p, stage), n))
    BY ToldAtStage
  <2> QED BY <1>3, <2>2, <2>3, <2>4 DEF stage
<1> QED BY <1>1, <1>2, <1>3

\* ... and one that is never reached has no place.
LEMMA TriggerMissing ==
  ASSUME NEW p \in Plans, \A k \in 0 .. Len(p.frames) : FaultTrigger(p) # k
  PROVE  HasNoPlace(p)
<1> DEFINE stage == p.fault.stage
<1>1. Len(p.frames) \in Nat /\ AfterFrames(p.fault, 2) \in Nat
      /\ AfterFrames(p.fault, 0) \in Nat
  BY WholeShape, AfterFramesIsNat
<1>2. CASE stage = None
  <2>1. FaultTrigger(p) = AfterFrames(p.fault, 2)
    BY <1>2 DEF FaultTrigger
  <2> QED BY <1>1, <1>2, <2>1 DEF HasNoPlace
<1>3. CASE stage # None /\ stage = "terminal"
  <2>1. FaultTrigger(p) = Len(p.frames)
    BY <1>3 DEF FaultTrigger
  <2> QED BY <1>1, <2>1
<1>4. CASE stage \notin {None, "terminal"}
  <2>1. FaultTrigger(p) = NthAtStage(p, stage, AfterFrames(p.fault, 0))
    BY <1>4 DEF FaultTrigger
  <2>2. AtStage(p, stage) \subseteq 0 .. Len(p.frames)
    BY <1>1 DEF AtStage
  <2>3. Cardinality(AtStage(p, stage)) <= AfterFrames(p.fault, 0)
    BY <1>1, <2>1, <2>2, NthAtStageIsNth
  <2> QED BY <1>4, <2>3 DEF HasNoPlace
<1> QED BY <1>2, <1>3, <1>4

\* What each shape holds of the closing frames.
LEMMA ErrorsTold ==
  ASSUME NEW p \in Plans, NEW o \in Seq(AllFrames)
  PROVE  LET errors == {k \in DOMAIN o : o[k].kind = "error"}
             dones == {k \in DOMAIN o : o[k].kind = "done"}
         IN /\ Telling(p, o) => errors = {}
            /\ Failed(p, o) => errors = {Len(o)} /\ dones = {}
            /\ FailedDone(p, o) => errors = {Len(o) - 1} /\ dones = {Len(o)}
<1> DEFINE errors == {k \in DOMAIN o : o[k].kind = "error"}
           dones == {k \in DOMAIN o : o[k].kind = "done"}
<1>0. Len(o) \in Nat
  OBVIOUS
<1>1. DOMAIN o = 1 .. Len(o) /\ Len(o) \in Nat /\ Len(p.frames) \in Nat
  BY WholeShape
<1>2. ASSUME Telling(p, o) PROVE errors = {}
  <2>1. /\ Len(Whole(p)) \in Nat
        /\ \A k \in 1 .. Len(Whole(p)) - 1 :
             Whole(p)[k].kind \in DeltaKinds \cup {"finish", "usage"}
        /\ Whole(p)[Len(Whole(p))].kind = "done"
    BY WholeShape, ClosingFrames
  <2> SUFFICES ASSUME NEW k \in 1 .. Len(o) PROVE o[k].kind # "error"
    BY <1>1
  <2>2. o[k] = Whole(p)[k] /\ k \in 1 .. Len(Whole(p))
    BY <1>1, <1>2, <2>1 DEF Telling, Tells
  <2>3. k \in 1 .. Len(Whole(p)) - 1 \/ k = Len(Whole(p))
    BY <2>1, <2>2
  <2> QED BY <2>1, <2>2, <2>3 DEF DeltaKinds
<1>3. ASSUME Failed(p, o) PROVE errors = {Len(o)} /\ dones = {}
  <2>1. \A k \in 1 .. Len(o) - 1 : o[k].kind \notin ClosingKinds
    BY <1>1, <1>3, LoopKinds DEF Failed
  <2>2. o[Len(o)].kind = "error" /\ Len(o) \in 1 .. Len(o)
    BY <1>1, <1>3, ClosingFrames DEF Failed
  <2>3. \A k \in 1 .. Len(o) : k \in 1 .. Len(o) - 1 \/ k = Len(o)
    BY <1>0
  <2>4. \A k \in 1 .. Len(o) :
          /\ o[k].kind = "error" <=> k = Len(o)
          /\ o[k].kind # "done"
    BY <2>1, <2>2, <2>3 DEF ClosingKinds
  <2> QED BY <1>1, <2>2, <2>4
<1>4. ASSUME FailedDone(p, o) PROVE errors = {Len(o) - 1} /\ dones = {Len(o)}
  <2>1. \A k \in 1 .. Len(o) - 2 : o[k].kind \notin ClosingKinds
    BY <1>1, <1>4, LoopKinds DEF FailedDone
  <2>2. /\ o[Len(o)].kind = "done" /\ Len(o) \in 1 .. Len(o)
        /\ o[Len(o) - 1].kind = "error" /\ Len(o) - 1 \in 1 .. Len(o)
    BY <1>1, <1>4, ClosingFrames DEF FailedDone
  <2>3. \A k \in 1 .. Len(o) :
          k \in 1 .. Len(o) - 2 \/ k = Len(o) - 1 \/ k = Len(o)
    BY <1>0
  <2>4. \A k \in 1 .. Len(o) :
          /\ o[k].kind = "error" <=> k = Len(o) - 1
          /\ o[k].kind = "done" <=> k = Len(o)
    BY <2>1, <2>2, <2>3 DEF ClosingKinds
  <2> QED BY <1>1, <2>2, <2>4
<1> QED BY <1>2, <1>3, <1>4

LEMMA FaultsFromShapes == TypeOK /\ Shaped => FaultsStrikeTheirStage
<1> SUFFICES ASSUME TypeOK, Shaped, NEW s \in Streams
             PROVE  /\ Struck(s) => StruckInPlace(s)
                    /\ /\ pc[s] \in Started /\ fires[s]
                       /\ plan[s].fault.kind \in {"drop", "sse_error"}
                       /\ Sent(s, "finish") # {}
                       => HasNoPlace(plan[s])
  BY DEF FaultsStrikeTheirStage
<1> DEFINE p == plan[s]
           o == out[s]
<1>1. /\ o \in Seq(AllFrames) /\ Len(o) \in Nat /\ DOMAIN o = 1 .. Len(o)
  <2>1. o \in Seq(AllFrames)
    BY DEF TypeOK, AllFrames
  <2> HIDE DEF o
  <2> QED BY <2>1
<1>2. CASE pc[s] \in {"new", "refused"}
  <2>1. Sent(s, "error") = {}
    BY <1>2 DEF Shaped, Sent
  <2> QED BY <1>2, <2>1 DEF Struck, Started
<1>3. CASE pc[s] \notin {"new", "refused"}
  <2>1. p \in Plans /\ Shape(p, pc[s], fires[s], o) /\ Len(p.frames) \in Nat
    <3>1. p # None
      BY <1>3 DEF TypeOK
    <3>2. p \in Plans /\ Shape(p, pc[s], fires[s], o)
      BY <3>1 DEF TypeOK, Shaped
    <3> QED BY <3>2, WholeShape
  <2>2. /\ Telling(p, o) => Sent(s, "error") = {}
        /\ Failed(p, o) => Sent(s, "error") = {Len(o)} /\ Sent(s, "done") = {}
        /\ FailedDone(p, o) => /\ Sent(s, "error") = {Len(o) - 1}
                               /\ Sent(s, "done") = {Len(o)}
    BY <1>1, <2>1, ErrorsTold DEF Sent
  <2>3. ASSUME Struck(s) PROVE StruckInPlace(s)
    <3> DEFINE n == FramesBefore(s)
    <3>1. Failed(p, o) \/ FailedDone(p, o) \/ CutOff(p, fires[s], o)
      <4>1. Telling(p, o) \/ Failed(p, o) \/ FailedDone(p, o)
        <5>1. o = <<>> => Telling(p, o)
          <6>1. Len(Whole(p)) \in Nat
            BY <2>1, WholeShape
          <6> QED BY <6>1 DEF Telling, Tells
        <5> QED BY <1>3, <2>1, <5>1
                DEF Shape, InLoop, Complete, CutOff, TypeOK, Started
      <4>2. CASE Sent(s, "error") # {}
        BY <2>2, <4>1, <4>2
      <4>3. CASE pc[s] = "ended" /\ Sent(s, "done") = {}
        <5>1. Complete(p, o) \/ FailedDone(p, o) \/ CutOff(p, fires[s], o)
          BY <2>1, <4>3 DEF Shape
        <5>2. ASSUME Complete(p, o) PROVE Sent(s, "done") # {}
          <6>1. /\ Len(Whole(p)) \in Nat /\ Len(Whole(p)) > Len(p.frames)
                /\ Whole(p)[Len(Whole(p))] = DoneFrame
            BY <2>1, WholeShape
          <6>2. Len(o) \in 1 .. Len(o) /\ o[Len(o)] = DoneFrame
            BY <1>1, <2>1, <5>2, <6>1 DEF Complete, Telling, Tells
          <6> QED BY <1>1, <6>2, ClosingFrames DEF Sent
        <5> QED BY <4>3, <5>1, <5>2
      <4> QED BY <2>3, <4>2, <4>3 DEF Struck
    <3>2. n \in 0 .. Len(p.frames) /\ FaultTrigger(p) = n /\ Tells(p, o, n)
      <4>1. CASE Failed(p, o)
        <5>1. n = Len(o) - 1
          <6>1. Cardinality(Sent(s, "error")) = 1
            BY <2>2, <4>1, FS_Singleton
          <6>2. Cardinality(Sent(s, "done")) = 0
            BY <2>2, <4>1, FS_EmptySet
          <6>3. FramesBefore(s) = Len(o) - 1 - 0
            BY <2>2, <4>1, <6>1, <6>2 DEF FramesBefore
          <6> QED BY <1>1, <6>3
        <5> QED BY <1>1, <2>1, <4>1, <5>1 DEF Failed
      <4>2. CASE FailedDone(p, o)
        <5>1. n = Len(o) - 2
          <6>1. Cardinality(Sent(s, "error")) = 1 /\ Cardinality(Sent(s, "done")) = 1
            BY <2>2, <4>2, FS_Singleton
          <6>2. FramesBefore(s) = Len(o) - 1 - 1
            BY <2>2, <4>2, <6>1 DEF FramesBefore
          <6> QED BY <1>1, <6>2
        <5> QED BY <1>1, <2>1, <4>2, <5>1 DEF FailedDone
      <4>3. CASE CutOff(p, fires[s], o)
        <5>1. n = Len(o)
          <6>1. Sent(s, "error") = {}
            BY <2>2, <4>3 DEF CutOff, InLoop
          <6>2. FramesBefore(s) = Len(o) - 0 - 0
            BY <6>1, FS_EmptySet DEF FramesBefore
          <6> QED BY <1>1, <6>2
        <5> QED BY <1>1, <2>1, <4>3, <5>1 DEF CutOff, InLoop, Telling
      <4> QED BY <3>1, <4>1, <4>2, <4>3
    <3> HIDE DEF n
    <3>3. \/ p.fault.stage = None /\ n = AfterFrames(p.fault, 2)
          \/ p.fault.stage = "terminal" /\ n = Len(p.frames)
          \/ /\ p.fault.stage \notin {None, "terminal"}
             /\ DeltaStage(p.frames[n + 1]) = p.fault.stage
             /\ Cardinality({k \in 1 .. n : DeltaStage(o[k]) = p.fault.stage})
                  = AfterFrames(p.fault, 0)
      BY <2>1, <3>2, TriggerInPlace
    <3> QED BY <3>3 DEF StruckInPlace, n
  <2>4. ASSUME pc[s] \in Started, fires[s], p.fault.kind \in {"drop", "sse_error"},
               Sent(s, "finish") # {}
        PROVE  HasNoPlace(p)
    <3>1. PICK k \in 1 .. Len(o) : o[k].kind = "finish"
      BY <1>1, <2>4 DEF Sent
    <3>2. ~Failed(p, o) /\ ~FailedDone(p, o)
      <4>1. ~Failed(p, o)
        <5> SUFFICES ASSUME Failed(p, o) PROVE FALSE
          OBVIOUS
        <5>1. k \in 1 .. Len(o) - 1
          BY <1>1, <3>1, ClosingFrames DEF Failed
        <5> QED BY <1>1, <2>1, <3>1, <5>1, LoopKinds DEF Failed, ClosingKinds
      <4>2. ~FailedDone(p, o)
        <5> SUFFICES ASSUME FailedDone(p, o) PROVE FALSE
          OBVIOUS
        <5>1. k # Len(o) /\ k # Len(o) - 1
          BY <1>1, <3>1, ClosingFrames DEF FailedDone
        <5>2. k \in 1 .. Len(o) - 2
          BY <1>1, <5>1
        <5>3. Len(o) - 2 \in Nat /\ Len(o) - 2 <= Len(p.frames)
              /\ Tells(p, o, Len(o) - 2)
          BY <1>1, <2>1 DEF FailedDone
        <5> QED BY <2>1, <3>1, <5>2, <5>3, LoopKinds DEF ClosingKinds
      <4> QED BY <4>1, <4>2
    <3>3. ~InLoop(p, o)
      <4> SUFFICES ASSUME InLoop(p, o) PROVE FALSE
        OBVIOUS
      <4> QED BY <1>1, <2>1, <3>1, LoopKinds DEF InLoop, Telling, ClosingKinds
    <3>4. o # <<>>
      BY <3>1
    <3>5. pc[s] = "yield" /\ Telling(p, o) /\ Passed(p, fires[s], Len(o))
      BY <2>1, <2>4, <3>2, <3>3, <3>4 DEF Shape, Started
    <3>6. Len(o) > Len(p.frames)
      BY <1>1, <2>1, <3>3, <3>5 DEF InLoop
    <3>7. \A i \in 0 .. Len(p.frames) : FaultTrigger(p) # i
      BY <1>1, <2>1, <2>4, <3>5, <3>6 DEF Passed
    <3> QED BY <2>1, <3>7, TriggerMissing
  <2> QED BY <2>3, <2>4
<1> QED BY <1>2, <1>3

\* FaultsStrikeTheirStage: for any fault at any address, sse_stream cuts or
\* fails a stream after exactly the frames that the fault's stage and count
\* name, told as the client saw them; and when it fires and a choice still
\* finishes, the main loop has no such place (fault_trigger_index).
THEOREM FaultsStrikeInPlace == Spec => []FaultsStrikeTheirStage
BY InitShaped, NextShaped, FaultsFromShapes, PTL DEF Spec

-----------------------------------------------------------------------------
(***************************************************************************)
(* The generator implements an event stream.                               *)
(***************************************************************************)
Failures(p) == AbstractStream!Failures(ScriptOf(p))

\* The failure after n frames, frame by frame.
LEMMA FailureTranscript ==
  ASSUME NEW p \in Plans, NEW n \in 0 .. Len(p.frames)
  PROVE  LET t == SubSeq(Whole(p), 1, n) \o <<ErrorFrame, DoneFrame>>
         IN /\ t \in Failures(p) /\ t \in Seq(AllFrames) /\ Len(t) = n + 2
            /\ \A k \in 1 .. n : t[k] = Whole(p)[k]
            /\ t[n + 1] = ErrorFrame /\ t[n + 2] = DoneFrame
<1> DEFINE w == Whole(p)
           told == SubSeq(w, 1, n)
           end == <<ErrorFrame, DoneFrame>>
<1>1. w \in Seq(AllFrames) /\ Len(w) \in Nat /\ n \in Nat /\ n <= Len(w)
      /\ Len(p.frames) \in Nat
  BY WholeShape
<1>2. told \o end \in Failures(p)
  BY DEF Failures, AbstractStream!Failures, ScriptOf
<1>3. /\ end \in Seq(AllFrames) /\ Len(end) = 2
      /\ end[1] = ErrorFrame /\ end[2] = DoneFrame
  <2>1. ErrorFrame \in AllFrames /\ DoneFrame \in AllFrames
    BY DEF ErrorFrame, DoneFrame, Frame, AllFrames, Frames, ClosingKinds
  <2> QED BY <2>1
<1>4. /\ told \in Seq(AllFrames) /\ Len(told) = n
      /\ \A k \in 1 .. n : told[k] = w[k]
  <2> HIDE DEF w
  <2>1. \A k \in 1 .. n : w[k] \in AllFrames
    BY <1>1
  <2>2. n - 1 + 1 = n /\ (IF 1 <= n THEN n - 1 + 1 ELSE 0) = n
        /\ \A k \in 1 .. n : 1 + k - 1 = k
    BY <1>1
  <2> QED BY <1>1, <2>1, <2>2, SubSeqProperties
<1> HIDE DEF told, end, w
<1>5. /\ told \o end \in Seq(AllFrames) /\ Len(told \o end) = n + 2
      /\ \A k \in 1 .. n + 2 :
           (told \o end)[k] = IF k <= n THEN told[k] ELSE end[k - n]
  <2>1. /\ told \o end \in Seq(AllFrames) /\ Len(told \o end) = Len(told) + Len(end)
        /\ \A k \in 1 .. Len(told) + Len(end) :
             (told \o end)[k] = IF k <= Len(told) THEN told[k] ELSE end[k - Len(told)]
    BY <1>3, <1>4, ConcatProperties
  <2> QED BY <1>3, <1>4, <2>1
<1>6. \A k \in 1 .. n : (told \o end)[k] = w[k]
  BY <1>1, <1>4, <1>5
<1>7. (told \o end)[n + 1] = end[1] /\ (told \o end)[n + 2] = end[2]
  <2>1. /\ n + 1 \in 1 .. n + 2 /\ ~(n + 1 <= n) /\ (n + 1) - n = 1
        /\ n + 2 \in 1 .. n + 2 /\ ~(n + 2 <= n) /\ (n + 2) - n = 2
    BY <1>1
  <2> QED BY <1>5, <2>1
<1> QED BY <1>2, <1>3, <1>5, <1>6, <1>7 DEF told, end, w

\* What was sent is the start of a transcript, and all of a failure once it is
\* followed by [DONE].
LEMMA SentTranscript ==
  ASSUME NEW p \in Plans, NEW o \in Seq(AllFrames)
  PROVE  /\ Telling(p, o) => IsPrefix(o, Whole(p))
         /\ Failed(p, o) => \E t \in Failures(p) : t \in Seq(AllFrames) /\ IsPrefix(o, t)
         /\ FailedDone(p, o) => o \in Failures(p)
<1>1. Len(o) \in Nat /\ Len(p.frames) \in Nat /\ Whole(p) \in Seq(AllFrames)
  BY WholeShape
<1>2. ASSUME Telling(p, o) PROVE IsPrefix(o, Whole(p))
  <2> DEFINE w == Whole(p)
  <2>1. w \in Seq(AllFrames) /\ Len(o) <= Len(w) /\ \A k \in 1 .. Len(o) : o[k] = w[k]
    BY <1>1, <1>2 DEF Telling, Tells
  <2> HIDE DEF w
  <2>2. IsPrefix(o, w)
    BY <2>1, PrefixByElements
  <2> QED BY <2>2 DEF w
<1>3. ASSUME Failed(p, o)
      PROVE  \E t \in Failures(p) : t \in Seq(AllFrames) /\ IsPrefix(o, t)
  <2> DEFINE n == Len(o) - 1
  <2>1. n \in 0 .. Len(p.frames) /\ Len(o) = n + 1 /\ n \in Nat
    BY <1>1, <1>3 DEF Failed
  <2>2. o[n + 1] = ErrorFrame /\ \A k \in 1 .. n : o[k] = Whole(p)[k]
    BY <2>1, <1>3 DEF Failed, Tells
  <2> HIDE DEF n
  <2>3. PICK t \in Failures(p) :
               /\ t \in Seq(AllFrames) /\ Len(t) = n + 2
               /\ \A k \in 1 .. n : t[k] = Whole(p)[k]
               /\ t[n + 1] = ErrorFrame
    BY <2>1, FailureTranscript
  <2>4. \A k \in 1 .. n + 1 : k \in 1 .. n \/ k = n + 1
    BY <2>1
  <2>5. Len(o) <= Len(t) /\ \A k \in 1 .. Len(o) : o[k] = t[k]
    BY <2>1, <2>2, <2>3, <2>4
  <2>6. IsPrefix(o, t)
    BY <2>3, <2>5, PrefixByElements
  <2> QED BY <2>3, <2>6
<1>4. ASSUME FailedDone(p, o) PROVE o \in Failures(p)
  <2> DEFINE n == Len(o) - 2
  <2>1. n \in 0 .. Len(p.frames) /\ Len(o) = n + 2 /\ n \in Nat /\ Len(o) - 1 = n + 1
    BY <1>1, <1>4 DEF FailedDone
  <2>2. /\ o[n + 1] = ErrorFrame /\ o[n + 2] = DoneFrame
        /\ \A k \in 1 .. n : o[k] = Whole(p)[k]
    BY <2>1, <1>4 DEF FailedDone, Tells
  <2> HIDE DEF n
  <2>3. PICK t \in Failures(p) :
               /\ t \in Seq(AllFrames) /\ Len(t) = n + 2
               /\ \A k \in 1 .. n : t[k] = Whole(p)[k]
               /\ t[n + 1] = ErrorFrame /\ t[n + 2] = DoneFrame
    BY <2>1, FailureTranscript
  <2>4. \A k \in 1 .. n + 2 : k \in 1 .. n \/ k = n + 1 \/ k = n + 2
    BY <2>1
  <2>5. \A k \in 1 .. Len(o) : o[k] = t[k]
    BY <2>1, <2>2, <2>3, <2>4
  <2>6. o = t
    BY <2>1, <2>3, <2>5, SeqEqual
  <2> QED BY <2>3, <2>6
<1> QED BY <1>2, <1>3, <1>4

\* A stream that is open goes from one state to the next.
LEMMA OpenStreamStep ==
  ASSUME NEW s \in Streams, NEW p \in Plans, plan[s] = p, UNCHANGED plan,
         out \in [Streams -> Seq(AllFrames)],
         Status(s) = "open",
         NEW where \in Started \cup {"ended"}, NEW o, Moves(s, where, o),
         Good(p, where, fires'[s], o),
         \A u \in Streams : u # s => Status(u)' = Status(u),
         where # "ended" => Status(s)' = "open",
         where = "ended" => /\ Complete(p, o) => Status(s)' = "complete"
                            /\ FailedDone(p, o) => Status(s)' = "failed"
                            /\ CutOff(p, fires'[s], o) => Status(s)' = "cut"
  PROVE  [AbstractStream!Next]_(AbstractStream!vars)
<1> DEFINE status == [u \in Streams |-> Status(u)]
           script == [u \in Streams |-> IF plan[u] = None THEN None ELSE ScriptOf(plan[u])]
<1>1. /\ o \in Seq(AllFrames) /\ Shape(p, where, fires'[s], o)
      /\ out' = [out EXCEPT ![s] = o] /\ out[s] \in Seq(AllFrames)
  BY DEF Good, Moves
<1>2. p # None /\ Whole(p) \in Seq(AllFrames)
  BY StreamsAssumption, WholeShape
<1>6. /\ script' = script /\ script[s] = ScriptOf(p)
      /\ ScriptOf(p).whole = Whole(p) /\ ScriptOf(p).body = Len(p.frames)
  BY <1>2 DEF ScriptOf
<1>3. CASE o = out[s] /\ where # "ended"
  <2>1. status' = status /\ out' = out
    BY <1>1, <1>3
  <2> QED BY <2>1 DEF AbstractStream!vars
<1>4. CASE where = "ended"
  <2>1. out' = out
    BY <1>1, <1>4 DEF Moves
  <2>2. PICK end \in {"complete", "failed", "cut"} :
               status' = [status EXCEPT ![s] = end] /\ AbstractStream!MayEnd(s, end)
    <3>1. o = out[s]
      BY <1>4 DEF Moves
    <3>2. CASE Complete(p, o)
      <4>1. o = Whole(p)
        <5> DEFINE w == Whole(p)
        <5>1. Len(o) = Len(w) /\ (\A k \in 1 .. Len(o) : o[k] = w[k]) /\ w \in Seq(AllFrames)
          BY <1>2, <3>2 DEF Complete, Telling, Tells
        <5> HIDE DEF w
        <5>2. o = w
          BY <1>1, <5>1, SeqEqual
        <5> QED BY <5>2 DEF w
      <4>2. AbstractStream!MayEnd(s, "complete")
        BY <1>2, <3>1, <4>1 DEF AbstractStream!MayEnd, ScriptOf
      <4>3. status' = [status EXCEPT ![s] = "complete"]
        BY <1>4, <3>2
      <4> QED BY <4>2, <4>3
    <3>3. CASE FailedDone(p, o)
      <4>1. AbstractStream!MayEnd(s, "failed")
        <5>1. o \in AbstractStream!Failures(ScriptOf(p))
          BY <1>1, <3>3, SentTranscript DEF Failures
        <5> QED BY <1>2, <3>1, <5>1 DEF AbstractStream!MayEnd
      <4>2. status' = [status EXCEPT ![s] = "failed"]
        BY <1>4, <3>3
      <4> QED BY <4>1, <4>2
    <3>4. CASE CutOff(p, fires'[s], o)
      <4>1. IsPrefix(o, Whole(p)) /\ Len(o) <= Len(p.frames)
        BY <1>1, <3>4, SentTranscript DEF CutOff, InLoop
      <4>2. AbstractStream!MayEnd(s, "cut")
        BY <1>6, <3>1, <4>1 DEF AbstractStream!MayEnd, AbstractStream!IsPrefix, IsPrefix
      <4>3. status' = [status EXCEPT ![s] = "cut"]
        BY <1>4, <3>4
      <4> QED BY <4>2, <4>3
    <3> QED BY <1>1, <1>4, <3>2, <3>3, <3>4 DEF Shape
  <2>3. AbstractStream!End(s)
    BY <2>1, <2>2 DEF AbstractStream!End
  <2> QED BY <2>3 DEF AbstractStream!Next
<1>5. CASE where # "ended" /\ o # out[s]
  <2>1. PICK frame \in AllFrames : o = Append(out[s], frame)
    BY <1>5 DEF Moves
  <2>2. PICK t \in {Whole(p)} \cup Failures(p) : t \in Seq(AllFrames) /\ IsPrefix(o, t)
    <3>1. Telling(p, o) \/ Failed(p, o) \/ FailedDone(p, o)
      <4>1. o # <<>>
        BY <1>1, <2>1, AppendProperties
      <4> QED BY <1>1, <1>5, <4>1 DEF Shape, InLoop, Started
    <3>2. CASE Telling(p, o)
      BY <1>1, <1>2, <3>2, SentTranscript
    <3>3. CASE Failed(p, o)
      BY <1>1, <3>3, SentTranscript
    <3>4. CASE FailedDone(p, o)
      <4>1. o \in Failures(p)
        BY <1>1, <3>4, SentTranscript
      <4>2. IsPrefix(o, o)
        BY <1>1, PrefixByElements
      <4> QED BY <1>1, <4>1, <4>2
    <3> QED BY <3>1, <3>2, <3>3, <3>4
  <2>3. IsStrictPrefix(out[s], t) /\ o = SubSeq(t, 1, Len(out[s]) + 1)
    BY <1>1, <2>1, <2>2, GrownPrefix
  <2>4. status[s] = "open" /\ status' = status
    BY <1>5
  <2>5. AbstractStream!Send(s)
    <3>1. t \in {script[s].whole} \cup AbstractStream!Failures(script[s])
      BY <1>6, <2>2 DEF Failures
    <3>2. out' = [out EXCEPT ![s] = SubSeq(t, 1, Len(@) + 1)]
      BY <1>1, <2>3
    <3>3. AbstractStream!IsStrictPrefix(out[s], t)
      BY <2>3 DEF AbstractStream!IsStrictPrefix, AbstractStream!IsPrefix,
                  IsStrictPrefix, IsPrefix
    <3> QED BY <1>6, <2>4, <3>1, <3>2, <3>3 DEF AbstractStream!Send
  <2> QED BY <2>5 DEF AbstractStream!Next
<1> QED BY <1>3, <1>4, <1>5

\* How an ended stream is told from what it sent.
EndsAreTold ==
  \A s \in Streams : \A p \in Plans : pc[s] = "ended" =>
    /\ Complete(p, out[s]) => Status(s) = "complete"
    /\ FailedDone(p, out[s]) => Status(s) = "failed"
    /\ CutOff(p, fires[s], out[s]) => Status(s) = "cut"

LEMMA EndStatus == TypeOK => EndsAreTold
<1> SUFFICES ASSUME TypeOK, NEW s \in Streams, NEW p \in Plans, pc[s] = "ended"
             PROVE  /\ Complete(p, out[s]) => Status(s) = "complete"
                    /\ FailedDone(p, out[s]) => Status(s) = "failed"
                    /\ CutOff(p, fires[s], out[s]) => Status(s) = "cut"
  BY DEF EndsAreTold
<1> DEFINE o == out[s]
<1>1. o \in Seq(AllFrames) /\ Len(o) \in Nat /\ DOMAIN o = 1 .. Len(o)
  <2>1. o \in Seq(AllFrames)
    BY DEF TypeOK, AllFrames
  <2> HIDE DEF o
  <2> QED BY <2>1
<1>2. /\ Telling(p, o) => Sent(s, "error") = {}
      /\ FailedDone(p, o) => Sent(s, "error") # {}
  BY <1>1, ErrorsTold DEF Sent
<1>3. ASSUME Complete(p, o) PROVE Sent(s, "done") # {}
  <2>1. /\ Len(Whole(p)) \in Nat /\ Len(Whole(p)) > Len(p.frames)
        /\ Len(p.frames) \in Nat /\ Whole(p)[Len(Whole(p))] = DoneFrame
    BY WholeShape
  <2>2. Len(o) \in 1 .. Len(o) /\ o[Len(o)] = DoneFrame
    BY <1>1, <1>3, <2>1 DEF Complete, Telling, Tells
  <2> QED BY <1>1, <2>2, ClosingFrames DEF Sent
<1>4. ASSUME CutOff(p, fires[s], o) PROVE Sent(s, "done") = {}
  <2>1. Tells(p, o, Len(o)) /\ Len(o) <= Len(p.frames)
    BY <1>4 DEF CutOff, InLoop, Telling
  <2>2. \A k \in 1 .. Len(o) : o[k].kind \notin ClosingKinds
    BY <1>1, <2>1, LoopKinds
  <2> QED BY <1>1, <2>2 DEF Sent, ClosingKinds
<1> HIDE DEF o
<1>5. Complete(p, o) => Status(s) = "complete"
  BY <1>2, <1>3 DEF Status, Started, Complete
<1>6. FailedDone(p, o) => Status(s) = "failed"
  BY <1>2 DEF Status, Started
<1>7. CutOff(p, fires[s], o) => Status(s) = "cut"
  BY <1>2, <1>4 DEF Status, Started, CutOff, InLoop
<1> QED BY <1>5, <1>6, <1>7 DEF o

LEMMA InitRefines == Init => AbstractStream!Init
BY DEF Init, AbstractStream!Init, Status, Started

LEMMA NextRefines ==
  TypeOK /\ Shaped /\ [Next]_vars /\ EndsAreTold'
    => [AbstractStream!Next]_(AbstractStream!vars)
<1> SUFFICES ASSUME TypeOK, Shaped, [Next]_vars, EndsAreTold'
             PROVE  [AbstractStream!Next]_(AbstractStream!vars)
  OBVIOUS
<1> DEFINE status == [u \in Streams |-> Status(u)]
           script == [u \in Streams |-> IF plan[u] = None THEN None ELSE ScriptOf(plan[u])]
<1>1. ASSUME NEW s \in Streams, NEW p \in Plans, pc[s] = "new", UNCHANGED out,
             plan' = [plan EXCEPT ![s] = p],
             NEW where \in {"refused", "created"}, pc' = [pc EXCEPT ![s] = where]
      PROVE  AbstractStream!Next
  <2>1. p # None
    BY StreamsAssumption
  <2>2. script' = [script EXCEPT ![s] = ScriptOf(p)]
    BY <1>1, <2>1 DEF TypeOK
  <2>3. status' = [status EXCEPT ![s] = IF where = "refused" THEN "refused" ELSE "open"]
    <3>1. Status(s)' = IF where = "refused" THEN "refused" ELSE "open"
      BY <1>1 DEF TypeOK, Status, Started
    <3>2. \A u \in Streams : u # s => Status(u)' = Status(u)
      BY <1>1 DEF TypeOK, Status, Sent
    <3> QED BY <3>1, <3>2
  <2>4. status[s] = "new"
    BY <1>1 DEF Status, Started
  <2>5. CASE where = "refused"
    <3>1. AbstractStream!Refuse(s)
      BY <1>1, <2>2, <2>3, <2>4, <2>5 DEF AbstractStream!Refuse
    <3> QED BY <3>1 DEF AbstractStream!Next
  <2>6. CASE where = "created"
    <3>1. AbstractStream!Open(s)
      BY <1>1, <2>2, <2>3, <2>4, <2>6 DEF AbstractStream!Open
    <3> QED BY <3>1 DEF AbstractStream!Next
  <2> QED BY <2>5, <2>6
<1>2. ASSUME NEW s \in Streams, HttpError(s) \/ OpenStream(s) PROVE AbstractStream!Next
  <2>1. PICK p \in Plans : plan' = [plan EXCEPT ![s] = p]
    BY <1>2 DEF HttpError, OpenStream
  <2>2. pc[s] = "new" /\ UNCHANGED out
    BY <1>2 DEF HttpError, OpenStream
  <2>3. PICK where \in {"refused", "created"} : pc' = [pc EXCEPT ![s] = where]
    BY <1>2 DEF HttpError, OpenStream
  <2> QED BY <1>1, <2>1, <2>2, <2>3
<1>3. ASSUME NEW s \in Streams, Poll(s)
      PROVE  [AbstractStream!Next]_(AbstractStream!vars)
  <2>1. /\ pc[s] \in Started \cup {"created"}
        /\ plan[s] \in Plans /\ UNCHANGED plan
    BY <1>3, PollShape
  <2>2. PICK where, o : Moves(s, where, o) /\ Good(plan[s], where, fires'[s], o)
    BY <1>3, PollShape
  <2>3. where \in Started \cup {"ended"}
    BY <2>2 DEF Good
  <2>4. out \in [Streams -> Seq(AllFrames)]
    BY DEF TypeOK, AllFrames
  <2>5. /\ pc'[s] = where /\ out'[s] = o
        /\ \A u \in Streams : u # s => pc'[u] = pc[u] /\ out'[u] = out[u]
    BY <2>2 DEF Moves, TypeOK
  <2>6. Status(s) = "open"
    BY <2>1 DEF Status, Started
  <2>7. \A u \in Streams : u # s => Status(u)' = Status(u)
    BY <2>5 DEF Status, Sent
  <2>8. where # "ended" => Status(s)' = "open"
    BY <2>3, <2>5 DEF Status
  <2>9. where = "ended" => /\ Complete(plan[s], o) => Status(s)' = "complete"
                           /\ FailedDone(plan[s], o) => Status(s)' = "failed"
                           /\ CutOff(plan[s], fires'[s], o) => Status(s)' = "cut"
    <3>1. PICK p \in Plans : p = plan[s]
      BY <2>1
    <3>2. pc'[s] = "ended" => /\ Complete(p, out'[s]) => Status(s)' = "complete"
                              /\ FailedDone(p, out'[s]) => Status(s)' = "failed"
                              /\ CutOff(p, fires'[s], out'[s]) => Status(s)' = "cut"
      BY DEF EndsAreTold
    <3> QED BY <2>5, <3>1, <3>2
  <2> QED BY <2>1, <2>2, <2>3, <2>4, <2>6, <2>7, <2>8, <2>9, OpenStreamStep
<1>4. ASSUME NEW s \in Streams, Drop(s) PROVE AbstractStream!Next
  <2>1. /\ pc[s] \in Started \cup {"created"} /\ pc' = [pc EXCEPT ![s] = "dropped"]
        /\ UNCHANGED <<plan, fires, out>>
    BY <1>4 DEF Drop
  <2>2. script' = script /\ status[s] = "open"
    BY <2>1 DEF Status, Started
  <2>3. status' = [status EXCEPT ![s] = "dropped"]
    <3>1. Status(s)' = "dropped"
      BY <2>1 DEF TypeOK, Status, Started
    <3>2. \A u \in Streams : u # s => Status(u)' = Status(u)
      BY <2>1 DEF TypeOK, Status, Sent
    <3> QED BY <3>1, <3>2
  <2>4. AbstractStream!MayEnd(s, "dropped")
    BY DEF AbstractStream!MayEnd
  <2>5. AbstractStream!End(s)
    BY <2>1, <2>2, <2>3, <2>4 DEF AbstractStream!End
  <2> QED BY <2>5 DEF AbstractStream!Next
<1>5. CASE UNCHANGED vars
  <2>1. script' = script /\ UNCHANGED out
    BY <1>5 DEF vars
  <2>2. status' = status
    BY <1>5 DEF vars, Status, Sent
  <2> QED BY <2>1, <2>2 DEF AbstractStream!vars
<1> QED BY <1>2, <1>3, <1>4, <1>5 DEF Next

\* ImplementsEventStream: whatever the frames, the pacing, the fault and the
\* client, sse_stream sends one of the transcripts of the completion from its
\* start, each frame once and in order, and ends it as EventStream allows.
THEOREM ChatStreamsAreEventStreams == Spec => ImplementsEventStream
<1>1. Init => AbstractStream!Init
  BY InitRefines
<1>2. TypeOK /\ Shaped /\ [Next]_vars /\ EndsAreTold'
        => [AbstractStream!Next]_(AbstractStream!vars)
  BY NextRefines
<1> QED BY <1>1, <1>2, InitShaped, NextShaped, EndStatus, PTL
        DEF Spec, ImplementsEventStream, AbstractStream!Spec

-----------------------------------------------------------------------------
(***************************************************************************)
(* What a client assembles.  Rows of elements that take turns: by rounds,  *)
(* and by rows within a round.                                             *)
(***************************************************************************)
LEMMA RoundsBound ==
  ASSUME NEW A, NEW rows \in Seq(Seq(A))
  PROVE  /\ Max({0} \cup {Len(rows[row]) : row \in DOMAIN rows}) \in Nat
         /\ \A row \in 1 .. Len(rows) :
              Len(rows[row]) <= Max({0} \cup {Len(rows[i]) : i \in DOMAIN rows})
<1> DEFINE lengths == {0} \cup {Len(rows[row]) : row \in DOMAIN rows}
           T == {n \in Nat : n <= Len(rows) =>
                   \E b \in Nat : \A row \in 1 .. n : Len(rows[row]) <= b}
<1>1. Len(rows) \in Nat /\ DOMAIN rows = 1 .. Len(rows)
      /\ \A row \in 1 .. Len(rows) : Len(rows[row]) \in Nat
  OBVIOUS
<1>2. 0 \in T
  OBVIOUS
<1>3. ASSUME NEW n \in Nat, n \in T PROVE n + 1 \in T
  <2> SUFFICES ASSUME n + 1 <= Len(rows)
               PROVE  \E b \in Nat : \A row \in 1 .. n + 1 : Len(rows[row]) <= b
    OBVIOUS
  <2>1. PICK b \in Nat : \A row \in 1 .. n : Len(rows[row]) <= b
    BY <1>1, <1>3
  <2> DEFINE c == Len(rows[n + 1])
  <2>2. c \in Nat /\ \A row \in 1 .. n + 1 : row \in 1 .. n \/ row = n + 1
    BY <1>1
  <2>3. \A row \in 1 .. n : Len(rows[row]) \in Nat
    BY <1>1
  <2>4. \A row \in 1 .. n + 1 : Len(rows[row]) <= b + c
    <3> SUFFICES ASSUME NEW row \in 1 .. n + 1 PROVE Len(rows[row]) <= b + c
      OBVIOUS
    <3>1. CASE row = n + 1
      <4>1. Len(rows[row]) = c
        BY <3>1
      <4> HIDE DEF c
      <4> QED BY <2>2, <4>1
    <3>2. CASE row \in 1 .. n
      <4> DEFINE d == Len(rows[row])
      <4>1. d \in Nat /\ d <= b
        BY <2>1, <2>3, <3>2
      <4> HIDE DEF c, d
      <4>2. d <= b + c
        BY <2>2, <4>1
      <4> QED BY <4>2 DEF d
    <3> QED BY <2>2, <3>1, <3>2
  <2>5. b + c \in Nat
    BY <2>2
  <2> HIDE DEF c
  <2> QED BY <2>4, <2>5
<1> HIDE DEF T
<1>4. Len(rows) \in T
  BY <1>1, <1>2, <1>3, SetInduction
<1>5. PICK b \in Nat : \A row \in 1 .. Len(rows) : Len(rows[row]) <= b
  BY <1>1, <1>4 DEF T
<1>6. lengths \in SUBSET Nat /\ 0 \in lengths /\ \A n \in lengths : n <= b
  BY <1>1, <1>5
<1>7. \A row \in DOMAIN rows : Len(rows[row]) \in lengths
  OBVIOUS
<1> HIDE DEF lengths
<1>8. \E m \in lengths : \A n \in lengths : m >= n
  BY <1>6, GreatestExists
<1>9. Max(lengths) \in lengths /\ \A n \in lengths : Max(lengths) >= n
  BY <1>8 DEF Max
<1>10. Max(lengths) \in Nat /\ \A row \in DOMAIN rows : Len(rows[row]) <= Max(lengths)
  BY <1>1, <1>6, <1>7, <1>9
<1> QED BY <1>1, <1>10 DEF lengths

\* The order in which rows take turns: by rounds, and by rows within a round.
Earlier ==
  {e \in (Nat \X Nat) \X (Nat \X Nat) :
     e[1][2] < e[2][2] \/ (e[1][2] = e[2][2] /\ e[1][1] < e[2][1])}

\* Each element of each row has its turn, in that order.
TakeTurns(rows, turns) ==
  /\ turns \in Seq(Nat \X Nat)
  /\ \A k \in 1 .. Len(turns) :
       turns[k][1] \in 1 .. Len(rows) /\ turns[k][2] \in 1 .. Len(rows[turns[k][1]])
  /\ \A row \in 1 .. Len(rows) : \A part \in 1 .. Len(rows[row]) :
       \E k \in 1 .. Len(turns) : turns[k] = <<row, part>>
  /\ \A k, l \in 1 .. Len(turns) : k < l => <<turns[k], turns[l]>> \in Earlier

LEMMA RowsTakeTurns ==
  ASSUME NEW A, NEW rows \in Seq(Seq(A))
  PROVE  TakeTurns(rows, RoundRobin(rows))
<1> DEFINE n == Len(rows)
           rounds == Max({0} \cup {Len(rows[row]) : row \in DOMAIN rows})
           turn(row, round) ==
             IF round <= Len(rows[row]) THEN << <<row, round>> >> ELSE <<>>
           inRound(round) == [row \in DOMAIN rows |-> turn(row, round)]
           byRound == [round \in 1 .. rounds |-> FlattenSeq(inRound(round))]
           turns == FlattenSeq(byRound)
<1>1. /\ n \in Nat /\ DOMAIN rows = 1 .. n
      /\ \A row \in 1 .. n : Len(rows[row]) \in Nat
  OBVIOUS
<1>2. rounds \in Nat /\ \A row \in 1 .. n : Len(rows[row]) <= rounds
  BY RoundsBound DEF n
<1>3. turns = RoundRobin(rows)
  BY DEF RoundRobin
<1> HIDE DEF rounds
<1>4. ASSUME NEW round \in 1 .. rounds, NEW row \in 1 .. n
      PROVE  /\ turn(row, round) \in Seq(Nat \X Nat)
             /\ \A j \in 1 .. Len(turn(row, round)) :
                  j = 1 /\ turn(row, round)[j] = <<row, round>> /\ round <= Len(rows[row])
             /\ round <= Len(rows[row]) =>
                  Len(turn(row, round)) = 1 /\ turn(row, round)[1] = <<row, round>>
  <2>1. <<row, round>> \in Nat \X Nat
    BY <1>1, <1>2
  <2>2. CASE round <= Len(rows[row])
    BY <2>1, <2>2
  <2>3. CASE ~(round <= Len(rows[row]))
    BY <2>1, <2>3
  <2> QED BY <2>2, <2>3
<1>5. ASSUME NEW round \in 1 .. rounds
      PROVE  /\ inRound(round) \in Seq(Seq(Nat \X Nat)) /\ Len(inRound(round)) = n
             /\ \A row \in 1 .. n : inRound(round)[row] = turn(row, round)
  <2> HIDE DEF turn, n
  <2> QED BY <1>1, <1>4
<1> HIDE DEF n, turn, inRound
\* What is in one round.
<1>6. ASSUME NEW round \in 1 .. rounds
      PROVE  /\ FlattenSeq(inRound(round)) \in Seq(Nat \X Nat)
             /\ \A k \in 1 .. Len(FlattenSeq(inRound(round))) :
                  \E row \in 1 .. n : /\ FlattenSeq(inRound(round))[k] = <<row, round>>
                                      /\ round <= Len(rows[row])
             /\ \A row \in 1 .. n : round <= Len(rows[row]) =>
                  \E k \in 1 .. Len(FlattenSeq(inRound(round))) :
                    FlattenSeq(inRound(round))[k] = <<row, round>>
             /\ \A k, l \in 1 .. Len(FlattenSeq(inRound(round))) : k < l =>
                  <<FlattenSeq(inRound(round))[k], FlattenSeq(inRound(round))[l]>> \in Earlier
  <2> DEFINE s == inRound(round)
             f == FlattenSeq(s)
  <2>1. /\ s \in Seq(Seq(Nat \X Nat)) /\ Len(s) = n
        /\ \A row \in 1 .. n : s[row] = turn(row, round)
    BY <1>5
  <2> HIDE DEF s
  <2>2. f \in Seq(Nat \X Nat) /\ FlattenedElements(s, f)
    BY <2>1, FlattenElements
  <2>3. ASSUME NEW i \in 1 .. Len(s), NEW j \in 1 .. Len(s[i])
        PROVE  j = 1 /\ s[i][j] = <<i, round>> /\ round <= Len(rows[i])
    <3>1. i \in 1 .. n /\ s[i] = turn(i, round) /\ j \in 1 .. Len(turn(i, round))
      BY <2>1
    <3> QED BY <1>4, <3>1
  <2>4. \A k, l \in 1 .. Len(f) : k < l => <<f[k], f[l]>> \in Earlier
    <3>1. \A i \in 1 .. Len(s) : \A j, l \in 1 .. Len(s[i]) :
            j < l => <<s[i][j], s[i][l]>> \in Earlier
      BY <2>3
    <3>2. \A i, h \in 1 .. Len(s) : i < h =>
            \A j \in 1 .. Len(s[i]) : \A l \in 1 .. Len(s[h]) :
              <<s[i][j], s[h][l]>> \in Earlier
      <4> SUFFICES ASSUME NEW i \in 1 .. Len(s), NEW h \in 1 .. Len(s), i < h,
                          NEW j \in 1 .. Len(s[i]), NEW l \in 1 .. Len(s[h])
                   PROVE  <<s[i][j], s[h][l]>> \in Earlier
        OBVIOUS
      <4>1. s[i][j] = <<i, round>> /\ s[h][l] = <<h, round>>
        BY <2>3
      <4>2. i \in Nat /\ h \in Nat /\ round \in Nat
        BY <1>1, <1>2, <2>1
      <4> QED BY <4>1, <4>2 DEF Earlier
    <3> QED BY <2>1, <3>1, <3>2, FlattenSorted
  <2> HIDE DEF f
  <2>5. ASSUME NEW k \in 1 .. Len(f)
        PROVE  \E row \in 1 .. n : f[k] = <<row, round>> /\ round <= Len(rows[row])
    <3>1. PICK i \in 1 .. Len(s) : \E j \in 1 .. Len(s[i]) : f[k] = s[i][j]
      BY <2>2 DEF FlattenedElements
    <3> QED BY <2>1, <2>3, <3>1
  <2>6. ASSUME NEW row \in 1 .. n, round <= Len(rows[row])
        PROVE  \E k \in 1 .. Len(f) : f[k] = <<row, round>>
    <3>1. 1 \in 1 .. Len(s[row]) /\ s[row][1] = <<row, round>> /\ row \in 1 .. Len(s)
      BY <1>4, <2>1, <2>6
    <3>2. PICK k \in 1 .. Len(f) : f[k] = s[row][1]
      BY <2>2, <3>1 DEF FlattenedElements
    <3> QED BY <3>1, <3>2
  <2> QED BY <2>2, <2>4, <2>5, <2>6 DEF f, s
<1>7. /\ byRound \in Seq(Seq(Nat \X Nat)) /\ Len(byRound) = rounds
      /\ \A round \in 1 .. rounds : byRound[round] = FlattenSeq(inRound(round))
  BY <1>2, <1>6
<1> HIDE DEF byRound
<1>8. turns \in Seq(Nat \X Nat) /\ FlattenedElements(byRound, turns)
  BY <1>7, FlattenElements
<1>9. ASSUME NEW round \in 1 .. Len(byRound), NEW j \in 1 .. Len(byRound[round])
      PROVE  \E row \in 1 .. n : /\ byRound[round][j] = <<row, round>>
                                 /\ round <= Len(rows[row])
  <2>1. /\ round \in 1 .. rounds /\ byRound[round] = FlattenSeq(inRound(round))
        /\ j \in 1 .. Len(FlattenSeq(inRound(round)))
    BY <1>7
  <2> QED BY <1>6, <2>1
<1>10. \A k, l \in 1 .. Len(turns) : k < l => <<turns[k], turns[l]>> \in Earlier
  <2>1. \A i \in 1 .. Len(byRound) : \A j, l \in 1 .. Len(byRound[i]) :
          j < l => <<byRound[i][j], byRound[i][l]>> \in Earlier
    BY <1>6, <1>7
  <2>2. \A i, h \in 1 .. Len(byRound) : i < h =>
          \A j \in 1 .. Len(byRound[i]) : \A l \in 1 .. Len(byRound[h]) :
            <<byRound[i][j], byRound[h][l]>> \in Earlier
    <3> SUFFICES ASSUME NEW i \in 1 .. Len(byRound), NEW h \in 1 .. Len(byRound), i < h,
                        NEW j \in 1 .. Len(byRound[i]), NEW l \in 1 .. Len(byRound[h])
                 PROVE  <<byRound[i][j], byRound[h][l]>> \in Earlier
      OBVIOUS
    <3>1. PICK r \in 1 .. n : byRound[i][j] = <<r, i>>
      BY <1>9
    <3>2. PICK q \in 1 .. n : byRound[h][l] = <<q, h>>
      BY <1>9
    <3>3. i \in Nat /\ h \in Nat /\ r \in Nat /\ q \in Nat
      BY <1>1, <1>2, <1>7
    <3> QED BY <3>1, <3>2, <3>3 DEF Earlier
  <2> QED BY <1>7, <2>1, <2>2, FlattenSorted
<1> HIDE DEF turns
<1>11. ASSUME NEW k \in 1 .. Len(turns)
       PROVE  turns[k][1] \in 1 .. n /\ turns[k][2] \in 1 .. Len(rows[turns[k][1]])
  <2>1. PICK round \in 1 .. Len(byRound) :
          \E j \in 1 .. Len(byRound[round]) : turns[k] = byRound[round][j]
    BY <1>8 DEF FlattenedElements
  <2>2. PICK row \in 1 .. n : turns[k] = <<row, round>> /\ round <= Len(rows[row])
    BY <1>9, <2>1
  <2>3. round \in 1 .. Len(rows[row])
    BY <1>1, <1>2, <1>7, <2>2
  <2> QED BY <2>2, <2>3
<1>12. ASSUME NEW row \in 1 .. n, NEW part \in 1 .. Len(rows[row])
       PROVE  \E k \in 1 .. Len(turns) : turns[k] = <<row, part>>
  <2>1. part \in 1 .. rounds /\ part <= Len(rows[row])
    BY <1>1, <1>2
  <2>2. PICK j \in 1 .. Len(byRound[part]) : byRound[part][j] = <<row, part>>
    BY <1>6, <1>7, <2>1
  <2>3. PICK k \in 1 .. Len(turns) : turns[k] = byRound[part][j]
    BY <1>7, <1>8, <2>1 DEF FlattenedElements
  <2> QED BY <2>2, <2>3
<1>13. TakeTurns(rows, turns)
  BY <1>8, <1>10, <1>11, <1>12 DEF TakeTurns, n
<1> QED BY <1>3, <1>13

Deltas == Frames(DeltaKinds)

\* The frames a client must have before it can place this one.
Needs(frame) ==
  (IF frame.kind # "role" THEN {Frame(frame.choice, "role", 0, 0)} ELSE {})
    \cup (IF frame.kind = "arguments"
          THEN {Frame(frame.choice, "call", frame.call, 0)} ELSE {})
    \cup (IF frame.kind = "arguments" /\ frame.part > 1
          THEN {Frame(frame.choice, "arguments", frame.call, frame.part - 1)} ELSE {})

Fits(frames) ==
  \A k \in 1 .. Len(frames) : \A x \in Needs(frames[k]) : \E j \in 1 .. k - 1 : frames[j] = x

LEMMA FitsConcat ==
  ASSUME NEW a \in Seq(Deltas), NEW b \in Seq(Deltas), Fits(a),
         \A k \in 1 .. Len(b) : \A x \in Needs(b[k]) :
           \/ \E j \in 1 .. Len(a) : a[j] = x
           \/ \E j \in 1 .. k - 1 : b[j] = x
  PROVE  Fits(a \o b)
<1> DEFINE n == Len(a)
           m == Len(b)
           c == a \o b
<1>1. /\ c \in Seq(Deltas) /\ Len(c) = n + m
      /\ \A k \in 1 .. n : c[k] = a[k]
      /\ \A k \in 1 .. m : c[n + k] = b[k]
  BY ConcatPlaces
<1>2. n \in Nat /\ m \in Nat
  OBVIOUS
<1>3. /\ \A k \in 1 .. n : Needs(a[k]) = Needs(a[k])
      /\ \A k \in 1 .. n : \A x \in Needs(a[k]) : \E j \in 1 .. k - 1 : a[j] = x
      /\ \A k \in 1 .. m : \A x \in Needs(b[k]) :
           (\E j \in 1 .. n : a[j] = x) \/ (\E j \in 1 .. k - 1 : b[j] = x)
  BY DEF Fits
<1> HIDE DEF n, m, c
<1>4. SUFFICES ASSUME NEW k \in 1 .. n + m, NEW x \in Needs(c[k])
               PROVE  \E j \in 1 .. k - 1 : c[j] = x
  BY <1>1 DEF Fits, c
<1>5. CASE k <= n
  <2>1. k \in 1 .. n /\ c[k] = a[k]
    BY <1>1, <1>2, <1>5
  <2>2. PICK j \in 1 .. k - 1 : a[j] = x
    BY <1>3, <1>4, <2>1
  <2>3. j \in 1 .. n
    BY <1>2, <2>1
  <2> QED BY <1>1, <2>2, <2>3
<1>6. CASE ~(k <= n)
  <2>1. k - n \in 1 .. m /\ n + (k - n) = k
    BY <1>2, <1>6
  <2>2. c[k] = b[k - n]
    BY <1>1, <2>1
  <2>3. (\E j \in 1 .. n : a[j] = x) \/ (\E j \in 1 .. (k - n) - 1 : b[j] = x)
    BY <1>3, <1>4, <2>1, <2>2
  <2>4. \A j \in 1 .. n : j \in 1 .. k - 1
    BY <1>2, <1>6
  <2>5. \A j \in 1 .. (k - n) - 1 : j \in 1 .. m /\ n + j \in 1 .. k - 1
    BY <1>2, <1>6, <2>1
  <2> QED BY <1>1, <2>3, <2>4, <2>5
<1> QED BY <1>5, <1>6

\* The row of a choice as it grows: it opens with the role, and all of it is
\* of that choice.
RowOf(choice, row) ==
  /\ row \in Seq(Deltas) /\ Len(row) # 0 /\ Fits(row)
  /\ row[1] = Frame(choice, "role", 0, 0)
  /\ \A k \in 1 .. Len(row) : row[k].choice = choice

LEMMA RowGrows ==
  ASSUME NEW choice, NEW row, RowOf(choice, row), NEW more \in Seq(Deltas),
         \A k \in 1 .. Len(more) :
           /\ more[k].choice = choice
           /\ \A x \in Needs(more[k]) :
                \/ x = Frame(choice, "role", 0, 0)
                \/ \E j \in 1 .. Len(row) : row[j] = x
                \/ \E j \in 1 .. k - 1 : more[j] = x
  PROVE  RowOf(choice, row \o more)
<1> DEFINE n == Len(row)
           m == Len(more)
           both == row \o more
<1>1. row \in Seq(Deltas) /\ n \in Nat /\ m \in Nat /\ 1 \in 1 .. n
      /\ row[1] = Frame(choice, "role", 0, 0)
  BY DEF RowOf
<1>2. /\ both \in Seq(Deltas) /\ Len(both) = n + m
      /\ \A k \in 1 .. n : both[k] = row[k]
      /\ \A k \in 1 .. m : both[n + k] = more[k]
  BY <1>1, ConcatPlaces
<1>3. \A k \in 1 .. Len(more) : \A x \in Needs(more[k]) :
        \/ \E j \in 1 .. Len(row) : row[j] = x
        \/ \E j \in 1 .. k - 1 : more[j] = x
  BY <1>1
<1>4. Fits(both)
  BY <1>1, <1>3, FitsConcat DEF RowOf
<1> HIDE DEF n, m, both
<1>5. \A k \in 1 .. n + m : k \in 1 .. n \/ (k - n \in 1 .. m /\ n + (k - n) = k)
  BY <1>1
<1>6. \A k \in 1 .. Len(both) : both[k].choice = choice
  <2> SUFFICES ASSUME NEW k \in 1 .. n + m PROVE both[k].choice = choice
    BY <1>2
  <2>1. CASE k \in 1 .. n
    BY <1>2, <2>1 DEF RowOf, n
  <2>2. CASE k - n \in 1 .. m /\ n + (k - n) = k
    <3>1. both[k] = more[k - n]
      BY <1>2, <2>2
    <3> QED BY <2>2, <3>1 DEF m
  <2> QED BY <1>5, <2>1, <2>2
<1>7. RowOf(choice, both)
  BY <1>1, <1>2, <1>4, <1>6 DEF RowOf
<1> QED BY <1>7 DEF both

\* Frames that need their role only.
LEMMA RowGrowsPlainly ==
  ASSUME NEW choice \in Nat, NEW row, RowOf(choice, row), NEW more \in Seq(Deltas),
         \A k \in 1 .. Len(more) :
           more[k].choice = choice /\ more[k].kind # "arguments"
  PROVE  RowOf(choice, row \o more)
<1>1. \A k \in 1 .. Len(more) : \A x \in Needs(more[k]) : x = Frame(choice, "role", 0, 0)
  BY DEF Needs
<1> QED BY <1>1, RowGrows

LEMMA PiecesArePlain ==
  ASSUME NEW choice \in Nat, NEW kind \in DeltaKinds, kind # "arguments", NEW count \in Nat
  PROVE  /\ Pieces(choice, kind, count) \in Seq(Deltas)
         /\ \A k \in 1 .. Len(Pieces(choice, kind, count)) :
              /\ Pieces(choice, kind, count)[k].choice = choice
              /\ Pieces(choice, kind, count)[k].kind # "arguments"
<1>1. \A part \in 1 .. count : Frame(choice, kind, 0, part) \in Deltas
  BY DEF Deltas, Frames, Frame
<1>2. Pieces(choice, kind, count) \in Seq(Deltas) /\ Len(Pieces(choice, kind, count)) = count
  BY <1>1 DEF Pieces
<1>3. \A part \in 1 .. count : /\ Frame(choice, kind, 0, part).choice = choice
                               /\ Frame(choice, kind, 0, part).kind # "arguments"
  BY DEF Frame
<1>4. \A k \in 1 .. count : Pieces(choice, kind, count)[k] = Frame(choice, kind, 0, k)
  BY DEF Pieces
<1> QED BY <1>2, <1>3, <1>4

LEMMA PiecesGrow ==
  ASSUME NEW choice \in Nat, NEW row, RowOf(choice, row),
         NEW kind \in DeltaKinds, kind # "arguments", NEW count \in Nat
  PROVE  RowOf(choice, row \o Pieces(choice, kind, count))
<1> DEFINE more == Pieces(choice, kind, count)
<1>1. /\ more \in Seq(Deltas)
      /\ \A k \in 1 .. Len(more) : more[k].choice = choice /\ more[k].kind # "arguments"
  BY PiecesArePlain
<1> HIDE DEF more
<1>2. RowOf(choice, row \o more)
  BY <1>1, RowGrowsPlainly
<1> QED BY <1>2 DEF more

\* Calls open before their arguments, and arguments come in order.
LEMMA ToolCallsFit ==
  ASSUME NEW choice \in Nat, NEW calls \in Seq(Nat), NEW row, RowOf(choice, row)
  PROVE  RowOf(choice, row \o ToolCallFrames(choice, calls))
<1> DEFINE n == Len(calls)
           fragments == [call \in DOMAIN calls |-> Pieces(choice, "arguments", calls[call])]
           turns == RoundRobin(fragments)
           opened == [call \in DOMAIN calls |-> Frame(choice, "call", call, 0)]
           told == [k \in DOMAIN turns |->
                      Frame(choice, "arguments", turns[k][1], turns[k][2])]
<1>1. n \in Nat /\ DOMAIN calls = 1 .. n /\ \A call \in 1 .. n : calls[call] \in Nat
  OBVIOUS
<1>2. /\ fragments \in Seq(Seq(Deltas)) /\ Len(fragments) = n
      /\ \A call \in 1 .. n : Len(fragments[call]) = calls[call]
  <2>1. ASSUME NEW call \in 1 .. n
        PROVE  /\ Pieces(choice, "arguments", calls[call]) \in Seq(Deltas)
               /\ Len(Pieces(choice, "arguments", calls[call])) = calls[call]
    <3>1. calls[call] \in Nat
      BY <1>1
    <3>2. \A part \in 1 .. calls[call] : Frame(choice, "arguments", 0, part) \in Deltas
      BY DEF Deltas, Frames, Frame, DeltaKinds
    <3> QED BY <3>1, <3>2 DEF Pieces
  <2> QED BY <1>1, <2>1
<1>3. TakeTurns(fragments, turns)
  BY <1>2, RowsTakeTurns
<1>4. ToolCallFrames(choice, calls) = opened \o told
  BY DEF ToolCallFrames
<1> HIDE DEF fragments, turns
<1>5. /\ DOMAIN turns = 1 .. Len(turns) /\ Len(turns) \in Nat
      /\ \A k \in 1 .. Len(turns) :
           turns[k][1] \in 1 .. n /\ turns[k][2] \in 1 .. calls[turns[k][1]]
  <2>1. turns \in Seq(Nat \X Nat)
    BY <1>3 DEF TakeTurns
  <2>2. \A k \in 1 .. Len(turns) :
          /\ turns[k][1] \in 1 .. Len(fragments)
          /\ turns[k][2] \in 1 .. Len(fragments[turns[k][1]])
    BY <1>3 DEF TakeTurns
  <2>3. ASSUME NEW k \in 1 .. Len(turns)
        PROVE  turns[k][1] \in 1 .. n /\ turns[k][2] \in 1 .. calls[turns[k][1]]
    <3> DEFINE call == turns[k][1]
    <3>1. call \in 1 .. Len(fragments) /\ turns[k][2] \in 1 .. Len(fragments[call])
      BY <2>2
    <3> HIDE DEF n, call
    <3>2. call \in 1 .. n /\ turns[k][2] \in 1 .. calls[call]
      BY <1>2, <3>1
    <3> QED BY <3>2 DEF call
  <2>4. DOMAIN turns = 1 .. Len(turns) /\ Len(turns) \in Nat
    BY <2>1
  <2> QED BY <2>3, <2>4
<1>6. /\ opened \in Seq(Deltas) /\ Len(opened) = n
      /\ \A call \in 1 .. n : opened[call] = Frame(choice, "call", call, 0)
  <2>1. \A call \in 1 .. n : Frame(choice, "call", call, 0) \in Deltas
    BY DEF Deltas, Frames, Frame, DeltaKinds
  <2> QED BY <1>1, <2>1
<1>7. /\ told \in Seq(Deltas) /\ Len(told) = Len(turns)
      /\ \A k \in 1 .. Len(turns) :
           told[k] = Frame(choice, "arguments", turns[k][1], turns[k][2])
  <2>1. ASSUME NEW k \in 1 .. Len(turns)
        PROVE  Frame(choice, "arguments", turns[k][1], turns[k][2]) \in Deltas
    <3>1. turns[k][1] \in Nat /\ turns[k][2] \in Nat
      BY <1>1, <1>5
    <3> QED BY <3>1 DEF Deltas, Frames, Frame, DeltaKinds
  <2> QED BY <1>5, <2>1
<1> HIDE DEF opened, told
<1>8. RowOf(choice, row \o opened)
  <2>1. \A k \in 1 .. Len(opened) : opened[k].choice = choice /\ opened[k].kind # "arguments"
    <3>1. \A call \in 1 .. n : /\ Frame(choice, "call", call, 0).choice = choice
                               /\ Frame(choice, "call", call, 0).kind # "arguments"
      BY DEF Frame
    <3> HIDE DEF n
    <3> QED BY <1>6, <3>1
  <2> QED BY <1>6, <2>1, RowGrowsPlainly
<1> DEFINE before == row \o opened
<1>9. \A call \in 1 .. n : \E j \in 1 .. Len(before) : before[j] = Frame(choice, "call", call, 0)
  <2> SUFFICES ASSUME NEW call \in 1 .. n
               PROVE  \E j \in 1 .. Len(before) : before[j] = Frame(choice, "call", call, 0)
    OBVIOUS
  <2>1. row \in Seq(Deltas)
    BY DEF RowOf
  <2>2. /\ Len(row \o opened) = Len(row) + Len(opened)
        /\ \A k \in 1 .. Len(opened) : (row \o opened)[Len(row) + k] = opened[k]
    <3>1. opened \in Seq(Deltas)
      BY <1>6
    <3> QED BY <2>1, <3>1, ConcatPlaces
  <2>3. Len(row) \in Nat /\ Len(row) + call \in 1 .. Len(row) + n
    BY <1>1, <2>1
  <2> QED BY <1>6, <2>2, <2>3
<1> HIDE DEF before
<1>10. ASSUME NEW k \in 1 .. Len(told)
       PROVE  /\ told[k].choice = choice
              /\ \A x \in Needs(told[k]) :
                   \/ x = Frame(choice, "role", 0, 0)
                   \/ \E j \in 1 .. Len(before) : before[j] = x
                   \/ \E j \in 1 .. k - 1 : told[j] = x
  <2> DEFINE call == turns[k][1]
             part == turns[k][2]
  <2>1. /\ k \in 1 .. Len(turns) /\ told[k] = Frame(choice, "arguments", call, part)
        /\ call \in 1 .. n /\ part \in 1 .. calls[call] /\ calls[call] \in Nat
    BY <1>1, <1>5, <1>7
  <2> HIDE DEF call, part
  <2>2. ASSUME part > 1
        PROVE  \E j \in 1 .. k - 1 : told[j] = Frame(choice, "arguments", call, part - 1)
    <3>1. part - 1 \in 1 .. calls[call]
      BY <2>1, <2>2
    <3>2. PICK j \in 1 .. Len(turns) : turns[j] = <<call, part - 1>>
      BY <1>2, <1>3, <2>1, <3>1 DEF TakeTurns
    <3>3. turns[k] = <<call, part>>
      <4>1. turns \in Seq(Nat \X Nat) /\ k \in 1 .. Len(turns)
        BY <1>3, <2>1 DEF TakeTurns
      <4>2. turns[k] \in Nat \X Nat
        BY <4>1
      <4> QED BY <4>2 DEF call, part
    <3>4. j < k
      <4>1. j # k
        BY <2>1, <3>2, <3>3
      <4>2. ~(k < j)
        <5> SUFFICES ASSUME k < j PROVE FALSE
          OBVIOUS
        <5>1. <<turns[k], turns[j]>> \in Earlier
          BY <1>3, <2>1, <3>2 DEF TakeTurns
        <5>2. part < part - 1 \/ part = part - 1
          BY <3>2, <3>3, <5>1 DEF Earlier
        <5> QED BY <2>1, <5>2
      <4> QED BY <1>5, <2>1, <4>1, <4>2
    <3>5. j \in 1 .. k - 1
      BY <1>5, <2>1, <3>4
    <3> QED BY <1>7, <3>2, <3>5
  <2>3. \A x \in Needs(told[k]) :
          \/ x = Frame(choice, "role", 0, 0) \/ x = Frame(choice, "call", call, 0)
          \/ part > 1 /\ x = Frame(choice, "arguments", call, part - 1)
    BY <2>1 DEF Needs, Frame
  <2>4. told[k].choice = choice
    BY <2>1 DEF Frame
  <2> QED BY <1>9, <2>1, <2>2, <2>3, <2>4
<1>11. RowOf(choice, before \o told)
  BY <1>7, <1>8, <1>10, RowGrows DEF before
<1>12. before \o told = row \o (opened \o told)
  BY <1>6, <1>7, ConcatAssociative DEF before, RowOf
<1> QED BY <1>4, <1>11, <1>12 DEF opened, told

LEMMA BuildFramesFits ==
  ASSUME NEW choice \in Nat, NEW message \in ChoicesToTell
  PROVE  RowOf(choice, BuildFrames(choice, message))
<1> DEFINE role == <<Frame(choice, "role", 0, 0)>>
           a == role \o Pieces(choice, "reasoning", message.reasoning)
           b == a \o Pieces(choice, "content", message.content)
           c == b \o Pieces(choice, "refusal", message.refusal)
           d == c \o ToolCallFrames(choice, message.calls)
           last == IF message.functionCall
                   THEN <<Frame(choice, "function_call", 0, 0)>> ELSE <<>>
<1>1. /\ message.reasoning \in Nat /\ message.content \in Nat /\ message.refusal \in Nat
      /\ message.calls \in Seq(Nat)
  BY DEF ChoicesToTell
<1>2. BuildFrames(choice, message) = d \o last
  BY DEF BuildFrames
<1>3. RowOf(choice, role)
  <2> DEFINE f == Frame(choice, "role", 0, 0)
  <2>1. f \in Deltas /\ f.choice = choice /\ f.kind = "role"
    BY DEF Deltas, Frames, Frame, DeltaKinds
  <2>2. Needs(f) = {}
    BY <2>1 DEF Needs
  <2> HIDE DEF f
  <2>3. /\ <<f>> \in Seq(Deltas) /\ Len(<<f>>) = 1 /\ <<f>>[1] = f
        /\ \A k \in 1 .. Len(<<f>>) : <<f>>[k] = f
    BY <2>1
  <2>4. Fits(<<f>>)
    BY <2>2, <2>3 DEF Fits
  <2> QED BY <2>1, <2>3, <2>4 DEF RowOf, f
<1> HIDE DEF role
<1>4. RowOf(choice, a)
  <2>1. "reasoning" \in DeltaKinds /\ "reasoning" # "arguments"
    BY DEF DeltaKinds
  <2> QED BY <1>1, <1>3, <2>1, PiecesGrow
<1> HIDE DEF a
<1>5. RowOf(choice, b)
  <2>1. "content" \in DeltaKinds /\ "content" # "arguments"
    BY DEF DeltaKinds
  <2> QED BY <1>1, <1>4, <2>1, PiecesGrow
<1> HIDE DEF b
<1>6. RowOf(choice, c)
  <2>1. "refusal" \in DeltaKinds /\ "refusal" # "arguments"
    BY DEF DeltaKinds
  <2> QED BY <1>1, <1>5, <2>1, PiecesGrow
<1> HIDE DEF c
<1>7. RowOf(choice, d)
  BY <1>1, <1>6, ToolCallsFit
<1> HIDE DEF d
<1>8. /\ last \in Seq(Deltas)
      /\ \A k \in 1 .. Len(last) : last[k].choice = choice /\ last[k].kind # "arguments"
  <2> DEFINE f == Frame(choice, "function_call", 0, 0)
  <2>1. f \in Deltas /\ f.choice = choice /\ f.kind # "arguments"
    BY DEF Deltas, Frames, Frame, DeltaKinds
  <2>2. last = <<f>> \/ last = <<>>
    OBVIOUS
  <2> HIDE DEF f, last
  <2>3. CASE last = <<f>>
    <3>1. /\ <<f>> \in Seq(Deltas)
          /\ \A k \in 1 .. Len(<<f>>) : <<f>>[k] = f
      BY <2>1
    <3> QED BY <2>1, <2>3, <3>1
  <2>4. CASE last = <<>>
    BY <2>4
  <2> QED BY <2>2, <2>3, <2>4
<1> HIDE DEF last
<1>9. RowOf(choice, d \o last)
  BY <1>7, <1>8, RowGrowsPlainly
<1> QED BY <1>2, <1>9

\* A turn of an earlier round, or of the same row, comes first.
LEMMA TurnsInOrder ==
  ASSUME NEW rows, NEW turns, TakeTurns(rows, turns),
         NEW k \in 1 .. Len(turns), NEW l \in 1 .. Len(turns)
  PROVE  /\ turns[k] = <<turns[k][1], turns[k][2]>>
         /\ turns[k][1] \in Nat /\ turns[k][2] \in Nat
         /\ k < l => turns[k][2] <= turns[l][2] /\ turns[k] # turns[l]
         /\ turns[k][2] < turns[l][2] => k < l
<1>1. turns \in Seq(Nat \X Nat) /\ k \in Nat /\ l \in Nat
  BY DEF TakeTurns
<1>2. turns[k] \in Nat \X Nat /\ turns[l] \in Nat \X Nat
  BY <1>1
<1>3. \A i, j \in 1 .. Len(turns) : i < j => <<turns[i], turns[j]>> \in Earlier
  BY DEF TakeTurns
<1> DEFINE a == turns[k]
           b == turns[l]
<1>4. a \in Nat \X Nat /\ b \in Nat \X Nat
      /\ (k < l => <<a, b>> \in Earlier) /\ (l < k => <<b, a>> \in Earlier)
      /\ (k = l => a = b)
  BY <1>2, <1>3
<1> HIDE DEF a, b
<1>5. a = <<a[1], a[2]>> /\ a[1] \in Nat /\ a[2] \in Nat /\ b[1] \in Nat /\ b[2] \in Nat
  BY <1>4
<1>6. k < l => a[2] <= b[2] /\ a # b
  BY <1>4, <1>5 DEF Earlier
<1>7. l < k => b[2] <= a[2]
  BY <1>4, <1>5 DEF Earlier
<1>8. a[2] < b[2] => k < l
  BY <1>1, <1>4, <1>5, <1>7
<1> QED BY <1>5, <1>6, <1>8 DEF a, b

\* Rows that fit each are interleaved to frames that fit.
Interleaved(rows, turns, frames) ==
  /\ frames \in Seq(Deltas) /\ Len(frames) = Len(turns)
  /\ \A k \in 1 .. Len(turns) : /\ frames[k] = rows[turns[k][1]][turns[k][2]]
                                /\ frames[k].choice = turns[k][1]

LEMMA InterleaveFits ==
  ASSUME NEW rows \in Seq(Seq(Deltas)), \A r \in 1 .. Len(rows) : RowOf(r, rows[r])
  PROVE  /\ TakeTurns(rows, RoundRobin(rows))
         /\ Interleaved(rows, RoundRobin(rows), InterleaveChoices(rows))
         /\ Fits(InterleaveChoices(rows))
<1> DEFINE turns == RoundRobin(rows)
           frames == InterleaveChoices(rows)
<1>1. TakeTurns(rows, turns)
  BY RowsTakeTurns
<1>2. frames = [k \in DOMAIN turns |-> rows[turns[k][1]][turns[k][2]]]
  BY DEF InterleaveChoices
<1> HIDE DEF turns, frames
<1>3. /\ turns \in Seq(Nat \X Nat) /\ Len(turns) \in Nat /\ DOMAIN turns = 1 .. Len(turns)
      /\ \A k \in 1 .. Len(turns) : /\ turns[k][1] \in 1 .. Len(rows)
                                    /\ turns[k][2] \in 1 .. Len(rows[turns[k][1]])
  BY <1>1 DEF TakeTurns
<1>4. \A r \in 1 .. Len(rows) :
        /\ rows[r] \in Seq(Deltas) /\ Fits(rows[r])
        /\ \A j \in 1 .. Len(rows[r]) : rows[r][j] \in Deltas /\ rows[r][j].choice = r
  <2> SUFFICES ASSUME NEW r \in 1 .. Len(rows)
               PROVE  /\ rows[r] \in Seq(Deltas) /\ Fits(rows[r])
                      /\ \A j \in 1 .. Len(rows[r]) :
                           rows[r][j] \in Deltas /\ rows[r][j].choice = r
    OBVIOUS
  <2> DEFINE row == rows[r]
  <2>1. RowOf(r, row)
    OBVIOUS
  <2> HIDE DEF row
  <2>2. row \in Seq(Deltas) /\ Fits(row) /\ \A j \in 1 .. Len(row) : row[j].choice = r
    BY <2>1 DEF RowOf
  <2>3. \A j \in 1 .. Len(row) : row[j] \in Deltas
    BY <2>2
  <2> QED BY <2>2, <2>3 DEF row
<1>5. \A k \in 1 .. Len(turns) : /\ rows[turns[k][1]][turns[k][2]] \in Deltas
                                 /\ rows[turns[k][1]][turns[k][2]].choice = turns[k][1]
  BY <1>3, <1>4
<1>6. Interleaved(rows, turns, frames)
  <2>1. frames \in Seq(Deltas) /\ Len(frames) = Len(turns)
    BY <1>2, <1>3, <1>5
  <2>2. \A k \in 1 .. Len(turns) : frames[k] = rows[turns[k][1]][turns[k][2]]
    BY <1>2, <1>3
  <2> QED BY <1>5, <2>1, <2>2 DEF Interleaved
<1>7. Fits(frames)
  <2> SUFFICES ASSUME NEW k \in 1 .. Len(frames), NEW x \in Needs(frames[k])
               PROVE  \E j \in 1 .. k - 1 : frames[j] = x
    BY DEF Fits
  <2> DEFINE r == turns[k][1]
             t == turns[k][2]
  <2>1. /\ k \in 1 .. Len(turns) /\ r \in 1 .. Len(rows) /\ t \in 1 .. Len(rows[r])
        /\ frames[k] = rows[r][t] /\ t = turns[k][2]
    BY <1>3, <1>6 DEF Interleaved
  <2> HIDE DEF r, t
  <2>2. PICK j \in 1 .. t - 1 : rows[r][j] = x
    <3>1. Fits(rows[r]) /\ x \in Needs(rows[r][t])
      BY <1>4, <2>1
    <3> QED BY <2>1, <3>1 DEF Fits
  <2>3. j \in 1 .. Len(rows[r]) /\ j < t /\ j \in Nat
    <3>1. rows[r] \in Seq(Deltas)
      BY <2>1
    <3> DEFINE w == Len(rows[r])
    <3>2. w \in Nat /\ t \in 1 .. w
      BY <2>1, <3>1
    <3> HIDE DEF w
    <3>3. j \in 1 .. w /\ j < t /\ j \in Nat
      BY <3>2
    <3> QED BY <3>3 DEF w
  <2>4. PICK l \in 1 .. Len(turns) : turns[l] = <<r, j>>
    BY <1>1, <2>1, <2>3 DEF TakeTurns
  <2>5. turns[l][1] = r /\ turns[l][2] = j
    BY <2>4
  <2>6. l < k
    BY <1>1, <2>1, <2>3, <2>5, TurnsInOrder
  <2>7. l \in 1 .. k - 1
    BY <1>3, <2>1, <2>6
  <2>8. frames[l] = x
    BY <1>6, <2>2, <2>5 DEF Interleaved
  <2> QED BY <2>7, <2>8
<1> QED BY <1>1, <1>6, <1>7 DEF turns, frames

\* The turns of a row among the first m.
TurnsOf(turns, row, m) == {k \in 1 .. m : turns[k][1] = row}

\* A row that still has turns to take is at most one turn behind any other.
LEMMA TurnsKeepPace ==
  ASSUME NEW rows, NEW turns, TakeTurns(rows, turns),
         NEW m \in 0 .. Len(turns), NEW c, NEW d,
         TurnsOf(turns, c, m) # TurnsOf(turns, c, Len(turns))
  PROVE  /\ IsFiniteSet(TurnsOf(turns, c, m)) /\ IsFiniteSet(TurnsOf(turns, d, m))
         /\ Cardinality(TurnsOf(turns, c, m)) + 1 >= Cardinality(TurnsOf(turns, d, m))
<1> DEFINE C == TurnsOf(turns, c, m)
           D == TurnsOf(turns, d, m)
<1>1. Len(turns) \in Nat /\ m \in Nat /\ m <= Len(turns)
  <2>1. turns \in Seq(Nat \X Nat)
    BY DEF TakeTurns
  <2> QED BY <2>1
<1>2. IsFiniteSet(C) /\ IsFiniteSet(D) /\ Cardinality(C) \in Nat /\ Cardinality(D) \in Nat
  <2>1. IsFiniteSet(1 .. m)
    BY <1>1, FS_Interval
  <2>2. C \subseteq 1 .. m /\ D \subseteq 1 .. m
    BY DEF TurnsOf
  <2>3. IsFiniteSet(C) /\ IsFiniteSet(D)
    BY <2>1, <2>2, FS_Subset
  <2> QED BY <2>3, FS_CardinalityType
\* The next turn of c.
<1> DEFINE open == {k \in 1 .. Len(turns) : k > m /\ turns[k][1] = c}
<1>3. open \in SUBSET Nat /\ open # {}
  <2>1. PICK k \in 1 .. Len(turns) : turns[k][1] = c /\ ~(k \in 1 .. m)
    BY <1>1 DEF TurnsOf
  <2>2. k > m
    BY <1>1, <2>1
  <2> QED BY <2>1, <2>2
<1>4. PICK next \in open : \A x \in open : next <= x
  <2> HIDE DEF open
  <2> QED BY <1>3, LeastExists
<1> DEFINE q == turns[next][2]
<1>5. /\ next \in 1 .. Len(turns) /\ next > m /\ turns[next][1] = c
      /\ q \in 1 .. Len(rows[c]) /\ c \in 1 .. Len(rows) /\ q \in Nat
  BY <1>4 DEF TakeTurns
<1>6. q = turns[next][2]
  OBVIOUS
<1> HIDE DEF q
\* Its earlier elements had their turns.
<1>7. \A part \in 1 .. q - 1 : \E k \in C : turns[k] = <<c, part>>
  <2> SUFFICES ASSUME NEW part \in 1 .. q - 1
               PROVE  \E k \in C : turns[k] = <<c, part>>
    OBVIOUS
  <2>1. part < q /\ part \in 1 .. Len(rows[c])
    BY <1>5
  <2>2. PICK k \in 1 .. Len(turns) : turns[k] = <<c, part>>
    BY <1>5, <2>1 DEF TakeTurns
  <2>3. k < next
    <3>1. turns[k][2] < turns[next][2]
      BY <1>6, <2>1, <2>2
    <3> QED BY <1>5, <3>1, TurnsInOrder
  <2>4. k \in 1 .. m
    <3>1. turns[k][1] = c
      BY <2>2
    <3>2. ~(k > m)
      BY <1>1, <1>4, <1>5, <2>3, <3>1
    <3> QED BY <1>1, <3>2
  <2> QED BY <2>2, <2>4 DEF TurnsOf
<1>8. q - 1 <= Cardinality(C)
  <2> DEFINE f == [part \in 1 .. q - 1 |-> CHOOSE k \in C : turns[k] = <<c, part>>]
  <2>1. \A part \in 1 .. q - 1 : f[part] \in C /\ turns[f[part]] = <<c, part>>
    BY <1>7
  <2>2. f \in [1 .. q - 1 -> C]
    BY <2>1
  <2>3. \A x, y \in 1 .. q - 1 : f[x] = f[y] => x = y
    <3> HIDE DEF f
    <3> SUFFICES ASSUME NEW x \in 1 .. q - 1, NEW y \in 1 .. q - 1, f[x] = f[y]
                 PROVE  x = y
      OBVIOUS
    <3>1. <<c, x>> = <<c, y>>
      BY <2>1
    <3> QED BY <3>1
  <2>4. IsFiniteSet(1 .. q - 1) /\ Cardinality(1 .. q - 1) = q - 1
    <3>1. q - 1 \in Nat
      BY <1>5
    <3> QED BY <3>1, IntervalCount
  <2> HIDE DEF f, C
  <2>5. Cardinality(1 .. q - 1) <= Cardinality(C)
    BY <1>2, <2>2, <2>3, <2>4, CountInto
  <2> QED BY <2>4, <2>5
\* No row is in a later round.
<1>9. Cardinality(D) <= q
  <2> DEFINE f == [k \in D |-> turns[k][2]]
  <2>1. ASSUME NEW k \in D
        PROVE  k \in 1 .. Len(turns) /\ turns[k] = <<d, turns[k][2]>> /\ turns[k][2] \in 1 .. q
    <3>1. k \in 1 .. m /\ turns[k][1] = d
      BY DEF TurnsOf
    <3>2. k \in 1 .. Len(turns) /\ k < next
      BY <1>1, <1>5, <3>1
    <3>3. turns[k][2] <= turns[next][2] /\ turns[k] = <<turns[k][1], turns[k][2]>>
      BY <1>5, <3>2, TurnsInOrder
    <3>4. turns[k][2] \in 1 .. Len(rows[turns[k][1]])
      BY <3>2 DEF TakeTurns
    <3>5. turns[k][2] \in Nat
      BY <3>2, <3>4
    <3> QED BY <1>5, <1>6, <3>1, <3>2, <3>3, <3>4, <3>5
  <2>2. f \in [D -> 1 .. q]
    BY <2>1
  <2>3. \A x, y \in D : f[x] = f[y] => x = y
    <3> SUFFICES ASSUME NEW x \in D, NEW y \in D, turns[x][2] = turns[y][2]
                 PROVE  x = y
      OBVIOUS
    <3>1. turns[x] = turns[y]
      BY <2>1
    <3>2. x \in 1 .. Len(turns) /\ y \in 1 .. Len(turns)
      BY <2>1
    <3>3. ~(x < y) /\ ~(y < x)
      BY <3>1, <3>2, TurnsInOrder
    <3> QED BY <3>2, <3>3
  <2>4. IsFiniteSet(1 .. q) /\ Cardinality(1 .. q) = q
    BY <1>5, IntervalCount
  <2> HIDE DEF f, D
  <2>5. Cardinality(D) <= Cardinality(1 .. q)
    BY <1>2, <2>2, <2>3, <2>4, CountInto
  <2> QED BY <2>4, <2>5
<1> HIDE DEF C, D
<1>10. Cardinality(C) + 1 >= Cardinality(D)
  BY <1>2, <1>5, <1>8, <1>9
<1> QED BY <1>2, <1>10 DEF C, D

-----------------------------------------------------------------------------
\* The main loop of a plan: rows that fit, taken in turn.
LoopOf(p, rows, turns) ==
  /\ TakeTurns(rows, turns) /\ Interleaved(rows, turns, p.frames) /\ Fits(p.frames)

LEMMA PlansInterleave ==
  ASSUME NEW p \in Plans
  PROVE  \E rows, turns : LoopOf(p, rows, turns)
<1> DEFINE rows == [choice \in 1 .. p.tokenSets |-> BuildFrames(choice, p.messages[choice])]
<1>1. /\ p.messages \in Seq(ChoicesToTell) /\ p.tokenSets \in 0 .. Len(p.messages)
      /\ p.frames = InterleaveChoices(rows)
  BY FramesAssumption DEF StreamFrames
<1>2. \A choice \in 1 .. p.tokenSets : /\ choice \in Nat
                                       /\ p.messages[choice] \in ChoicesToTell
  <2> DEFINE m == p.messages
             n == p.tokenSets
  <2>1. m \in Seq(ChoicesToTell) /\ n \in 0 .. Len(m)
    BY <1>1
  <2> HIDE DEF m, n
  <2>2. \A choice \in 1 .. n : choice \in Nat /\ m[choice] \in ChoicesToTell
    BY <2>1
  <2> QED BY <2>2 DEF m, n
<1>3. \A choice \in 1 .. p.tokenSets :
        RowOf(choice, BuildFrames(choice, p.messages[choice]))
  BY <1>2, BuildFramesFits
<1>4. \A choice \in 1 .. p.tokenSets :
        BuildFrames(choice, p.messages[choice]) \in Seq(Deltas)
  BY <1>3 DEF RowOf
<1>5. rows \in Seq(Seq(Deltas)) /\ Len(rows) = p.tokenSets
      /\ \A r \in 1 .. Len(rows) : RowOf(r, rows[r])
  <2> DEFINE n == p.tokenSets
  <2>1. n \in Nat
    <3>1. Len(p.messages) \in Nat
      BY <1>1
    <3> QED BY <1>1, <3>1
  <2> HIDE DEF n
  <2>2. [choice \in 1 .. n |-> BuildFrames(choice, p.messages[choice])] \in Seq(Seq(Deltas))
    BY <1>4, <2>1 DEF n
  <2>3. Len([choice \in 1 .. n |-> BuildFrames(choice, p.messages[choice])]) = n
    BY <2>1
  <2> QED BY <1>3, <2>2, <2>3 DEF n
<1> HIDE DEF rows
<1>6. LoopOf(p, rows, RoundRobin(rows))
  BY <1>1, <1>5, InterleaveFits DEF LoopOf
<1> QED BY <1>6

\* A frame that a client needs nothing for, and that tells of no choice.
Closes(frame) == frame.kind \in ClosingKinds /\ (frame.kind = "finish" \/ frame.choice = 0)

LEMMA WholeCloses ==
  ASSUME NEW p \in Plans
  PROVE  \A k \in Len(p.frames) + 1 .. Len(Whole(p)) : Closes(Whole(p)[k])
<1> DEFINE frames == p.frames
           finish == [choice \in 1 .. p.choices |-> Frame(choice, "finish", 0, 0)]
           usage == IF p.usage THEN <<Frame(0, "usage", 0, 0)>> ELSE <<>>
           done == <<Frame(0, "done", 0, 0)>>
           closing == finish \o usage \o done
<1>1. frames \in Seq(AllFrames) /\ p.choices \in Nat
  <2>1. frames \in Seq(Frames(DeltaKinds)) /\ p.choices \in Nat
    BY PlanAssumption
  <2>2. Frames(DeltaKinds) \subseteq AllFrames
    BY DEF Frames, AllFrames
  <2> HIDE DEF frames
  <2> QED BY <2>1, <2>2
<1>2. /\ finish \in Seq(AllFrames)
      /\ \A k \in 1 .. Len(finish) : Closes(finish[k])
  <2>1. \A choice \in 1 .. p.choices :
          /\ Frame(choice, "finish", 0, 0) \in AllFrames
          /\ Closes(Frame(choice, "finish", 0, 0))
    BY <1>1 DEF Frame, AllFrames, Frames, ClosingKinds, Closes
  <2> QED BY <1>1, <2>1
<1>3. /\ usage \in Seq(AllFrames)
      /\ \A k \in 1 .. Len(usage) : Closes(usage[k])
  <2>1. Frame(0, "usage", 0, 0) \in AllFrames /\ Closes(Frame(0, "usage", 0, 0))
    BY DEF Frame, AllFrames, Frames, ClosingKinds, Closes
  <2> QED BY <2>1
<1>4. /\ done \in Seq(AllFrames)
      /\ \A k \in 1 .. Len(done) : Closes(done[k])
  BY DEF Frame, AllFrames, Frames, ClosingKinds, Closes
<1>5. Whole(p) = frames \o closing
  BY DEF Whole, Closing
<1> HIDE DEF finish, usage, done, frames
<1>6. /\ closing \in Seq(AllFrames)
      /\ Len(closing) = Len(finish) + Len(usage) + Len(done)
      /\ \A k \in 1 .. Len(finish) : closing[k] = finish[k]
      /\ \A k \in 1 .. Len(usage) : closing[Len(finish) + k] = usage[k]
      /\ \A k \in 1 .. Len(done) : closing[Len(finish) + Len(usage) + k] = done[k]
  BY <1>2, <1>3, <1>4, ThreePlaces
<1> HIDE DEF closing
<1>7. \A k \in 1 .. Len(closing) : Closes(closing[k])
  <2> DEFINE a == Len(finish)
             b == Len(usage)
             c == Len(done)
  <2>1. a \in Nat /\ b \in Nat /\ c \in Nat
    BY <1>2, <1>3, <1>4
  <2> SUFFICES ASSUME NEW k \in 1 .. a + b + c PROVE Closes(closing[k])
    BY <1>6
  <2> HIDE DEF a, b, c
  <2>2. \/ k \in 1 .. a
        \/ k - a \in 1 .. b /\ a + (k - a) = k
        \/ k - (a + b) \in 1 .. c /\ a + b + (k - (a + b)) = k
    BY <2>1
  <2> QED BY <1>2, <1>3, <1>4, <1>6, <2>2 DEF a, b, c
<1>8. /\ Len(frames \o closing) = Len(frames) + Len(closing)
      /\ \A k \in 1 .. Len(closing) : (frames \o closing)[Len(frames) + k] = closing[k]
  <2>1. frames \in Seq(AllFrames) /\ closing \in Seq(AllFrames)
    BY <1>1, <1>6
  <2> QED BY <2>1, ConcatPlaces
<1> DEFINE n == Len(frames)
           m == Len(closing)
<1>9. n \in Nat /\ m \in Nat
  BY <1>1, <1>6
<1>10. \A k \in n + 1 .. Len(Whole(p)) : Closes(Whole(p)[k])
  <2> SUFFICES ASSUME NEW k \in n + 1 .. n + m PROVE Closes((frames \o closing)[k])
    BY <1>5, <1>8
  <2> HIDE DEF n, m
  <2>1. k - n \in 1 .. m /\ n + (k - n) = k
    BY <1>9
  <2> QED BY <1>7, <1>8, <2>1 DEF n, m
<1> QED BY <1>10 DEF frames

\* A client has m frames of the main loop and, behind them, what closes.
HasOfLoop(p, o, m) ==
  /\ m \in 0 .. Len(p.frames) /\ m \in 0 .. Len(o)
  /\ \A k \in 1 .. m : o[k] = p.frames[k]
  /\ \A k \in m + 1 .. Len(o) : Closes(o[k])

LEMMA ClientsHaveOfLoop ==
  ASSUME NEW p \in Plans, NEW o \in Seq(AllFrames),
         Telling(p, o) \/ Failed(p, o) \/ FailedDone(p, o)
  PROVE  \E m : HasOfLoop(p, o, m)
<1> DEFINE n == Len(p.frames)
           w == Len(Whole(p))
           l == Len(o)
<1>1. n \in Nat /\ w \in Nat /\ n < w /\ l \in Nat
      /\ \A k \in 1 .. n : Whole(p)[k] = p.frames[k]
  BY WholeShape
<1>2. \A k \in n + 1 .. w : Closes(Whole(p)[k])
  BY WholeCloses
<1>3. Closes(ErrorFrame) /\ Closes(DoneFrame)
  BY DEF ErrorFrame, DoneFrame, Frame, Closes, ClosingKinds
<1>4. CASE Telling(p, o)
  <2>1. l <= w /\ \A k \in 1 .. l : o[k] = Whole(p)[k]
    BY <1>4 DEF Telling, Tells
  <2> HIDE DEF n, w, l
  <2>2. CASE l <= n
    <3>1. /\ l \in 0 .. n /\ l \in 0 .. l /\ \A k \in l + 1 .. l : FALSE
          /\ \A k \in 1 .. l : o[k] = p.frames[k]
      BY <1>1, <2>1, <2>2
    <3>2. HasOfLoop(p, o, l)
      BY <3>1 DEF HasOfLoop, n, l
    <3> QED BY <3>2
  <2>3. CASE n < l
    <3>1. /\ n \in 0 .. n /\ n \in 0 .. l
          /\ \A k \in 1 .. n : o[k] = p.frames[k]
          /\ \A k \in n + 1 .. l : Closes(o[k])
      BY <1>1, <1>2, <2>1, <2>3
    <3>2. HasOfLoop(p, o, n)
      BY <3>1 DEF HasOfLoop, n, l
    <3> QED BY <3>2
  <2> QED BY <1>1, <2>2, <2>3
<1>5. CASE Failed(p, o)
  <2>1. l \in 1 .. n + 1 /\ o[l] = ErrorFrame /\ \A k \in 1 .. l - 1 : o[k] = Whole(p)[k]
    BY <1>5 DEF Failed, Tells
  <2> HIDE DEF n, w, l
  <2>2. /\ l - 1 \in 0 .. n /\ l - 1 \in 0 .. l
        /\ \A k \in 1 .. l - 1 : o[k] = p.frames[k]
        /\ \A k \in (l - 1) + 1 .. l : k = l
    BY <1>1, <2>1
  <2>3. HasOfLoop(p, o, l - 1)
    BY <1>3, <2>1, <2>2 DEF HasOfLoop, n, l
  <2> QED BY <2>3
<1>6. CASE FailedDone(p, o)
  <2>1. /\ l \in 2 .. n + 2 /\ o[l] = DoneFrame /\ o[l - 1] = ErrorFrame
        /\ \A k \in 1 .. l - 2 : o[k] = Whole(p)[k]
    BY <1>6 DEF FailedDone, Tells
  <2> HIDE DEF n, w, l
  <2>2. /\ l - 2 \in 0 .. n /\ l - 2 \in 0 .. l
        /\ \A k \in 1 .. l - 2 : o[k] = p.frames[k]
        /\ \A k \in (l - 2) + 1 .. l : k = l \/ k = l - 1
    BY <1>1, <2>1
  <2>3. HasOfLoop(p, o, l - 2)
    BY <1>3, <2>1, <2>2 DEF HasOfLoop, n, l
  <2> QED BY <2>3
<1> QED BY <1>4, <1>5, <1>6

\* What any client has, of a plan.
Assembling ==
  \A s \in Streams :
    /\ plan[s] = None => out[s] = <<>>
    /\ plan[s] # None =>
         \E rows, turns, m : LoopOf(plan[s], rows, turns) /\ HasOfLoop(plan[s], out[s], m)

LEMMA ClientsAssemble == TypeOK /\ Shaped => Assembling
<1> SUFFICES ASSUME TypeOK, Shaped, NEW s \in Streams
             PROVE  /\ plan[s] = None => out[s] = <<>>
                    /\ plan[s] # None =>
                         \E rows, turns, m : /\ LoopOf(plan[s], rows, turns)
                                             /\ HasOfLoop(plan[s], out[s], m)
  BY DEF Assembling
<1>1. plan[s] = None => out[s] = <<>>
  BY DEF TypeOK, Shaped
<1>2. ASSUME plan[s] # None
      PROVE  \E rows, turns, m : /\ LoopOf(plan[s], rows, turns)
                                 /\ HasOfLoop(plan[s], out[s], m)
  <2> DEFINE p == plan[s]
             o == out[s]
  <2>1. p \in Plans /\ o \in Seq(AllFrames)
    BY <1>2 DEF TypeOK, AllFrames
  <2>2. Shape(p, pc[s], fires[s], o)
    BY <1>2 DEF Shaped
  <2>3. /\ pc[s] \in {"refused", "created"} => o = <<>>
        /\ pc[s] \in {"refused", "created", "ended", "dropped"} \cup Started
    BY <1>2, <2>2 DEF Shaped, Shape, TypeOK
  <2> HIDE DEF p, o
  <2>4. o = <<>> => Telling(p, o)
    <3>1. Len(Whole(p)) \in Nat
      BY <2>1, WholeShape
    <3> QED BY <3>1 DEF Telling, Tells
  <2>5. Telling(p, o) \/ Failed(p, o) \/ FailedDone(p, o)
    BY <2>2, <2>3, <2>4 DEF Shape, Started, InLoop, Complete, CutOff
  <2>6. PICK m : HasOfLoop(p, o, m)
    BY <2>1, <2>5, ClientsHaveOfLoop
  <2>7. PICK rows, turns : LoopOf(p, rows, turns)
    BY <2>1, PlansInterleave
  <2> QED BY <2>6, <2>7 DEF p, o
<1> QED BY <1>1, <1>2

LEMMA AssembledInPlace == TypeOK /\ Assembling => FramesFindTheirPlace
<1> SUFFICES ASSUME TypeOK, Assembling, NEW s \in Streams, NEW k \in DOMAIN out[s]
             PROVE  LET frame == out[s][k]
                        before == {out[s][j] : j \in 1 .. k - 1}
                    IN /\ frame.choice # 0 /\ frame.kind \notin {"role", "finish"} =>
                            Frame(frame.choice, "role", 0, 0) \in before
                       /\ frame.kind = "arguments" =>
                            /\ Frame(frame.choice, "call", frame.call, 0) \in before
                            /\ frame.part > 1 => [frame EXCEPT !.part = @ - 1] \in before
  BY DEF FramesFindTheirPlace
<1> DEFINE p == plan[s]
           o == out[s]
           frame == o[k]
<1>1. o \in Seq(AllFrames) /\ k \in 1 .. Len(o) /\ Len(o) \in Nat
  <2>1. o \in Seq(AllFrames)
    BY DEF TypeOK, AllFrames
  <2> QED BY <2>1
<1>2. p # None
  <2>1. DOMAIN <<>> = {}
    OBVIOUS
  <2> QED BY <2>1 DEF Assembling
<1>3. PICK rows, turns, m : LoopOf(p, rows, turns) /\ HasOfLoop(p, o, m)
  BY <1>2 DEF Assembling
<1>4. /\ p.frames \in Seq(Deltas) /\ Fits(p.frames) /\ Len(p.frames) \in Nat
      /\ m \in 0 .. Len(p.frames) /\ m \in 0 .. Len(o)
      /\ \A j \in 1 .. m : o[j] = p.frames[j]
      /\ \A j \in m + 1 .. Len(o) : Closes(o[j])
  BY <1>3 DEF LoopOf, Interleaved, HasOfLoop
<1> HIDE DEF p, o
<1>5. CASE k \in 1 .. m
  <2>1. /\ k \in 1 .. Len(p.frames) /\ frame = p.frames[k]
    BY <1>4, <1>5
  <2>2. frame \in Deltas
    BY <1>4, <2>1
  <2> HIDE DEF frame
  <2>3. \A x \in Needs(frame) : \E j \in 1 .. k - 1 : o[j] = x
    <3> SUFFICES ASSUME NEW x \in Needs(frame) PROVE \E j \in 1 .. k - 1 : o[j] = x
      OBVIOUS
    <3>1. PICK j \in 1 .. k - 1 : p.frames[j] = x
      BY <1>4, <2>1 DEF Fits
    <3>2. j \in 1 .. m
      BY <1>4, <1>5
    <3> QED BY <1>4, <3>1, <3>2
  <2>4. frame.kind # "role" => Frame(frame.choice, "role", 0, 0) \in Needs(frame)
    BY DEF Needs
  <2>5. frame.kind = "arguments" =>
          /\ Frame(frame.choice, "call", frame.call, 0) \in Needs(frame)
          /\ frame.part > 1 =>
               Frame(frame.choice, "arguments", frame.call, frame.part - 1) \in Needs(frame)
    BY DEF Needs
  <2>6. frame.kind = "arguments" =>
          [frame EXCEPT !.part = @ - 1]
            = Frame(frame.choice, "arguments", frame.call, frame.part - 1)
    BY <2>2 DEF Deltas, Frames, Frame
  <2> QED BY <2>3, <2>4, <2>5, <2>6 DEF o, frame
<1>6. CASE ~(k \in 1 .. m)
  <2>1. k \in m + 1 .. Len(o)
    BY <1>1, <1>4, <1>6
  <2>2. Closes(frame)
    BY <1>4, <2>1
  <2> HIDE DEF frame
  <2>3. /\ frame.choice # 0 => frame.kind = "finish"
        /\ frame.kind # "arguments"
    BY <2>2 DEF Closes, ClosingKinds
  <2> QED BY <2>3 DEF o, frame
<1> QED BY <1>5, <1>6

LEMMA AssembledInPace == TypeOK /\ Assembling => ChoicesKeepPace
<1> SUFFICES ASSUME TypeOK, Assembling, NEW s \in Streams, plan[s] # None,
                    NEW c \in 1 .. plan[s].choices, NEW d \in 1 .. plan[s].choices
             PROVE  \/ Cardinality(OfChoice(s, c)) + 1 >= Cardinality(OfChoice(s, d))
                    \/ Cardinality(OfChoice(s, c)) = Cardinality(ToTell(s, c))
  BY DEF ChoicesKeepPace
<1> DEFINE p == plan[s]
           o == out[s]
<1>1. /\ o \in Seq(AllFrames) /\ Len(o) \in Nat /\ DOMAIN o = 1 .. Len(o)
      /\ p \in Plans /\ c \in Nat \ {0} /\ d \in Nat \ {0}
  <2>1. o \in Seq(AllFrames) /\ p \in Plans
    BY DEF TypeOK, AllFrames
  <2>2. p.choices \in Nat
    BY <2>1, PlanAssumption
  <2> QED BY <2>1, <2>2
<1>2. PICK rows, turns, m : LoopOf(p, rows, turns) /\ HasOfLoop(p, o, m)
  BY DEF Assembling
<1>3. TakeTurns(rows, turns) /\ Interleaved(rows, turns, p.frames)
  BY <1>2 DEF LoopOf
<1>4. /\ p.frames \in Seq(Deltas) /\ Len(p.frames) \in Nat /\ Len(p.frames) = Len(turns)
      /\ \A j \in 1 .. Len(turns) : /\ p.frames[j].choice = turns[j][1]
                                    /\ p.frames[j] \in Deltas
      /\ m \in 0 .. Len(turns) /\ m \in 0 .. Len(o)
      /\ \A j \in 1 .. m : o[j] = p.frames[j]
      /\ \A j \in m + 1 .. Len(o) : Closes(o[j])
  <2>1. p.frames \in Seq(Deltas) /\ Len(p.frames) = Len(turns)
    BY <1>3 DEF Interleaved
  <2>2. \A j \in 1 .. Len(turns) : p.frames[j] \in Deltas
    BY <2>1
  <2> QED BY <1>2, <1>3, <2>1, <2>2 DEF Interleaved, HasOfLoop
<1> HIDE DEF p, o
<1>5. ASSUME NEW e \in Nat \ {0}
      PROVE  {k \in DOMAIN o : o[k].choice = e /\ o[k].kind # "finish"} = TurnsOf(turns, e, m)
  <2>1. ASSUME NEW k \in 1 .. m
        PROVE  o[k].choice = turns[k][1] /\ o[k].kind # "finish" /\ k \in 1 .. Len(o)
    <3>1. k \in 1 .. Len(turns) /\ o[k] = p.frames[k] /\ k \in 1 .. Len(o)
      BY <1>1, <1>4
    <3>2. o[k].choice = turns[k][1] /\ o[k] \in Deltas
      BY <1>4, <3>1
    <3>3. o[k].kind # "finish"
      BY <3>2 DEF Deltas, Frames, DeltaKinds
    <3> QED BY <3>1, <3>2, <3>3
  <2>2. ASSUME NEW k \in 1 .. Len(o), ~(k \in 1 .. m)
        PROVE  o[k].choice # e \/ o[k].kind = "finish"
    <3>1. k \in m + 1 .. Len(o)
      BY <1>1, <1>4, <2>2
    <3>2. Closes(o[k])
      BY <1>4, <3>1
    <3> QED BY <3>2 DEF Closes
  <2> QED BY <1>1, <2>1, <2>2 DEF TurnsOf
<1>6. {k \in DOMAIN p.frames : p.frames[k].choice = c} = TurnsOf(turns, c, Len(turns))
  <2>1. DOMAIN p.frames = 1 .. Len(turns)
    BY <1>4
  <2> QED BY <1>4, <2>1 DEF TurnsOf
<1>7. /\ OfChoice(s, c) = TurnsOf(turns, c, m)
      /\ OfChoice(s, d) = TurnsOf(turns, d, m)
      /\ ToTell(s, c) = TurnsOf(turns, c, Len(turns))
  BY <1>1, <1>5, <1>6 DEF OfChoice, ToTell, o, p
<1>8. CASE TurnsOf(turns, c, m) = TurnsOf(turns, c, Len(turns))
  BY <1>7, <1>8
<1>9. CASE TurnsOf(turns, c, m) # TurnsOf(turns, c, Len(turns))
  <2>1. Cardinality(TurnsOf(turns, c, m)) + 1 >= Cardinality(TurnsOf(turns, d, m))
    BY <1>3, <1>4, <1>9, TurnsKeepPace
  <2> QED BY <1>7, <2>1
<1> QED BY <1>8, <1>9

\* Whatever the shapes of the choices, and wherever a fault or the client cuts
\* the stream, each frame comes behind those it is assembled with (build_frames,
\* tool_call_frames, interleave).
THEOREM FramesAreInPlace == Spec => []FramesFindTheirPlace
BY InitShaped, NextShaped, ClientsAssemble, AssembledInPlace, PTL DEF Spec

\* No choice runs ahead of one that has something left to tell (interleave).
THEOREM ChoicesAreInPace == Spec => []ChoicesKeepPace
BY InitShaped, NextShaped, ClientsAssemble, AssembledInPace, PTL DEF Spec

===============================================================================
