-------------------------- MODULE ControlPlaneProofs --------------------------
(***************************************************************************)
(* Theorems about the control plane, for any calls, requests and log       *)
(* capacity: what a reset forgets, which profile an answer follows, what   *)
(* the log has, and what profile writes leave.                             *)
(***************************************************************************)
EXTENDS ControlPlane, DataFacts, FiniteSetTheorems, SequenceTheorems, TLAPS

\* A full log makes room for one entry: it stays a log, and nothing but the
\* new entry comes in.
LEMMA PushShape ==
  ASSUME NEW c \in Calls, NEW entries \in Seq(Calls), Len(entries) <= Capacity
  PROVE  /\ Push(entries, c) \in Seq(Calls)
         /\ Len(Push(entries, c)) <= Capacity
         /\ Range(Push(entries, c)) \subseteq Range(entries) \cup {c}
<1> DEFINE kept == IF Len(entries) = Capacity THEN Tail(entries) ELSE entries
<1>1. Capacity \in Nat /\ Capacity > 0
  BY ControlAssumption
<1>2. kept \in Seq(Calls) /\ Len(kept) < Capacity
  BY <1>1
<1>3. \A i \in 1 .. Len(kept) : \E j \in 1 .. Len(entries) :
        kept[i] = entries[j]
  <2>1. CASE Len(entries) = Capacity
    <3>1. entries # <<>>
      BY <1>1, <2>1
    <3>2. Len(kept) = Len(entries) - 1
          /\ \A i \in 1 .. Len(kept) : kept[i] = entries[i + 1]
      BY <2>1, <3>1
    <3> QED BY <3>2
  <2>2. CASE Len(entries) # Capacity
    BY <2>2
  <2> QED BY <2>1, <2>2
<1>4. Push(entries, c) = Append(kept, c)
  BY DEF Push
<1>5. \A i \in 1 .. Len(kept) + 1 :
        Append(kept, c)[i] = IF i = Len(kept) + 1 THEN c ELSE kept[i]
  BY <1>2
<1>6. DOMAIN Append(kept, c) = 1 .. Len(kept) + 1
      /\ DOMAIN entries = 1 .. Len(entries)
  BY <1>2
<1>7. Range(Append(kept, c)) \subseteq Range(entries) \cup {c}
  <2> SUFFICES ASSUME NEW i \in 1 .. Len(kept) + 1
               PROVE  Append(kept, c)[i] \in Range(entries) \cup {c}
    BY <1>6 DEF Range
  <2>1. CASE i = Len(kept) + 1
    BY <1>5, <2>1
  <2>2. CASE i # Len(kept) + 1
    <3>1. i \in 1 .. Len(kept)
      BY <1>2, <2>2
    <3>2. PICK j \in 1 .. Len(entries) : kept[i] = entries[j]
      BY <1>3, <3>1
    <3>3. entries[j] \in Range(entries)
      BY <1>6 DEF Range
    <3>4. Append(kept, c)[i] = kept[i]
      BY <1>5, <2>2
    <3> QED BY <3>2, <3>3, <3>4
  <2> QED BY <2>1, <2>2
<1> HIDE DEF kept
<1> QED BY <1>1, <1>2, <1>4, <1>7

-----------------------------------------------------------------------------
(***************************************************************************)
(* Types.                                                                  *)
(***************************************************************************)
Metrics ==
  [requests : Nat, errors : Nat, completions : Nat, faults : Nat]

\* Counting keeps counters counters.
LEMMA MetricsShape ==
  ASSUME NEW m \in Metrics, NEW e \in {m.errors, m.errors + 1}
  PROVE  /\ [m EXCEPT !.faults = @ + 1] \in Metrics
         /\ [m EXCEPT !.completions = @ + 1] \in Metrics
         /\ [m EXCEPT !.requests = @ + 1, !.errors = e] \in Metrics
<1>1. /\ m.faults + 1 \in Nat /\ m.completions + 1 \in Nat
      /\ m.requests + 1 \in Nat /\ e \in Nat
  BY DEF Metrics
<1>2. [m EXCEPT !.faults = @ + 1] \in Metrics
  BY <1>1 DEF Metrics
<1>3. [m EXCEPT !.completions = @ + 1] \in Metrics
  BY <1>1 DEF Metrics
<1>4. [m EXCEPT !.requests = @ + 1, !.errors = e] \in Metrics
  BY <1>1 DEF Metrics
<1> QED BY <1>2, <1>3, <1>4

LEMMA InitTypeOK == Init => TypeOK
<1> SUFFICES ASSUME Init PROVE TypeOK
  OBVIOUS
<1>1. /\ profile \in Profiles
      /\ log \in Seq(Calls) /\ Len(log) <= Capacity
  BY ControlAssumption DEF Init
<1>2. metrics \in [requests : Nat, errors : Nat, completions : Nat, faults : Nat]
  BY DEF Init
<1> QED BY <1>1, <1>2 DEF Init, TypeOK, Stages

LEMMA NextTypeOK == TypeOK /\ [Next]_vars => TypeOK'
<1> SUFFICES ASSUME TypeOK, [Next]_vars PROVE TypeOK'
  OBVIOUS
<1> USE DEF TypeOK, Stages, Over, Decided, shared, local, history, Goto, Answer
<1>1. ASSUME NEW c \in Calls, NEW q \in Requests, Arrive(c, q)
      PROVE  TypeOK'
  BY <1>1 DEF Arrive
<1>2. ASSUME NEW c \in Calls, NEW p \in Profiles, StoreProfile(c, p)
      PROVE  /\ profile' \in Profiles
             /\ lives' \in [Calls -> SUBSET Profiles]
             /\ written' \in Seq(Calls)
  BY <1>2 DEF StoreProfile
<1>3. ASSUME NEW c \in Calls, NEW p, Write(c, p)
      PROVE  TypeOK'
  <2>1. CASE Deserializes(p)
    BY <1>2, <1>3, <2>1 DEF Write, StoreProfile, Deserializes
  <2>2. CASE ~Deserializes(p)
    BY <1>3, <2>2 DEF Write
  <2> QED BY <2>1, <2>2
<1>4. ASSUME NEW c \in Calls, Put(c) \/ Patch(c)
      PROVE  TypeOK'
  BY <1>3, <1>4 DEF Put, Patch
<1>5. ASSUME NEW c \in Calls,
             Refuse(c) \/ LoadProfile(c) \/ SaveResponse(c)
               \/ CreateConversation(c)
      PROVE  TypeOK'
  <2>1. CASE LoadProfile(c)
    BY <1>5, <2>1 DEF LoadProfile
  <2>2. CASE Refuse(c)
    BY <1>5, <2>2 DEF Refuse
  <2>3. CASE SaveResponse(c)
    BY <1>5, <2>3 DEF SaveResponse
  <2>4. CASE CreateConversation(c)
    BY <1>5, <2>4 DEF CreateConversation
  <2> QED BY <1>5, <2>1, <2>2, <2>3, <2>4
<1>6. ASSUME NEW c \in Calls, ReadLog(c)
      PROVE  TypeOK'
  <2>1. listed' \in [Calls -> Seq(Calls)]
    BY <1>6 DEF ReadLog
  <2> QED BY <1>6, <2>1 DEF ReadLog
<1>7. ASSUME NEW c \in Calls, Complete(c) \/ Count(c)
      PROVE  TypeOK'
  <2>1. metrics' \in Metrics
    BY <1>7, MetricsShape DEF Complete, Count, Metrics
  <2> QED BY <1>7, <2>1 DEF Complete, Count, Metrics
<1>8. ASSUME NEW c \in Calls, ResetProfile(c)
      PROVE  TypeOK'
  BY <1>2, <1>8, ControlAssumption DEF ResetProfile, StoreProfile
<1>9. ASSUME NEW c \in Calls,
             ResetLog(c) \/ ResetResponses(c) \/ ResetConversations(c)
      PROVE  TypeOK'
  <2>1. log' \in Seq(Calls) /\ Len(log') <= Capacity
    <3>1. <<>> \in Seq(Calls) /\ Len(<<>>) = 0 /\ 0 <= Capacity
      BY ControlAssumption
    <3> QED BY <1>9, <3>1 DEF ResetLog, ResetResponses, ResetConversations
  <2> QED BY <1>9, <2>1 DEF ResetLog, ResetResponses, ResetConversations
<1>10. ASSUME NEW c \in Calls, Record(c)
       PROVE  TypeOK'
  BY <1>10, PushShape DEF Record
<1>11. ASSUME NEW c \in Calls, Disconnect(c)
       PROVE  TypeOK'
  BY <1>11 DEF Disconnect
<1>12. CASE UNCHANGED vars
  BY <1>12 DEF vars
<1> QED BY <1>1, <1>4, <1>5, <1>6, <1>7, <1>8, <1>9, <1>10, <1>11, <1>12
        DEF Next, Serve

\* Every shared object and every call stays in one of its states: the log is
\* never longer than LOG_CAPACITY, and the profile is always a whole one.
THEOREM ControlTypeCorrect == Spec => []TypeOK
<1>1. Init => TypeOK
  BY InitTypeOK
<1>2. TypeOK /\ [Next]_vars => TypeOK'
  BY NextTypeOK
<1> QED BY <1>1, <1>2, PTL DEF Spec

-----------------------------------------------------------------------------
(***************************************************************************)
(* What a reset forgets.                                                   *)
(***************************************************************************)
\* A call enters the log as its last step and a store before its answer, and
\* is not over before either; so nothing comes back after its reset.
LoggedAreDone == \A q \in Range(log) : pc[q] = "done"
StoredAreDecided == \A q \in responses \cup conversations : pc[q] \in Decided
BeforeIsOver == \A z \in Calls : \A q \in before[z] : pc[q] \in Over

LogCleared == {"clear_responses", "clear_conversations"} \cup Decided
ResponsesCleared == {"clear_conversations"} \cup Decided
SavesComplete == \A c \in Calls : pc[c] = "save" => Route(c) # "reset"
ResetClears ==
  \A z \in Calls : Route(z) = "reset" =>
    /\ pc[z] \in LogCleared => before[z] \cap Range(log) = {}
    /\ pc[z] \in ResponsesCleared => before[z] \cap responses = {}
    /\ pc[z] \in Decided => before[z] \cap conversations = {}

Forgetting ==
  /\ TypeOK /\ SavesComplete
  /\ LoggedAreDone /\ StoredAreDecided /\ BeforeIsOver /\ ResetClears

\* What every action of a call does to the calls: it moves that call, which
\* was not over, and only its arrival sets what it asks and what was before.
Moves(c) ==
  /\ pc[c] \notin Over
  /\ \A d \in Calls \ {c} : /\ pc'[d] = pc[d]
                           /\ request'[d] = request[d]
                           /\ before'[d] = before[d]
  /\ IF pc[c] = "idle"
     THEN pc'[c] = "open" /\ before'[c] = {d \in Calls : pc[d] \in Over}
     ELSE /\ pc'[c] # "idle"
          /\ request'[c] = request[c]
          /\ before'[c] = before[c]

LEMMA StepMoves ==
  ASSUME TypeOK, NEW c \in Calls,
         (\E q \in Requests : Arrive(c, q)) \/ Serve(c) \/ Disconnect(c)
  PROVE  Moves(c)
<1> USE DEF TypeOK, Over, Moves, Goto, history, MayBeDropped
<1>1. CASE \E q \in Requests : Arrive(c, q)
  BY <1>1 DEF Arrive
<1>2. ASSUME NEW p, Write(c, p), pc[c] \in {"open", "loaded"}
      PROVE  Moves(c)
  BY <1>2 DEF Write, StoreProfile
<1>3. CASE Put(c) \/ Patch(c)
  BY <1>2, <1>3 DEF Put, Patch
<1>4. CASE Refuse(c) \/ LoadProfile(c) \/ SaveResponse(c)
             \/ CreateConversation(c) \/ ReadLog(c)
  BY <1>4 DEF Refuse, LoadProfile, SaveResponse, CreateConversation, ReadLog
<1>5. CASE Complete(c)
  BY <1>5 DEF Complete
<1>6. CASE ResetProfile(c) \/ ResetLog(c) \/ ResetResponses(c)
             \/ ResetConversations(c)
  BY <1>6 DEF ResetProfile, StoreProfile, ResetLog, ResetResponses,
              ResetConversations
<1>7. CASE Count(c) \/ Record(c)
  BY <1>7 DEF Count, Record
<1>8. CASE Disconnect(c)
  BY <1>8 DEF Disconnect
<1> QED BY <1>1, <1>3, <1>4, <1>5, <1>6, <1>7, <1>8 DEF Serve

\* What every action of a call does to the log and the stores: it adds at
\* most the call itself, at its stage; a reset empties each before it goes on.
Marks(c) ==
  /\ pc'[c] = "save" => Route(c) # "reset" /\ pc[c] # "idle"
  /\ pc[c] \in Decided => pc'[c] \in Decided
  /\ \/ Range(log') \subseteq Range(log)
     \/ /\ pc[c] = "counted" /\ pc'[c] = "done"
        /\ Range(log') \subseteq Range(log) \cup {c}
  /\ \/ responses' \subseteq responses
     \/ /\ pc[c] = "save" /\ pc'[c] = "answered"
        /\ responses' \subseteq responses \cup {c}
  /\ \/ conversations' \subseteq conversations
     \/ /\ pc[c] = "open" /\ pc'[c] = "answered"
        /\ conversations' \subseteq conversations \cup {c}
  /\ Route(c) = "reset" =>
       /\ pc'[c] \in LogCleared => pc[c] \in LogCleared \/ Range(log') = {}
       /\ pc'[c] \in ResponsesCleared =>
            pc[c] \in ResponsesCleared \/ responses' = {}
       /\ pc'[c] \in Decided => pc[c] \in Decided \/ conversations' = {}

LEMMA StepMarks ==
  ASSUME TypeOK, SavesComplete, NEW c \in Calls,
         (\E q \in Requests : Arrive(c, q)) \/ Serve(c) \/ Disconnect(c)
  PROVE  Marks(c)
<1> USE DEF TypeOK, Marks, Goto, Decided, LogCleared, ResponsesCleared
<1>1. CASE \E q \in Requests : Arrive(c, q)
  BY <1>1 DEF Arrive, shared
<1>2. ASSUME NEW p, Write(c, p), pc[c] \in {"open", "loaded"},
             Route(c) # "reset"
      PROVE  Marks(c)
  BY <1>2 DEF Write, StoreProfile, shared
<1>3. CASE Put(c) \/ Patch(c)
  BY <1>2, <1>3 DEF Put, Patch
<1>4. CASE Refuse(c) \/ LoadProfile(c) \/ ReadLog(c) \/ Complete(c)
  BY <1>4 DEF Refuse, LoadProfile, ReadLog, Complete, shared, Completers
<1>5. CASE SaveResponse(c) \/ CreateConversation(c)
  <2>1. Route(c) # "reset"
    BY <1>5 DEF SaveResponse, CreateConversation, SavesComplete
  <2> QED BY <1>5, <2>1 DEF SaveResponse, CreateConversation
<1>6. CASE ResetProfile(c)
  BY <1>6 DEF ResetProfile, StoreProfile
<1>7. CASE ResetLog(c)
  <2>1. Range(log') = {}
    BY <1>7 DEF ResetLog, Range
  <2> QED BY <1>7, <2>1 DEF ResetLog
<1>8. CASE ResetResponses(c) \/ ResetConversations(c)
  BY <1>8 DEF ResetResponses, ResetConversations
<1>9. CASE Count(c)
  BY <1>9 DEF Count
<1>10. CASE Record(c)
  BY <1>10, PushShape DEF Record
<1>11. CASE Disconnect(c)
  BY <1>11 DEF Disconnect, MayBeDropped, shared
<1> QED BY <1>1, <1>3, <1>4, <1>5, <1>6, <1>7, <1>8, <1>9, <1>10, <1>11
        DEF Serve

LEMMA NextForgetting == Forgetting /\ [Next]_vars => Forgetting'
<1> SUFFICES ASSUME Forgetting, [Next]_vars PROVE Forgetting'
  OBVIOUS
<1>1. TypeOK'
  BY NextTypeOK DEF Forgetting
<1>2. ASSUME NEW c \in Calls, Moves(c), Marks(c)
      PROVE  Forgetting'
  <2> USE <1>2 DEF Forgetting, TypeOK, Moves, Marks
  <2>1. SavesComplete'
    BY DEF SavesComplete, Route
  <2>0. Range(log) \subseteq Calls
    BY DEF Range
  <2>2. LoggedAreDone'
    <3>1. \A q \in Range(log) : pc'[q] = "done"
      BY <2>0 DEF LoggedAreDone, Over
    <3> QED BY <3>1 DEF LoggedAreDone
  <2>3. StoredAreDecided'
    <3>1. \A q \in responses \cup conversations : pc'[q] \in Decided
      BY DEF StoredAreDecided
    <3>2. "answered" \in Decided
      BY DEF Decided
    <3> QED BY <3>1, <3>2 DEF StoredAreDecided
  <2>4. \A d \in Calls : pc[d] \in Over => pc'[d] \in Over
    OBVIOUS
  <2>5. BeforeIsOver'
    BY <2>4 DEF BeforeIsOver
  <2>6. ResetClears'
    <3> SUFFICES ASSUME NEW z \in Calls, Route(z)' = "reset"
                 PROVE
                 /\ pc'[z] \in LogCleared => before'[z] \cap Range(log') = {}
                 /\ pc'[z] \in ResponsesCleared =>
                      before'[z] \cap responses' = {}
                 /\ pc'[z] \in Decided => before'[z] \cap conversations' = {}
      BY DEF ResetClears
    <3>1. CASE pc[z] = "idle"
      <4>1. pc'[z] \in {"idle", "open"}
        BY <3>1
      <4> QED BY <4>1 DEF LogCleared, ResponsesCleared, Decided
    <3>2. CASE pc[z] # "idle"
      <4>1. Route(z) = "reset" /\ before'[z] = before[z]
        BY <3>2 DEF Route
      <4>2. c \notin before[z]
        BY DEF BeforeIsOver
      <4>3. /\ pc[z] \in LogCleared => before[z] \cap Range(log) = {}
            /\ pc[z] \in ResponsesCleared => before[z] \cap responses = {}
            /\ pc[z] \in Decided => before[z] \cap conversations = {}
        BY <4>1 DEF ResetClears
      <4>4. CASE z = c
        BY <4>1, <4>2, <4>3, <4>4
      <4>5. CASE z # c
        <5>1. pc'[z] = pc[z]
          BY <4>5
        <5> QED BY <4>1, <4>2, <4>3, <5>1
      <4> QED BY <4>4, <4>5
    <3> QED BY <3>1, <3>2
  <2> QED BY <1>1, <2>1, <2>2, <2>3, <2>5, <2>6
<1>3. CASE Next
  BY <1>2, <1>3, StepMoves, StepMarks DEF Next, Forgetting
<1>4. CASE UNCHANGED vars
  BY <1>1, <1>4 DEF Forgetting, vars, shared, history, SavesComplete, Route,
     LoggedAreDone, StoredAreDecided, BeforeIsOver, ResetClears
<1> QED BY <1>3, <1>4

\* For any number of calls and any interleaving of them with a reset and with
\* each other: an answered reset leaves nothing of what was over before it.
THEOREM ResetsForget == Spec => []ResetForgets
<1>1. Init => Forgetting
  <2> SUFFICES ASSUME Init PROVE Forgetting
    OBVIOUS
  <2>1. TypeOK
    BY InitTypeOK
  <2>2. \A c \in Calls : pc[c] = "idle" /\ before[c] = {}
    BY DEF Init
  <2>3. Range(log) = {} /\ responses = {} /\ conversations = {}
    BY DEF Init, Range
  <2> QED BY <2>1, <2>2, <2>3
          DEF Forgetting, SavesComplete, LoggedAreDone, StoredAreDecided,
              BeforeIsOver, ResetClears
<1>2. Forgetting /\ [Next]_vars => Forgetting'
  BY NextForgetting
<1>3. Forgetting => ResetForgets
  <2> SUFFICES ASSUME Forgetting, NEW z \in Calls,
                      Route(z) = "reset", pc[z] \in Decided
               PROVE  before[z] \cap (Range(log) \cup responses
                                        \cup conversations) = {}
    BY DEF ResetForgets
  <2> QED BY DEF Forgetting, ResetClears, LogCleared, ResponsesCleared
<1> QED BY <1>1, <1>2, <1>3, PTL DEF Spec

-----------------------------------------------------------------------------
(***************************************************************************)
(* Which profile an answer follows.                                        *)
(***************************************************************************)
\* An answer a completion may get under the effective profile e.
AnswerOf(a, e) ==
  \/ MayFire(e) /\ a = [status |-> "fault"]
  \/ ~MustFire(e) /\ a = [status |-> "ok", pace |-> e.pace]

Obeys(c) == \E p \in lives[c] : AnswerOf(answer[c], Effective(request[c], p))

\* A loaded profile has been live since the call arrived, and a completion
\* past its decision has the answer of such a profile.
LoadedWasLive == \A c \in Calls : pc[c] = "loaded" => loaded[c] \in lives[c]
AnswersObey ==
  \A c \in Calls :
    /\ pc[c] \in {"save"} \cup Decided
    /\ Route(c) \in Completers
    /\ answer[c] # Refused
    => Obeys(c)

LivesIncludeLive == \A c \in Calls : Running(c) => profile \in lives[c]

Following == TypeOK /\ LivesIncludeLive /\ LoadedWasLive /\ AnswersObey

\* What every action of a call does to loaded profiles and answers.
Follow(c) ==
  /\ \A d \in Calls \ {c} : loaded'[d] = loaded[d] /\ answer'[d] = answer[d]
  /\ \A d \in Calls : pc[d] # "idle" => lives[d] \subseteq lives'[d]
  /\ (\A d \in Calls : Running(d) => profile \in lives[d])
       => \A d \in Calls : Running(d)' => profile' \in lives'[d]
  /\ pc[c] # "idle" /\ pc'[c] = "loaded" => loaded'[c] \in lives'[c]
  /\ /\ pc[c] # "idle"
     /\ pc'[c] \in {"save"} \cup Decided
     /\ Route(c) \in Completers
     => \/ pc[c] \in {"save"} \cup Decided /\ answer'[c] = answer[c]
        \/ answer'[c] = Refused
        \/ \E p \in lives'[c] :
             AnswerOf(answer'[c], Effective(request[c], p))

LEMMA StepFollows ==
  ASSUME TypeOK, LivesIncludeLive, LoadedWasLive, NEW c \in Calls,
         (\E q \in Requests : Arrive(c, q)) \/ Serve(c) \/ Disconnect(c)
  PROVE  Follow(c)
<1> USE DEF TypeOK, Follow, Goto, Answer, Over, Decided, history, local, shared,
            LivesIncludeLive, LoadedWasLive, Running
<1>1. CASE \E q \in Requests : Arrive(c, q)
  BY <1>1 DEF Arrive
<1>2. ASSUME NEW p, StoreProfile(c, p)
      PROVE  /\ \A d \in Calls : lives[d] \subseteq lives'[d]
             /\ \A d \in Calls : Running(d) => profile' \in lives'[d]
  BY <1>2 DEF StoreProfile
<1>3. ASSUME NEW p, Write(c, p), pc[c] \in {"open", "loaded"},
             Route(c) \notin Completers
      PROVE  Follow(c)
  <2>1. /\ \A d \in Calls : lives[d] \subseteq lives'[d]
        /\ (\A d \in Calls : Running(d) => profile \in lives[d])
             => \A d \in Calls : Running(d) => profile' \in lives'[d]
    BY <1>2, <1>3 DEF Write
  <2>2. loaded' = loaded /\ \A d \in Calls \ {c} : answer'[d] = answer[d]
    BY <1>3 DEF Write
  <2>3. pc' = [pc EXCEPT ![c] = "answered"]
    BY <1>3 DEF Write
  <2> QED BY <1>3, <2>1, <2>2, <2>3
<1>4. CASE Put(c) \/ Patch(c)
  BY <1>3, <1>4 DEF Put, Patch, Completers
<1>5. CASE Refuse(c)
  BY <1>5 DEF Refuse
<1>6. CASE LoadProfile(c)
  BY <1>6 DEF LoadProfile
<1>7. CASE Complete(c)
  <2> DEFINE e == Effective(request[c], loaded[c])
  <2>1. AnswerOf(answer'[c], e)
    BY <1>7 DEF Complete, AnswerOf
  <2>2. loaded[c] \in lives[c] /\ lives' = lives
    BY <1>7 DEF Complete
  <2> QED BY <1>7, <2>1, <2>2 DEF Complete
<1>8. CASE SaveResponse(c)
  BY <1>8 DEF SaveResponse
<1>9. CASE CreateConversation(c)
  BY <1>9 DEF CreateConversation, Completers
<1>10. CASE ReadLog(c)
  BY <1>10 DEF ReadLog, Completers
<1>11. CASE ResetProfile(c)
  BY <1>2, <1>11 DEF ResetProfile, StoreProfile
<1>12. CASE ResetLog(c)
  BY <1>12 DEF ResetLog
<1>13. CASE ResetResponses(c)
  BY <1>13 DEF ResetResponses
<1>14. CASE ResetConversations(c)
  <2>1. Route(c) \notin Completers
    BY <1>14 DEF ResetConversations, Completers
  <2>2. /\ loaded' = loaded /\ lives' = lives /\ profile' = profile
        /\ \A d \in Calls \ {c} : answer'[d] = answer[d]
        /\ pc' = [pc EXCEPT ![c] = "answered"]
        /\ pc[c] = "clear_conversations"
    BY <1>14 DEF ResetConversations
  <2> QED BY <2>1, <2>2
<1>15. CASE Count(c)
  BY <1>15 DEF Count
<1>16. CASE Record(c)
  BY <1>16 DEF Record
<1>17. CASE Disconnect(c)
  BY <1>17 DEF Disconnect, MayBeDropped
<1> QED BY <1>1, <1>4, <1>5, <1>6, <1>7, <1>8, <1>9, <1>10, <1>11,
           <1>12, <1>13, <1>14, <1>15, <1>16, <1>17 DEF Serve

LEMMA NextFollowing == Following /\ [Next]_vars => Following'
<1> SUFFICES ASSUME Following, [Next]_vars PROVE Following'
  OBVIOUS
<1>1. TypeOK'
  BY NextTypeOK DEF Following
<1>2. ASSUME NEW c \in Calls, Moves(c), Follow(c)
      PROVE  Following'
  <2> USE <1>2 DEF Following, TypeOK, Moves, Follow
  <2>1. LivesIncludeLive'
    BY DEF LivesIncludeLive
  <2>2. LoadedWasLive'
    BY DEF LoadedWasLive
  <2>3. AnswersObey'
    <3> SUFFICES ASSUME NEW d \in Calls,
                        pc'[d] \in {"save"} \cup Decided,
                        Route(d)' \in Completers, answer'[d] # Refused
                 PROVE  \E p \in lives'[d] :
                          AnswerOf(answer'[d], Effective(request'[d], p))
      BY DEF AnswersObey, Obeys
    <3>1. pc[d] # "idle"
      BY DEF Decided
    <3>2. request'[d] = request[d] /\ Route(d) \in Completers
      BY <3>1 DEF Route
    <3>3. CASE pc[d] \in {"save"} \cup Decided /\ answer'[d] = answer[d]
      <4>1. PICK p \in lives[d] :
              AnswerOf(answer[d], Effective(request[d], p))
        BY <3>2, <3>3 DEF AnswersObey, Obeys
      <4> QED BY <3>1, <3>2, <3>3, <4>1
    <3>4. CASE d # c
      BY <3>3, <3>4
    <3>5. CASE d = c
      BY <3>1, <3>2, <3>3, <3>5
    <3> QED BY <3>4, <3>5
  <2> QED BY <1>1, <2>1, <2>2, <2>3
<1>3. CASE Next
  BY <1>2, <1>3, StepMoves, StepFollows DEF Next, Following
<1>4. CASE UNCHANGED vars
  BY <1>1, <1>4 DEF Following, vars, shared, local, history, Route, Running,
     LivesIncludeLive, LoadedWasLive, AnswersObey, Obeys
<1> QED BY <1>3, <1>4

LEMMA AlwaysFollowing == Spec => []Following
<1>1. Init => Following
  <2> SUFFICES ASSUME Init PROVE Following
    OBVIOUS
  <2>1. \A c \in Calls : pc[c] = "idle"
    BY DEF Init
  <2> QED BY <2>1, InitTypeOK
          DEF Following, LivesIncludeLive, LoadedWasLive, AnswersObey, Running,
              Decided
<1> QED BY <1>1, NextFollowing, PTL DEF Spec

-----------------------------------------------------------------------------
\* What a request says of a member is what its merged directives hold.
LEMMA MergedDirectives ==
  ASSUME NEW q, NEW m
  PROVE  LET d == Merge(q.header, q.body)
         IN  /\ m \in DOMAIN d <=> Says(q, m) # {}
             /\ m \in DOMAIN d => Says(q, m) = {d[m]}
BY DEF Merge, Says

\* A request that overrides nothing is answered, fault and pace alike, as one
\* whole profile says that was live while the request ran, whatever the
\* writers of profiles do.
THEOREM AnswersFollow == Spec => []AnswersFollowOneProfile
<1>1. Following => AnswersFollowOneProfile
  <2> SUFFICES ASSUME Following, NEW c \in Calls, Completed(c),
                      \A m \in {"fault", "rate", "pace"} :
                        Says(request[c], m) = {}
               PROVE  \E p \in lives[c] : Follows(answer[c], p)
    BY DEF AnswersFollowOneProfile
  <2>1. PICK p \in lives[c] : AnswerOf(answer[c], Effective(request[c], p))
    BY DEF Following, AnswersObey, Obeys, Completed
  <2>2. p \in Profiles
    BY DEF Following, TypeOK
  <2>3. Effective(request[c], p)
          = [pace |-> Paced(p), fault |-> p.fault, rate |-> p.rate]
    BY MergedDirectives DEF Effective, Apply, Forces
  <2>4. CASE answer[c] = [status |-> "fault"] /\ MayFire(Effective(request[c], p))
    BY <2>3, <2>4 DEF Follows, MayFire
  <2>5. CASE /\ answer[c] = [status |-> "ok",
                             pace |-> Effective(request[c], p).pace]
             /\ ~MustFire(Effective(request[c], p))
    BY <2>2, <2>3, <2>5
       DEF Follows, MustFire, Paced, Profiles, FaultKinds, Rates, Always
  <2> QED BY <2>1, <2>4, <2>5 DEF AnswerOf
<1> QED BY <1>1, AlwaysFollowing, PTL

\* A fault or a timing that a request names itself decides its answer,
\* whatever profiles are stored while it runs.
THEOREM OverridesBeat == Spec => []OverridesBeatScenario
<1>1. Following => OverridesBeatScenario
  <2> SUFFICES ASSUME Following, NEW c \in Calls, Completed(c)
               PROVE
               LET q == request[c]
               IN  /\ \A kind \in Says(q, "fault") \cap FaultKinds :
                        Says(q, "rate") = {} =>
                          (answer[c].status = "fault" <=> kind = "http_error")
                   /\ answer[c].status = "ok" =>
                        \A pace \in Says(q, "pace") : answer[c].pace = pace
    BY DEF OverridesBeatScenario
  <2> DEFINE q == request[c]
             d == Merge(q.header, q.body)
  <2>1. PICK p \in lives[c] : AnswerOf(answer[c], Effective(q, p))
    BY DEF Following, AnswersObey, Obeys, Completed
  <2>2. ASSUME NEW kind \in Says(q, "fault") \cap FaultKinds,
               Says(q, "rate") = {}
        PROVE  answer[c].status = "fault" <=> kind = "http_error"
    <3>1. "rate" \notin DOMAIN d /\ "fault" \in DOMAIN d /\ d["fault"] = kind
      BY <2>2, MergedDirectives
    <3>2. Effective(q, p).fault = kind /\ Effective(q, p).rate = Always
      BY <3>1 DEF Effective, Apply, Forces
    <3> QED BY <2>1, <3>2 DEF AnswerOf, MayFire, MustFire, Always, Never
  <2>3. ASSUME NEW pace \in Says(q, "pace"), answer[c].status = "ok"
        PROVE  answer[c].pace = pace
    <3>1. "pace" \in DOMAIN d /\ d["pace"] = pace
      BY MergedDirectives
    <3>2. Effective(q, p).pace = pace
      BY <3>1 DEF Effective, Apply
    <3> QED BY <2>1, <2>3, <3>2 DEF AnswerOf
  <2> QED BY <2>2, <2>3
<1> QED BY <1>1, AlwaysFollowing, PTL
-----------------------------------------------------------------------------
(***************************************************************************)
(* What the log has.                                                       *)
(***************************************************************************)
\* Where the entries of a log go as one more is pushed.
LEMMA PushPlaces ==
  ASSUME NEW c \in Calls, NEW entries \in Seq(Calls), Len(entries) <= Capacity
  PROVE  LET pushed == Push(entries, c)
         IN /\ \E n \in DOMAIN pushed : pushed[n] = c /\ Len(pushed) - n = 0
            /\ \A k \in DOMAIN entries :
                 \/ Len(entries) - k + 1 >= Capacity
                 \/ \E n \in DOMAIN pushed : /\ pushed[n] = entries[k]
                                             /\ Len(pushed) - n = Len(entries) - k + 1
<1> DEFINE kept == IF Len(entries) = Capacity THEN Tail(entries) ELSE entries
           pushed == Push(entries, c)
<1>1. Capacity \in Nat /\ Capacity > 0 /\ Len(entries) \in Nat
  BY ControlAssumption
<1>2. DOMAIN entries = 1 .. Len(entries)
  OBVIOUS
<1>3. kept \in Seq(Calls) /\ Len(kept) \in Nat
  <2>1. kept \in Seq(Calls)
    BY <1>1
  <2> HIDE DEF kept
  <2> QED BY <2>1
<1>4. pushed = Append(kept, c)
  BY DEF Push
<1>5. ASSUME NEW k \in DOMAIN entries
      PROVE  \/ Len(entries) - k + 1 >= Capacity
             \/ \E n \in 1 .. Len(kept) : /\ kept[n] = entries[k]
                                          /\ Len(kept) - n = Len(entries) - k
  <2>1. CASE Len(entries) = Capacity
    <3>1. entries # <<>>
      BY <1>1, <2>1
    <3>2. Len(kept) = Len(entries) - 1
          /\ \A i \in 1 .. Len(kept) : kept[i] = entries[i + 1]
      BY <2>1, <3>1
    <3> HIDE DEF kept
    <3>3. CASE k = 1
      BY <1>1, <2>1, <3>3
    <3>4. CASE k # 1
      <4>1. /\ k - 1 \in 1 .. Len(kept) /\ (k - 1) + 1 = k
            /\ Len(kept) - (k - 1) = Len(entries) - k
        BY <1>1, <1>2, <3>2, <3>4
      <4> QED BY <3>2, <4>1
    <3> QED BY <3>3, <3>4
  <2>2. CASE Len(entries) # Capacity
    BY <1>2, <2>2
  <2> QED BY <2>1, <2>2
<1> HIDE DEF kept, pushed
<1>6. /\ pushed \in Seq(Calls) /\ Len(pushed) = Len(kept) + 1
      /\ pushed[Len(kept) + 1] = c
      /\ \A n \in 1 .. Len(kept) : pushed[n] = kept[n]
  BY <1>3, <1>4, AppendProperties
<1>7. DOMAIN pushed = 1 .. Len(kept) + 1
  BY <1>6
<1>8. Len(kept) + 1 \in DOMAIN pushed /\ Len(pushed) - (Len(kept) + 1) = 0
  BY <1>3, <1>6, <1>7
<1>9. ASSUME NEW k \in DOMAIN entries, ~(Len(entries) - k + 1 >= Capacity)
      PROVE  \E n \in DOMAIN pushed : /\ pushed[n] = entries[k]
                                      /\ Len(pushed) - n = Len(entries) - k + 1
  <2>1. PICK n \in 1 .. Len(kept) : kept[n] = entries[k] /\ Len(kept) - n = Len(entries) - k
    BY <1>5, <1>9
  <2>2. n \in DOMAIN pushed /\ pushed[n] = entries[k]
    BY <1>3, <1>6, <1>7, <2>1
  <2>3. Len(pushed) - n = Len(entries) - k + 1
    BY <1>1, <1>2, <1>3, <1>6, <2>1
  <2> QED BY <2>2, <2>3
<1> QED BY <1>6, <1>8, <1>9 DEF pushed

\* Calls recorded that were not over when d arrived, other than d.
DoneCalls == {x \in Calls : pc[x] = "done"}
Later(d) == {x \in Calls \ {d} : pc[x] = "done" /\ x \notin before[d]}

\* What can have taken d out of the log: a reset, or later requests.  Until
\* then as many of these are recorded as have their entries behind that of d.
ResetSince(d) == \E z \in Calls : Route(z) = "reset" /\ z \notin before[d]
Overrun(d) == Cardinality(Later(d)) >= Capacity
InLog(d) == \E k \in DOMAIN log : log[k] = d /\ Cardinality(Later(d)) >= Len(log) - k
Kept == \A d \in Calls : pc[d] = "done" => ResetSince(d) \/ Overrun(d) \/ InLog(d)

\* Only a reset clears, and only a completion saves.
StagesFit ==
  \A c \in Calls :
    /\ pc[c] = "save" => Route(c) \in Completers
    /\ pc[c] \in {"clear_log", "clear_responses", "clear_conversations"} =>
         Route(c) = "reset"

Logging ==
  /\ TypeOK /\ BeforeIsOver /\ StagesFit
  /\ IsFiniteSet(DoneCalls) /\ Kept /\ AnsweredAreLogged

\* What every action of a call does to the log and to its answer from it.
Notes(c) ==
  /\ \/ log' = log /\ pc'[c] # "done"
     \/ log' = <<>> /\ pc[c] = "clear_log" /\ pc'[c] # "done"
     \/ log' = Push(log, c) /\ pc[c] = "counted" /\ pc'[c] = "done"
  /\ \A d \in Calls \ {c} : listed'[d] = listed[d]
  /\ pc'[c] \in Decided /\ Route(c) = "requests" =>
       listed'[c] = IF pc[c] \in Decided THEN listed[c] ELSE log
  /\ pc'[c] = "save" => Route(c) \in Completers
  /\ pc'[c] \in {"clear_log", "clear_responses", "clear_conversations"} =>
       Route(c) = "reset"

LEMMA StepNotes ==
  ASSUME TypeOK, StagesFit, NEW c \in Calls,
         (\E q \in Requests : Arrive(c, q)) \/ Serve(c) \/ Disconnect(c)
  PROVE  Notes(c)
<1> USE DEF TypeOK, Notes, Goto, Decided
<1>1. CASE \E q \in Requests : Arrive(c, q)
  BY <1>1 DEF Arrive, shared, local
<1>2. ASSUME NEW p, Write(c, p), Route(c) \in Writers
      PROVE  Notes(c)
  BY <1>2 DEF Write, StoreProfile, shared, Writers
<1>3. CASE Put(c) \/ Patch(c)
  BY <1>2, <1>3 DEF Put, Patch, Writers
<1>4. CASE Refuse(c) \/ LoadProfile(c)
  BY <1>4 DEF Refuse, LoadProfile, shared, Completers
<1>5. CASE Complete(c)
  BY <1>5 DEF Complete, Completers
<1>6. CASE SaveResponse(c)
  <2>1. Route(c) \in Completers
    BY <1>6 DEF SaveResponse, StagesFit
  <2> QED BY <1>6, <2>1 DEF SaveResponse, Completers, local
<1>7. CASE CreateConversation(c)
  BY <1>7 DEF CreateConversation
<1>8. CASE ReadLog(c)
  BY <1>8 DEF ReadLog, shared
<1>9. CASE ResetProfile(c)
  BY <1>9 DEF ResetProfile, StoreProfile, local
<1>10. CASE ResetLog(c) \/ ResetResponses(c) \/ ResetConversations(c)
  <2>1. Route(c) = "reset"
    BY <1>10 DEF ResetLog, ResetResponses, ResetConversations, StagesFit
  <2> QED BY <1>10, <2>1 DEF ResetLog, ResetResponses, ResetConversations, local
<1>11. CASE Count(c)
  BY <1>11 DEF Count, local
<1>12. CASE Record(c)
  BY <1>12 DEF Record, local
<1>13. CASE Disconnect(c)
  BY <1>13 DEF Disconnect, shared, local
<1> QED BY <1>1, <1>3, <1>4, <1>5, <1>6, <1>7, <1>8, <1>9, <1>10, <1>11, <1>12, <1>13
        DEF Serve

\* A step adds the call it records to what is later than a recorded one.
LEMMA LaterGrows ==
  ASSUME TypeOK, BeforeIsOver, IsFiniteSet(DoneCalls), NEW c \in Calls, Moves(c),
         NEW d \in Calls, pc[d] = "done"
  PROVE  /\ pc'[d] = "done" /\ before'[d] = before[d] /\ d # c /\ c \notin before[d]
         /\ Cardinality(Later(d)) \in Nat
         /\ Cardinality(Later(d))' =
              IF pc'[c] = "done" THEN Cardinality(Later(d)) + 1 ELSE Cardinality(Later(d))
<1>1. d # c /\ pc'[d] = "done" /\ before'[d] = before[d] /\ pc[c] # "done"
  BY DEF Moves, Over
<1>2. c \notin before[d]
  BY DEF BeforeIsOver, Moves
<1>3. c \notin Later(d)
  BY <1>1 DEF Later
<1>4. IsFiniteSet(Later(d)) /\ Cardinality(Later(d)) \in Nat
  <2>1. Later(d) \in SUBSET DoneCalls
    BY DEF Later, DoneCalls
  <2>2. IsFiniteSet(Later(d))
    BY <2>1, FS_Subset
  <2> QED BY <2>2, FS_CardinalityType
<1>5. Later(d)' = IF pc'[c] = "done" THEN Later(d) \cup {c} ELSE Later(d)
  <2>1. \A x \in Calls \ {c} : pc'[x] = pc[x]
    BY DEF Moves
  <2> QED BY <1>1, <1>2, <2>1 DEF Later
<1>6. Cardinality(Later(d) \cup {c}) = Cardinality(Later(d)) + 1
  BY <1>3, <1>4, FS_AddElement
<1> QED BY <1>1, <1>2, <1>4, <1>5, <1>6

LEMMA NextLogging == Logging /\ [Next]_vars => Logging'
<1> SUFFICES ASSUME Logging, [Next]_vars PROVE Logging'
  OBVIOUS
<1>0. TypeOK /\ BeforeIsOver /\ StagesFit /\ IsFiniteSet(DoneCalls) /\ Kept /\ AnsweredAreLogged
  BY DEF Logging
<1>1. TypeOK'
  BY <1>0, NextTypeOK
<1>2. ASSUME NEW c \in Calls, Moves(c), Notes(c)
      PROVE  Logging'
  <2>1. BeforeIsOver'
    <3>1. \A d \in Calls : pc[d] \in Over => pc'[d] \in Over
      BY <1>2 DEF Moves
    <3> QED BY <1>0, <1>1, <1>2, <3>1 DEF BeforeIsOver, Moves, TypeOK
  <2>2. \A d \in Calls : pc[d] # "idle" => Route(d)' = Route(d) /\ pc'[d] # "idle"
    BY <1>2 DEF Moves, Route
  <2>3. StagesFit'
    <3> SUFFICES ASSUME NEW d \in Calls
                 PROVE  /\ pc'[d] = "save" => Route(d)' \in Completers
                        /\ pc'[d] \in {"clear_log", "clear_responses", "clear_conversations"} =>
                             Route(d)' = "reset"
      BY DEF StagesFit
    <3>1. CASE d = c
      BY <1>2, <2>2, <3>1 DEF Notes, Moves
    <3>2. CASE d # c
      BY <1>0, <1>2, <2>2, <3>2 DEF StagesFit, Moves
    <3> QED BY <3>1, <3>2
  <2>4. IsFiniteSet(DoneCalls)'
    <3>1. DoneCalls' \in SUBSET (DoneCalls \cup {c})
      BY <1>2 DEF DoneCalls, Moves
    <3>2. IsFiniteSet(DoneCalls \cup {c})
      BY <1>0, FS_AddElement
    <3> QED BY <3>1, <3>2, FS_Subset
  <2>5. ASSUME NEW d \in Calls, pc[d] = "done"
        PROVE  /\ pc'[d] = "done" /\ before'[d] = before[d] /\ d # c /\ c \notin before[d]
               /\ Cardinality(Later(d)) \in Nat
               /\ Cardinality(Later(d))' =
                    IF pc'[c] = "done" THEN Cardinality(Later(d)) + 1 ELSE Cardinality(Later(d))
    BY <1>0, <1>2, <2>5, LaterGrows
  <2>6. Capacity \in Nat /\ log \in Seq(Calls) /\ Len(log) \in Nat /\ Len(log) <= Capacity
    <3>1. log \in Seq(Calls) /\ Len(log) <= Capacity
      BY <1>0 DEF TypeOK
    <3> QED BY <3>1, ControlAssumption
  \* What took an entry out stays.
  <2>7. ASSUME NEW d \in Calls, pc[d] = "done", ResetSince(d) \/ Overrun(d)
        PROVE  (ResetSince(d) \/ Overrun(d))'
    <3>1. CASE ResetSince(d)
      <4>1. PICK z \in Calls : Route(z) = "reset" /\ z \notin before[d]
        BY <3>1 DEF ResetSince
      <4>2. pc[z] # "idle"
        BY <4>1, ControlAssumption DEF Route, Routes
      <4>3. Route(z)' = "reset" /\ z \notin before'[d]
        BY <2>2, <2>5, <2>7, <4>1, <4>2
      <4> QED BY <4>3 DEF ResetSince
    <3>2. CASE Overrun(d)
      <4>1. Cardinality(Later(d))' >= Capacity
        BY <2>5, <2>6, <2>7, <3>2 DEF Overrun
      <4> QED BY <4>1 DEF Overrun
    <3> QED BY <2>7, <3>1, <3>2
  <2>8. ASSUME NEW d \in Calls, pc'[d] = "done"
        PROVE  (ResetSince(d) \/ Overrun(d) \/ InLog(d))'
    <3>1. CASE d = c
      <4>1. log' = Push(log, c)
        BY <1>2, <2>8, <3>1 DEF Notes
      <4>2. PICK n \in DOMAIN log' : log'[n] = c /\ Len(log') - n = 0
        BY <2>6, <4>1, PushPlaces
      <4>3. Cardinality(Later(d))' >= 0
        <5>1. IsFiniteSet(Later(d)')
          <6>1. Later(d)' \in SUBSET DoneCalls'
            BY DEF Later, DoneCalls
          <6> QED BY <2>4, <6>1, FS_Subset
        <5>2. Cardinality(Later(d)') \in Nat
          BY <5>1, FS_CardinalityType
        <5> QED BY <5>2
      <4> QED BY <3>1, <4>2, <4>3 DEF InLog
    <3>2. CASE d # c
      <4>1. pc[d] = "done"
        BY <1>2, <2>8, <3>2 DEF Moves
      <4>2. ResetSince(d) \/ Overrun(d) \/ InLog(d)
        BY <1>0, <4>1 DEF Kept
      <4>3. ASSUME InLog(d), log' = log, pc'[c] # "done" PROVE InLog(d)'
        BY <2>5, <4>1, <4>3 DEF InLog
      <4>4. ASSUME pc[c] = "clear_log" PROVE ResetSince(d)'
        <5>1. Route(c) = "reset" /\ pc[c] # "idle"
          BY <1>0, <4>4 DEF StagesFit
        <5>2. Route(c)' = "reset" /\ c \notin before'[d]
          BY <2>2, <2>5, <4>1, <5>1
        <5> QED BY <5>2 DEF ResetSince
      <4>5. ASSUME InLog(d), log' = Push(log, c), pc'[c] = "done"
            PROVE  InLog(d)' \/ Overrun(d)'
        <5>1. PICK k \in DOMAIN log : log[k] = d /\ Cardinality(Later(d)) >= Len(log) - k
          BY <4>5 DEF InLog
        <5>2. k \in Nat
          BY <2>6
        <5>3. \/ Len(log) - k + 1 >= Capacity
              \/ \E n \in DOMAIN log' : log'[n] = d /\ Len(log') - n = Len(log) - k + 1
          BY <2>6, <4>5, <5>1, PushPlaces
        <5>4. Cardinality(Later(d))' >= Len(log) - k + 1
          <6> DEFINE m == Cardinality(Later(d))
          <6>1. m \in Nat /\ Cardinality(Later(d))' = m + 1 /\ m >= Len(log) - k
            BY <2>5, <4>1, <4>5, <5>1
          <6> HIDE DEF m
          <6> QED BY <2>6, <5>2, <6>1
        <5>5. CASE Len(log) - k + 1 >= Capacity
          <6>1. Cardinality(Later(d))' \in Nat
            BY <2>5, <4>1, <4>5
          <6>2. Cardinality(Later(d))' >= Capacity
            BY <2>6, <5>2, <5>4, <5>5, <6>1
          <6> QED BY <6>2 DEF Overrun
        <5>6. CASE \E n \in DOMAIN log' : log'[n] = d /\ Len(log') - n = Len(log) - k + 1
          BY <5>4, <5>6 DEF InLog
        <5> QED BY <5>3, <5>5, <5>6
      <4> QED BY <1>2, <2>7, <4>1, <4>2, <4>3, <4>4, <4>5 DEF Notes
    <3> QED BY <3>1, <3>2
  <2>9. Kept'
    BY <2>8 DEF Kept
  <2>10. ASSUME NEW e \in Calls, NEW d \in Calls,
                Route(e)' = "requests", pc'[e] \in Decided,
                d \in before'[e], pc'[d] = "done", d \notin Range(listed'[e])
         PROVE  (ResetSince(d) \/ Overrun(d))'
    <3>1. pc[e] # "idle"
      BY <1>2, <2>10 DEF Moves, Decided
    <3>2. Route(e) = "requests" /\ d \in before[e]
      <4>1. before'[e] = before[e]
        BY <1>2, <3>1 DEF Moves
      <4> QED BY <2>2, <2>10, <3>1, <4>1
    <3>3. pc[d] = "done"
      <4>1. pc[d] \in Over
        BY <1>0, <3>2 DEF BeforeIsOver
      <4> QED BY <1>2, <2>10, <4>1 DEF Moves
    <3>4. CASE pc[e] \in Decided /\ listed'[e] = listed[e]
      <4>1. ResetSince(d) \/ Overrun(d)
        BY <1>0, <2>10, <3>2, <3>3, <3>4 DEF AnsweredAreLogged, ResetSince, Overrun, Later
      <4> QED BY <2>7, <3>3, <4>1
    <3>5. CASE listed'[e] = log
      <4>1. ~InLog(d)
        BY <2>10, <3>5 DEF InLog, Range
      <4> QED BY <1>0, <2>7, <3>3, <4>1 DEF Kept
    <3>6. e # c => pc[e] \in Decided /\ listed'[e] = listed[e]
      BY <1>2, <2>10 DEF Moves, Notes
    <3>7. e = c => (pc[e] \in Decided /\ listed'[e] = listed[e]) \/ listed'[e] = log
      BY <1>2, <2>10, <3>2 DEF Notes
    <3> QED BY <3>4, <3>5, <3>6, <3>7
  <2>11. AnsweredAreLogged'
    BY <2>10 DEF AnsweredAreLogged, ResetSince, Overrun, Later
  <2> QED BY <1>1, <2>1, <2>3, <2>4, <2>9, <2>11 DEF Logging
<1>3. CASE Next
  BY <1>0, <1>2, <1>3, StepMoves, StepNotes DEF Next
<1>4. CASE UNCHANGED vars
  <2>1. UNCHANGED <<log, pc, request, before, listed>>
    BY <1>4 DEF vars, shared, local, history
  <2> QED BY <1>0, <1>1, <2>1 DEF Logging, BeforeIsOver, StagesFit, Route, DoneCalls, Kept,
       ResetSince, Overrun, InLog, Later, AnsweredAreLogged
<1> QED BY <1>3, <1>4

\* AnsweredAreLogged: for any number of calls, whatever the capacity of the log, a
\* client that has its answer finds its request in GET /_mock/requests unless it
\* was reset away or that many later requests were recorded (log_request,
\* RequestLog::record).
THEOREM LogHasTheAnswered == Spec => []AnsweredAreLogged
<1>1. Init => Logging
  <2> SUFFICES ASSUME Init PROVE Logging
    OBVIOUS
  <2>1. \A c \in Calls : pc[c] = "idle" /\ before[c] = {}
    BY DEF Init
  <2>2. IsFiniteSet(DoneCalls)
    <3>1. DoneCalls = {}
      BY <2>1 DEF DoneCalls
    <3> QED BY <3>1, FS_EmptySet
  <2> QED BY <2>1, <2>2, InitTypeOK
          DEF Logging, BeforeIsOver, StagesFit, Kept, AnsweredAreLogged, Decided
<1>2. Logging => AnsweredAreLogged
  BY DEF Logging
<1> QED BY <1>1, <1>2, NextLogging, PTL DEF Spec

-----------------------------------------------------------------------------
(***************************************************************************)
(* What the writes of profiles leave.                                      *)
(***************************************************************************)
\* What a write that asks q makes of the profile p.
Rewrite(p, q) ==
  CASE q.route = "put"   -> Merge(Defaults, q.members)
    [] q.route = "patch" -> Merge(p, q.members)
    [] q.route = "reset" -> Boot

\* f[k] is the profile after the first k of n writes, one after the other.
Replays(asks, n, f) == f[0] = Boot /\ \A k \in 1 .. n : f[k] = Rewrite(f[k - 1], asks[k])

Asks == [i \in DOMAIN written |-> request[written[i]]]

\* The fold of the writes over every subset of them, as FoldLeft defines it.
FoldsOver(m, h) ==
  h = [s \in SUBSET (1 .. m) |->
         IF s = {} THEN Boot ELSE Written(h[s \ {Max(s)}], written[Max(s)])]

LEMMA MaxIsGreatest ==
  ASSUME NEW m \in Nat, NEW s \in SUBSET (1 .. m), s # {}
  PROVE  Max(s) \in s /\ \A y \in s : Max(s) >= y
<1>1. s \in SUBSET Nat /\ \A y \in s : y <= m
  OBVIOUS
<1>2. \E x \in s : \A y \in s : x >= y
  BY <1>1, GreatestExists
<1> QED BY <1>2 DEF Max

LEMMA FoldExists ==
  ASSUME NEW n \in Nat
  PROVE  \E h : FoldsOver(n, h)
<1> DEFINE T == {m \in Nat : \E h : FoldsOver(m, h)}
<1>1. 0 \in T
  <2> DEFINE h == [s \in SUBSET (1 .. 0) |-> Boot]
  <2>1. \A s \in SUBSET (1 .. 0) : s = {}
    OBVIOUS
  <2>2. h = [s \in SUBSET (1 .. 0) |->
               IF s = {} THEN Boot ELSE Written(h[s \ {Max(s)}], written[Max(s)])]
    BY <2>1
  <2>3. FoldsOver(0, h)
    BY <2>2 DEF FoldsOver
  <2> QED BY <2>3
<1>2. ASSUME NEW m \in Nat, m \in T PROVE m + 1 \in T
  <2>1. PICK h : FoldsOver(m, h)
    BY <1>2
  <2>2. \A s \in SUBSET (1 .. m) :
          h[s] = IF s = {} THEN Boot ELSE Written(h[s \ {Max(s)}], written[Max(s)])
    BY <2>1 DEF FoldsOver
  <2> DEFINE g == [s \in SUBSET (1 .. m + 1) |->
                     IF m + 1 \in s THEN Written(h[s \ {m + 1}], written[m + 1]) ELSE h[s]]
             body(s) == IF s = {} THEN Boot ELSE Written(g[s \ {Max(s)}], written[Max(s)])
  <2>3. ASSUME NEW s \in SUBSET (1 .. m + 1) PROVE g[s] = body(s)
    <3>1. g[s] = IF m + 1 \in s THEN Written(h[s \ {m + 1}], written[m + 1]) ELSE h[s]
      OBVIOUS
    <3>2. CASE m + 1 \in s
      <4>1. Max(s) = m + 1
        <5>0. m + 1 \in Nat /\ s \in SUBSET (1 .. m + 1) /\ s # {}
          BY <3>2
        <5>1. Max(s) \in s /\ \A y \in s : Max(s) >= y
          BY <5>0, MaxIsGreatest
        <5>2. Max(s) >= m + 1 /\ Max(s) \in 1 .. m + 1
          BY <3>2, <5>1
        <5> QED BY <5>2
      <4>2. s \ {m + 1} \in SUBSET (1 .. m + 1) /\ m + 1 \notin s \ {m + 1}
        OBVIOUS
      <4>3. g[s \ {m + 1}] = h[s \ {m + 1}]
        BY <4>2
      <4> HIDE DEF g
      <4> QED BY <3>1, <3>2, <4>1, <4>3
    <3>3. CASE m + 1 \notin s /\ s # {}
      <4>1. s \in SUBSET (1 .. m)
        <5> SUFFICES ASSUME NEW y \in s PROVE y \in 1 .. m
          OBVIOUS
        <5>1. y \in 1 .. m + 1 /\ y # m + 1
          BY <3>3
        <5> QED BY <5>1
      <4>2. s \ {Max(s)} \in SUBSET (1 .. m + 1) /\ m + 1 \notin s \ {Max(s)}
        BY <3>3
      <4>3. g[s \ {Max(s)}] = h[s \ {Max(s)}]
        BY <4>2
      <4> HIDE DEF g
      <4> QED BY <2>2, <3>1, <3>3, <4>1, <4>3
    <3>4. CASE s = {}
      <4>1. s \in SUBSET (1 .. m)
        BY <3>4
      <4> HIDE DEF g
      <4> QED BY <2>2, <3>1, <3>4, <4>1
    <3> QED BY <3>2, <3>3, <3>4
  <2>4. g = [s \in SUBSET (1 .. m + 1) |-> g[s]]
    OBVIOUS
  <2> HIDE DEF g
  <2>5. g = [s \in SUBSET (1 .. m + 1) |-> body(s)]
    BY <2>3, <2>4
  <2>6. FoldsOver(m + 1, g)
    BY <2>5 DEF FoldsOver
  <2> QED BY <2>6
<1> HIDE DEF T
<1>3. Nat \subseteq T
  BY <1>1, <1>2, SetInduction
<1> QED BY <1>3 DEF T

\* The fold of the writes is what they leave one after the other.
LEMMA FoldIsReplay ==
  ASSUME written \in Seq(Calls), \A i \in DOMAIN written : pc[written[i]] # "idle",
         NEW f, Replays(Asks, Len(written), f)
  PROVE  f[Len(written)] = FoldLeft(Written, Boot, written)
<1> DEFINE n == Len(written)
           h == CHOOSE h : FoldsOver(n, h)
<1>1. n \in Nat /\ DOMAIN written = 1 .. n
  OBVIOUS
<1>2. FoldLeft(Written, Boot, written) = h[1 .. n]
  BY <1>1 DEF FoldLeft, MapThenFoldSet, FoldsOver
<1>3. FoldsOver(n, h)
  BY <1>1, FoldExists
<1> HIDE DEF h
<1>4. \A s \in SUBSET (1 .. n) :
        h[s] = IF s = {} THEN Boot ELSE Written(h[s \ {Max(s)}], written[Max(s)])
  BY <1>3 DEF FoldsOver
<1> DEFINE T == {k \in Nat : k <= n => h[1 .. k] = f[k]}
<1>5. 0 \in T
  <2>1. 1 .. 0 = {} /\ {} \in SUBSET (1 .. n)
    OBVIOUS
  <2>2. h[1 .. 0] = Boot
    BY <1>4, <2>1
  <2> QED BY <2>2 DEF Replays
<1>6. ASSUME NEW k \in Nat, k \in T PROVE k + 1 \in T
  <2> SUFFICES ASSUME k + 1 <= n PROVE h[1 .. k + 1] = f[k + 1]
    OBVIOUS
  <2> DEFINE s == 1 .. k + 1
  <2>1. s \in SUBSET (1 .. n) /\ s # {} /\ k + 1 \in s /\ k + 1 \in 1 .. n /\ k <= n
    BY <1>1
  <2>2. Max(s) = k + 1
    <3>1. k + 1 \in Nat /\ s \in SUBSET (1 .. k + 1)
      OBVIOUS
    <3>2. Max(s) \in s /\ Max(s) >= k + 1
      BY <2>1, <3>1, MaxIsGreatest
    <3> QED BY <3>2
  <2>3. s \ {k + 1} = 1 .. k
    OBVIOUS
  <2>4. h[s] = Written(h[1 .. k], written[k + 1])
    <3> HIDE DEF s
    <3> QED BY <1>4, <2>1, <2>2, <2>3
  <2>5. h[1 .. k] = f[k]
    BY <1>6, <2>1
  <2>6. f[k + 1] = Rewrite(f[k], request[written[k + 1]])
    <3>1. f[k + 1] = Rewrite(f[(k + 1) - 1], Asks[k + 1]) /\ (k + 1) - 1 = k
      BY <2>1 DEF Replays
    <3>2. Asks[k + 1] = request[written[k + 1]]
      BY <1>1, <2>1 DEF Asks
    <3> QED BY <3>1, <3>2
  <2>7. Route(written[k + 1]) = request[written[k + 1]].route
    BY <1>1, <2>1 DEF Route
  <2>8. Written(f[k], written[k + 1]) = Rewrite(f[k], request[written[k + 1]])
    BY <2>7 DEF Written, Rewrite
  <2> QED BY <2>4, <2>5, <2>6, <2>8
<1> HIDE DEF T
<1>7. Nat \subseteq T
  BY <1>5, <1>6, SetInduction
<1> QED BY <1>1, <1>2, <1>7 DEF T

\* No two writes overlap in time.
Apart == \A i, j \in DOMAIN written : i # j => ~Overlap(written[i], written[j])

\* A profile loaded after all writes is live; writes apart leave what they leave
\* one after the other.
WritersArrived == \A i \in DOMAIN written : pc[written[i]] # "idle"
LoadedIsLive ==
  \A c \in Calls :
    pc[c] = "loaded" /\ (\A i \in DOMAIN written : written[i] \in before[c]) =>
      loaded[c] = profile
Composed == Apart => \E f : Replays(Asks, Len(written), f) /\ profile = f[Len(written)]

Composing ==
  TypeOK /\ BeforeIsOver /\ WritersArrived /\ LoadedIsLive /\ Composed

\* What every action of a call does to the profile and to what the call loaded.
Writes(c) ==
  /\ \A d \in Calls \ {c} : loaded'[d] = loaded[d]
  /\ \/ /\ profile' = profile /\ written' = written
        /\ pc'[c] = "loaded" => loaded'[c] = profile
     \/ /\ written' = Append(written, c) /\ pc[c] # "idle" /\ pc'[c] # "loaded"
        /\ profile' = Rewrite(IF pc[c] = "loaded" THEN loaded[c] ELSE profile, request[c])

LEMMA StepWrites ==
  ASSUME TypeOK, NEW c \in Calls,
         (\E q \in Requests : Arrive(c, q)) \/ Serve(c) \/ Disconnect(c)
  PROVE  Writes(c)
<1> USE DEF TypeOK, Writes, Goto
<1>1. CASE \E q \in Requests : Arrive(c, q)
  BY <1>1 DEF Arrive, shared, local
<1>2. ASSUME NEW p, Write(c, p), pc[c] # "idle",
             p = Rewrite(IF pc[c] = "loaded" THEN loaded[c] ELSE profile, request[c])
      PROVE  Writes(c)
  BY <1>2 DEF Write, StoreProfile, shared, history
<1>3. CASE Put(c)
  <2>1. request[c].route = "put" /\ pc[c] = "open"
    BY <1>3 DEF Put, Route
  <2> QED BY <1>2, <1>3, <2>1 DEF Put, Rewrite
<1>4. CASE Patch(c)
  <2>1. request[c].route = "patch" /\ pc[c] = "loaded"
    BY <1>4 DEF Patch, Route
  <2> QED BY <1>2, <1>4, <2>1 DEF Patch, Rewrite
<1>5. CASE Refuse(c) \/ LoadProfile(c) \/ Complete(c)
  BY <1>5 DEF Refuse, LoadProfile, Complete, shared, history
<1>6. CASE SaveResponse(c) \/ CreateConversation(c) \/ ReadLog(c)
  BY <1>6 DEF SaveResponse, CreateConversation, ReadLog, shared, local, history
<1>7. CASE ResetProfile(c)
  <2>1. request[c].route = "reset" /\ pc[c] = "open"
    BY <1>7 DEF ResetProfile, Route
  <2> QED BY <1>7, <2>1 DEF ResetProfile, StoreProfile, Rewrite, local
<1>8. CASE ResetLog(c) \/ ResetResponses(c) \/ ResetConversations(c)
  BY <1>8 DEF ResetLog, ResetResponses, ResetConversations, local, history
<1>9. CASE Count(c) \/ Record(c) \/ Disconnect(c)
  BY <1>9 DEF Count, Record, Disconnect, shared, local, history
<1> QED BY <1>1, <1>3, <1>4, <1>5, <1>6, <1>7, <1>8, <1>9 DEF Serve

\* A write, when writes have not overlapped.
LEMMA OneMoreWrite ==
  ASSUME TypeOK, TypeOK', BeforeIsOver, WritersArrived, LoadedIsLive, Composed,
         NEW c \in Calls, Moves(c), Apart',
         written' = Append(written, c), pc[c] # "idle",
         profile' = Rewrite(IF pc[c] = "loaded" THEN loaded[c] ELSE profile, request[c])
  PROVE  \E f : Replays(Asks', Len(written)', f) /\ profile' = f[Len(written)']
<1> DEFINE n == Len(written)
<1>1. /\ n \in Nat /\ DOMAIN written = 1 .. n /\ \A i \in 1 .. n : written[i] \in Calls
      /\ Len(written)' = n + 1 /\ DOMAIN written' = 1 .. n + 1
      /\ written'[n + 1] = c /\ \A i \in 1 .. n : written'[i] = written[i]
  <2>1. written \in Seq(Calls)
    BY DEF TypeOK
  <2> QED BY <2>1, AppendProperties
<1> HIDE DEF n
<1>2. /\ before'[c] = before[c] /\ request'[c] = request[c] /\ pc[c] \notin Over
      /\ \A i \in 1 .. n : /\ before'[written[i]] = before[written[i]]
                           /\ request'[written[i]] = request[written[i]]
  BY <1>1 DEF Moves, WritersArrived
<1>3. Apart
  <2> SUFFICES ASSUME NEW i \in 1 .. n, NEW j \in 1 .. n, i # j
               PROVE  ~Overlap(written[i], written[j])
    BY <1>1 DEF Apart
  <2>1. i \in DOMAIN written' /\ j \in DOMAIN written'
    BY <1>1
  <2>2. \/ written'[i] \in before'[written'[j]]
        \/ written'[j] \in before'[written'[i]]
    BY <2>1 DEF Apart, Overlap
  <2> QED BY <1>1, <1>2, <2>2 DEF Overlap
<1>4. ASSUME NEW i \in 1 .. n PROVE written[i] \in before[c]
  <2>1. i \in DOMAIN written' /\ n + 1 \in DOMAIN written' /\ i # n + 1
    BY <1>1
  <2>2. \/ written'[i] \in before'[written'[n + 1]]
        \/ written'[n + 1] \in before'[written'[i]]
    BY <2>1 DEF Apart, Overlap
  <2>3. c \notin before[written[i]]
    BY <1>1, <1>2 DEF BeforeIsOver
  <2> QED BY <1>1, <1>2, <2>2, <2>3 DEF Overlap
<1>5. profile' = Rewrite(profile, request[c])
  BY <1>1, <1>4 DEF LoadedIsLive
<1>6. PICK f : Replays(Asks, n, f) /\ profile = f[n]
  BY <1>3 DEF Composed, n
<1>7. /\ \A i \in 1 .. n : Asks'[i] = Asks[i]
      /\ Asks'[n + 1] = request[c]
  BY <1>1, <1>2 DEF Asks
<1> DEFINE g == [k \in 0 .. n + 1 |-> IF k = n + 1 THEN profile' ELSE f[k]]
<1>8. g[n + 1] = profile' /\ \A k \in 0 .. n : g[k] = f[k]
  BY <1>1
<1> HIDE DEF g
<1>9. g[0] = Boot
  BY <1>1, <1>6, <1>8 DEF Replays
<1>10. ASSUME NEW k \in 1 .. n + 1 PROVE g[k] = Rewrite(g[k - 1], Asks'[k])
  <2>1. CASE k = n + 1
    <3>1. k - 1 = n /\ n \in 0 .. n
      BY <1>1, <2>1
    <3> QED BY <1>5, <1>6, <1>7, <1>8, <2>1, <3>1
  <2>2. CASE k # n + 1
    <3>1. k \in 1 .. n /\ k \in 0 .. n /\ k - 1 \in 0 .. n
      BY <1>1, <2>2
    <3>2. f[k] = Rewrite(f[k - 1], Asks[k])
      BY <1>6, <3>1 DEF Replays
    <3> QED BY <1>7, <1>8, <3>1, <3>2
  <2> QED BY <2>1, <2>2
<1>11. Replays(Asks', n + 1, g)
  BY <1>9, <1>10 DEF Replays
<1> QED BY <1>1, <1>8, <1>11

LEMMA NextComposing == Composing /\ [Next]_vars => Composing'
<1> SUFFICES ASSUME Composing, [Next]_vars PROVE Composing'
  OBVIOUS
<1>0. TypeOK /\ BeforeIsOver /\ WritersArrived /\ LoadedIsLive /\ Composed
  BY DEF Composing
<1>1. TypeOK'
  BY <1>0, NextTypeOK
<1>2. ASSUME NEW c \in Calls, Moves(c), Writes(c)
      PROVE  Composing'
  <2>1. BeforeIsOver'
    <3>1. \A d \in Calls : pc[d] \in Over => pc'[d] \in Over
      BY <1>2 DEF Moves
    <3> QED BY <1>0, <1>1, <1>2, <3>1 DEF BeforeIsOver, Moves, TypeOK
  <2>2. \A d \in Calls : pc[d] # "idle" =>
          pc'[d] # "idle" /\ request'[d] = request[d] /\ before'[d] = before[d]
    BY <1>2 DEF Moves
  <2>3. written \in Seq(Calls) /\ \A i \in DOMAIN written : written[i] \in Calls
    <3>1. written \in Seq(Calls)
      BY <1>0 DEF TypeOK
    <3> QED BY <3>1
  <2>4. CASE /\ profile' = profile /\ written' = written
             /\ pc'[c] = "loaded" => loaded'[c] = profile
    <3>1. WritersArrived'
      BY <1>0, <2>2, <2>3, <2>4 DEF WritersArrived
    <3>2. LoadedIsLive'
      <4> SUFFICES ASSUME NEW d \in Calls, pc'[d] = "loaded",
                          \A i \in DOMAIN written' : written'[i] \in before'[d]
                   PROVE  loaded'[d] = profile'
        BY DEF LoadedIsLive
      <4>1. CASE d = c
        BY <2>4, <4>1
      <4>2. CASE d # c
        BY <1>0, <1>2, <2>4, <4>2 DEF LoadedIsLive, Moves, Writes
      <4> QED BY <4>1, <4>2
    <3>3. Asks' = Asks
      BY <1>0, <2>2, <2>3, <2>4 DEF Asks, WritersArrived
    <3>4. Apart' => Apart
      BY <1>0, <2>2, <2>3, <2>4 DEF Apart, Overlap, WritersArrived
    <3>5. Composed'
      BY <1>0, <2>4, <3>3, <3>4 DEF Composed
    <3> QED BY <1>1, <2>1, <3>1, <3>2, <3>5 DEF Composing
  <2>5. CASE /\ written' = Append(written, c) /\ pc[c] # "idle" /\ pc'[c] # "loaded"
             /\ profile' = Rewrite(IF pc[c] = "loaded" THEN loaded[c] ELSE profile, request[c])
    <3>1. /\ Len(written) \in Nat /\ DOMAIN written = 1 .. Len(written)
          /\ DOMAIN written' = 1 .. Len(written) + 1 /\ written'[Len(written) + 1] = c
          /\ \A i \in 1 .. Len(written) : written'[i] = written[i]
      BY <2>3, <2>5, AppendProperties
    <3>2. WritersArrived'
      <4> SUFFICES ASSUME NEW i \in 1 .. Len(written) + 1 PROVE pc'[written'[i]] # "idle"
        BY <3>1 DEF WritersArrived
      <4>1. CASE i = Len(written) + 1
        BY <2>2, <2>5, <3>1, <4>1
      <4>2. CASE i # Len(written) + 1
        <5>1. i \in DOMAIN written /\ written'[i] = written[i]
          BY <3>1, <4>2
        <5> QED BY <1>0, <2>2, <2>3, <5>1 DEF WritersArrived
      <4> QED BY <4>1, <4>2
    <3>3. LoadedIsLive'
      <4> SUFFICES ASSUME NEW d \in Calls, pc'[d] = "loaded",
                          \A i \in DOMAIN written' : written'[i] \in before'[d]
                   PROVE  FALSE
        BY DEF LoadedIsLive
      <4>1. d # c /\ pc[d] # "idle"
        BY <1>2, <2>5 DEF Moves
      <4>2. Len(written) + 1 \in DOMAIN written'
        BY <3>1
      <4>3. c \in before[d]
        BY <2>2, <3>1, <4>1, <4>2
      <4> QED BY <1>0, <1>2, <4>3 DEF BeforeIsOver, Moves
    <3>4. Composed'
      <4>1. ASSUME Apart'
            PROVE  \E f : Replays(Asks', Len(written)', f) /\ profile' = f[Len(written)']
        BY <1>0, <1>1, <1>2, <2>5, <4>1, OneMoreWrite
      <4> QED BY <4>1 DEF Composed
    <3> QED BY <1>1, <2>1, <3>2, <3>3, <3>4 DEF Composing
  <2> QED BY <1>2, <2>4, <2>5 DEF Writes
<1>3. CASE Next
  BY <1>0, <1>2, <1>3, StepMoves, StepWrites DEF Next
<1>4. CASE UNCHANGED vars
  <2>1. UNCHANGED <<profile, pc, request, before, loaded, written>>
    BY <1>4 DEF vars, shared, local, history
  <2> QED BY <1>0, <1>1, <2>1 DEF Composing, BeforeIsOver, WritersArrived, LoadedIsLive,
       Composed, Apart, Overlap, Asks
<1> QED BY <1>3, <1>4

\* SequentialWritesCompose: for any number of writers, a PUT replaces, a PATCH
\* changes what it names and a reset restores, each what the write before left, as
\* long as no two of them overlap (put_scenario, patch_scenario, reset).
THEOREM WritesCompose == Spec => []SequentialWritesCompose
<1>1. Init => Composing
  <2> SUFFICES ASSUME Init PROVE Composing
    OBVIOUS
  <2>1. /\ \A c \in Calls : pc[c] = "idle" /\ before[c] = {}
        /\ written = <<>> /\ profile = Boot
    BY DEF Init
  <2>2. Composed
    <3> DEFINE f == [k \in 0 .. 0 |-> Boot]
    <3>1. Len(written) = 0 /\ f[0] = Boot /\ 1 .. 0 = {}
      BY <2>1
    <3> HIDE DEF f
    <3>2. Replays(Asks, 0, f)
      BY <3>1 DEF Replays
    <3> QED BY <2>1, <3>1, <3>2 DEF Composed
  <2>3. WritersArrived /\ LoadedIsLive /\ BeforeIsOver
    BY <2>1 DEF WritersArrived, LoadedIsLive, BeforeIsOver
  <2> QED BY <2>2, <2>3, InitTypeOK DEF Composing
<1>2. Composing => SequentialWritesCompose
  <2> SUFFICES ASSUME Composing, Apart
               PROVE  profile = FoldLeft(Written, Boot, written)
    BY DEF SequentialWritesCompose, Apart
  <2>1. PICK f : Replays(Asks, Len(written), f) /\ profile = f[Len(written)]
    BY DEF Composing, Composed
  <2>2. written \in Seq(Calls) /\ \A i \in DOMAIN written : pc[written[i]] # "idle"
    BY DEF Composing, TypeOK, WritersArrived
  <2>3. f[Len(written)] = FoldLeft(Written, Boot, written)
    BY <2>1, <2>2, FoldIsReplay
  <2> QED BY <2>1, <2>3
<1> QED BY <1>1, <1>2, NextComposing, PTL DEF Spec

=============================================================================
