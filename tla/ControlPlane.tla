----------------------------- MODULE ControlPlane -----------------------------
(***************************************************************************)
(* The /_mock control plane beside the requests it reshapes: the live      *)
(* behaviour profile, the request log, the counters, and reset             *)
(* (src/http/control.rs; log_request, create_chat_completion and           *)
(* create_response in src/http/routes.rs; src/sim/directive.rs).           *)
(*                                                                         *)
(* The profile is an ArcSwap: a load gets one whole profile, a store       *)
(* replaces it, and nothing ties a store to an earlier load.  Handlers run *)
(* on several threads, so other handlers' steps fall between any two of    *)
(* the steps below; each step is what a handler does with one shared       *)
(* object.  A handler whose client goes away is dropped at an await.       *)
(***************************************************************************)
EXTENDS Naturals, FiniteSets, SequencesExt

CONSTANTS
  Calls,      \* HTTP requests; each arrives at most once
  Requests,   \* what a call may ask
  Paces,      \* values of a profile's timing; "default" is Timing::default()
  ModelPace,  \* the timing of the model's catalogue entry, or "default"
  Boot,       \* the profile the process started with
  Capacity,   \* LOG_CAPACITY
  None        \* no value

FaultKinds == {"none", "http_error"}

\* Probability 0, strictly between 0 and 1, and 1.
Rates == 0 .. 2
Never == 0
Always == 2

\* A Scenario; name and description change nothing and are left out.
Profiles == [pace : Paces, fault : FaultKinds, rate : Rates]

\* What a PUT that leaves a member out stores there (serde's defaults).
Defaults == [pace |-> "default", fault |-> "none", rate |-> Never]

Writers == {"put", "patch"}
Completers == {"chat", "responses"}
Routes == Writers \cup Completers \cup {"reset", "requests", "conversations"}

\* A request is a record with its route; writers also have members, a
\* function from the profile members they name, and completers have the
\* directives of their headers and of their body.
ASSUME ControlAssumption ==
  /\ "default" \in Paces
  /\ ModelPace \in Paces
  /\ Boot \in Profiles
  /\ Capacity \in Nat \ {0}
  /\ \A q \in Requests : q.route \in Routes
  /\ None \notin Requests /\ None \notin Routes

VARIABLES
  profile,        \* AppState::scenario
  log,            \* RequestLog::entries, by the call each is about
  responses,      \* calls whose object is in the response store
  conversations,  \* calls whose object is in the conversation store
  metrics,        \* Metrics
  pc,             \* where each call is
  request,        \* what each call asks
  loaded,         \* the profile a call's handler loaded
  listed,         \* what GET /_mock/requests answers
  answer,         \* what the handler decided to answer
  before,         \* history: calls that were over when this one arrived
  lives,          \* history: profiles live since the call arrived
  written         \* history: calls that stored a profile, in that order

shared == <<profile, log, responses, conversations, metrics>>
history == <<before, lives, written>>
local == <<loaded, listed, answer>>
vars == <<shared, pc, request, local, history>>

\* Stages of a call.
Over == {"done", "dropped"}
Decided == {"answered", "counted", "done"}
Stages == Over \cup Decided \cup
            {"idle", "open", "loaded", "save",
             "clear_log", "clear_responses", "clear_conversations"}
Running(c) == pc[c] \notin Over \cup {"idle"}
Route(c) == IF pc[c] = "idle" THEN None ELSE request[c].route

-----------------------------------------------------------------------------
(***************************************************************************)
(* Profiles and directives.                                                *)
(***************************************************************************)
\* Members of higher win; this is control.rs's merge on a profile and
\* Directive::merge on two directives.
Merge(lower, higher) ==
  [m \in DOMAIN lower \cup DOMAIN higher |->
     IF m \in DOMAIN higher THEN higher[m] ELSE lower[m]]

\* A member that is unknown, or has a value of another type, fails to
\* deserialize and the request is refused.
Deserializes(p) == p \in Profiles

\* Mutant: the catalogue overrides the profile.
PacedByModel(p) == ModelPace

\* The catalogue's timing stands in for a profile with the default timing.
Paced(p) == IF p.pace = "default" THEN ModelPace ELSE p.pace

\* An unknown fault kind is ignored.
Forces(d) == "fault" \in DOMAIN d /\ d["fault"] \in FaultKinds

\* Mutant: a directive's fault keeps the profile's rate.
ApplyAtProfileRate(d, p) ==
  [pace  |-> IF "pace" \in DOMAIN d THEN d["pace"] ELSE Paced(p),
   fault |-> IF Forces(d) THEN d["fault"] ELSE p.fault,
   rate  |-> IF "rate" \in DOMAIN d THEN d["rate"] ELSE p.rate]

\* Directive::apply: an explicit fault is meant to fire.
Apply(d, p) ==
  [pace  |-> IF "pace" \in DOMAIN d THEN d["pace"] ELSE Paced(p),
   fault |-> IF Forces(d) THEN d["fault"] ELSE p.fault,
   rate  |-> IF "rate" \in DOMAIN d THEN d["rate"]
             ELSE IF Forces(d) THEN Always ELSE p.rate]

\* The profile a completion runs under: headers, then the body over them.
Effective(q, p) == Apply(Merge(q.header, q.body), p)

\* fault_fires; between the two ends the seed decides.
MayFire(e) == e.fault = "http_error" /\ e.rate > Never
MustFire(e) == e.fault = "http_error" /\ e.rate = Always

-----------------------------------------------------------------------------
Init ==
  /\ profile = Boot
  /\ log = <<>>
  /\ responses = {}
  /\ conversations = {}
  /\ metrics = [requests |-> 0, errors |-> 0, completions |-> 0, faults |-> 0]
  /\ pc = [c \in Calls |-> "idle"]
  /\ request = [c \in Calls |-> None]
  /\ loaded = [c \in Calls |-> None]
  /\ listed = [c \in Calls |-> <<>>]
  /\ answer = [c \in Calls |-> None]
  /\ before = [c \in Calls |-> {}]
  /\ lives = [c \in Calls |-> {}]
  /\ written = <<>>

Goto(c, stage) == pc' = [pc EXCEPT ![c] = stage]
Answer(c, a) == answer' = [answer EXCEPT ![c] = a]

OK == [status |-> "ok"]
Refused == [status |-> "refused"]

Arrive(c, q) ==
  /\ pc[c] = "idle"
  /\ Goto(c, "open")
  /\ request' = [request EXCEPT ![c] = q]
  /\ before' = [before EXCEPT ![c] = {d \in Calls : pc[d] \in Over}]
  /\ lives' = [lives EXCEPT ![c] = {profile}]
  /\ UNCHANGED <<shared, local, written>>

\* A body that validation refuses, or a model the catalogue does not have.
Refuse(c) ==
  /\ pc[c] = "open"
  /\ Route(c) \in Completers
  /\ Answer(c, Refused)
  /\ Goto(c, "answered")
  /\ UNCHANGED <<shared, request, loaded, listed, history>>

\* state.scenario.load_full(): once per request, one whole profile.
LoadProfile(c) ==
  /\ pc[c] = "open"
  /\ Route(c) \in Completers \cup {"patch"}
  /\ loaded' = [loaded EXCEPT ![c] = profile]
  /\ Goto(c, "loaded")
  /\ UNCHANGED <<shared, request, listed, answer, history>>

\* state.scenario.store(p).
StoreProfile(c, p) ==
  /\ profile' = p
  /\ written' = Append(written, c)
  /\ lives' = [d \in Calls |-> IF Running(d) THEN lives[d] \cup {p}
                               ELSE lives[d]]
  /\ UNCHANGED <<log, responses, conversations, metrics, before>>

\* The end of a PUT or PATCH: p is stored if it deserializes.
Write(c, p) ==
  /\ IF Deserializes(p)
     THEN StoreProfile(c, p) /\ Answer(c, OK)
     ELSE Answer(c, Refused) /\ UNCHANGED <<shared, history>>
  /\ Goto(c, "answered")
  /\ UNCHANGED <<request, loaded, listed>>

\* Mutants: PUT merges, PATCH starts from the boot profile.
PutMerges(c) ==
  /\ pc[c] = "open"
  /\ Route(c) = "put"
  /\ Write(c, Merge(profile, request[c].members))
PatchOfBoot(c) ==
  /\ pc[c] = "loaded"
  /\ Route(c) = "patch"
  /\ Write(c, Merge(Boot, request[c].members))

Put(c) ==
  /\ pc[c] = "open"
  /\ Route(c) = "put"
  /\ Write(c, Merge(Defaults, request[c].members))

\* Merged into the profile loaded before, not into the one live now.
Patch(c) ==
  /\ pc[c] = "loaded"
  /\ Route(c) = "patch"
  /\ Write(c, Merge(loaded[c], request[c].members))

\* A planned completion is answered by its fault, or counted and answered.
Complete(c) ==
  LET e == Effective(request[c], loaded[c])
  IN  /\ pc[c] = "loaded"
      /\ Route(c) \in Completers
      /\ \/ /\ MayFire(e)
            /\ metrics' = [metrics EXCEPT !.faults = @ + 1]
            /\ Answer(c, [status |-> "fault"])
            /\ Goto(c, "answered")
         \/ /\ ~MustFire(e)
            /\ metrics' = [metrics EXCEPT !.completions = @ + 1]
            /\ Answer(c, [status |-> "ok", pace |-> e.pace])
            /\ Goto(c, IF Route(c) = "chat" THEN "answered" ELSE "save")
      /\ UNCHANGED <<profile, log, responses, conversations, request, loaded,
                     listed, history>>

SaveResponse(c) ==
  /\ pc[c] = "save"
  /\ responses' = responses \cup {c}
  /\ Goto(c, "answered")
  /\ UNCHANGED <<profile, log, conversations, metrics, request, local,
                 history>>

CreateConversation(c) ==
  /\ pc[c] = "open"
  /\ Route(c) = "conversations"
  /\ conversations' = conversations \cup {c}
  /\ Answer(c, OK)
  /\ Goto(c, "answered")
  /\ UNCHANGED <<profile, log, responses, metrics, request, loaded, listed,
                 history>>

\* GET /_mock/requests.
ReadLog(c) ==
  /\ pc[c] = "open"
  /\ Route(c) = "requests"
  /\ listed' = [listed EXCEPT ![c] = log]
  /\ Answer(c, OK)
  /\ Goto(c, "answered")
  /\ UNCHANGED <<shared, request, loaded, history>>

\* POST /_mock/reset: four objects, one after the other.
ResetProfile(c) ==
  /\ pc[c] = "open"
  /\ Route(c) = "reset"
  /\ StoreProfile(c, Boot)
  /\ Goto(c, "clear_log")
  /\ UNCHANGED <<request, local>>

ResetLog(c) ==
  /\ pc[c] = "clear_log"
  /\ log' = <<>>
  /\ Goto(c, "clear_responses")
  /\ UNCHANGED <<profile, responses, conversations, metrics, request, local,
                 history>>

ResetResponses(c) ==
  /\ pc[c] = "clear_responses"
  /\ responses' = {}
  /\ Goto(c, "clear_conversations")
  /\ UNCHANGED <<profile, log, conversations, metrics, request, local,
                 history>>

\* Mutant: conversations outlive a reset.
ResetKeepsConversations(c) ==
  /\ pc[c] = "clear_conversations"
  /\ Route(c) = "reset"
  /\ Answer(c, OK)
  /\ Goto(c, "answered")
  /\ UNCHANGED <<shared, request, loaded, listed, history>>

ResetConversations(c) ==
  /\ pc[c] = "clear_conversations"
  /\ Route(c) = "reset"
  /\ conversations' = {}
  /\ Answer(c, OK)
  /\ Goto(c, "answered")
  /\ UNCHANGED <<profile, log, responses, metrics, request, loaded, listed,
                 history>>

-----------------------------------------------------------------------------
(***************************************************************************)
(* The middleware on the way out: log_request.                             *)
(***************************************************************************)
Count(c) ==
  /\ pc[c] = "answered"
  /\ metrics' = [metrics EXCEPT
                   !.requests = @ + 1,
                   !.errors = IF answer[c].status = "ok" THEN @ ELSE @ + 1]
  /\ Goto(c, "counted")
  /\ UNCHANGED <<profile, log, responses, conversations, request, local,
                 history>>

\* Mutant: a full log takes no more.
PushIfRoom(entries, c) ==
  IF Len(entries) = Capacity THEN entries ELSE Append(entries, c)

\* RequestLog::record: the oldest entry makes room.
Push(entries, c) ==
  Append(IF Len(entries) = Capacity THEN Tail(entries) ELSE entries, c)

Record(c) ==
  /\ pc[c] = "counted"
  /\ log' = Push(log, c)
  /\ Goto(c, "done")
  /\ UNCHANGED <<profile, responses, conversations, metrics, request, local,
                 history>>

\* The awaits of each handler: its body or its first lock, the completion
\* store's or the planning stores' lock, the save, and reset's two locks.
MayBeDropped(c) ==
  \/ pc[c] \in {"open", "save", "clear_responses", "clear_conversations"}
  \/ pc[c] = "loaded" /\ Route(c) \in Completers

Disconnect(c) ==
  /\ MayBeDropped(c)
  /\ Goto(c, "dropped")
  /\ UNCHANGED <<shared, request, local, history>>

Serve(c) ==
  \/ Refuse(c) \/ LoadProfile(c) \/ Put(c) \/ Patch(c)
  \/ Complete(c) \/ SaveResponse(c) \/ CreateConversation(c) \/ ReadLog(c)
  \/ ResetProfile(c) \/ ResetLog(c) \/ ResetResponses(c)
  \/ ResetConversations(c) \/ Count(c) \/ Record(c)

Next ==
  \E c \in Calls :
    \/ \E q \in Requests : Arrive(c, q)
    \/ Serve(c)
    \/ Disconnect(c)

Spec == Init /\ [][Next]_vars

-----------------------------------------------------------------------------
(***************************************************************************)
(* Properties.                                                             *)
(***************************************************************************)
\* Each shared object, and each call, is in one of its states.
TypeOK ==
  /\ profile \in Profiles
  /\ log \in Seq(Calls) /\ Len(log) <= Capacity
  /\ responses \subseteq Calls
  /\ conversations \subseteq Calls
  /\ metrics \in [requests : Nat, errors : Nat, completions : Nat, faults : Nat]
  /\ pc \in [Calls -> Stages]
  /\ request \in [Calls -> Requests \cup {None}]
  /\ loaded \in [Calls -> Profiles \cup {None}]
  /\ listed \in [Calls -> Seq(Calls)]
  /\ DOMAIN answer = Calls
  /\ before \in [Calls -> SUBSET Calls]
  /\ lives \in [Calls -> SUBSET Profiles]
  /\ written \in Seq(Calls)

\* What a write makes of the profile before it, by the documentation: PUT
\* replaces the profile wholesale, PATCH changes the members it names, reset
\* restores the boot profile.
Written(p, c) ==
  CASE Route(c) = "put"   -> Merge(Defaults, request[c].members)
    [] Route(c) = "patch" -> Merge(p, request[c].members)
    [] Route(c) = "reset" -> Boot

Overlap(c, d) == c \notin before[d] /\ d \notin before[c]

\* Writes that do not overlap in time compose: the live profile is what the
\* boot profile becomes under them one after the other (put_scenario,
\* patch_scenario and reset, src/http/control.rs).
SequentialWritesCompose ==
  (\A i, j \in DOMAIN written :
     i # j => ~Overlap(written[i], written[j]))
  => profile = FoldLeft(Written, Boot, written)

\* What a request itself says of member m: the body wins over headers.
Says(q, m) ==
  IF m \in DOMAIN q.body THEN {q.body[m]}
  ELSE IF m \in DOMAIN q.header THEN {q.header[m]} ELSE {}

Completed(c) ==
  Route(c) \in Completers /\ pc[c] \in Decided /\ answer[c] # Refused

\* Per-request overrides beat the scenario: a fault a request names decides
\* its answer, and a timing it names its pace, whatever profiles are stored
\* meanwhile (Directive::merge and Directive::apply).
OverridesBeatScenario ==
  \A c \in Calls : Completed(c) =>
    LET q == request[c]
    IN  /\ \A kind \in Says(q, "fault") \cap FaultKinds :
             Says(q, "rate") = {} =>
               (answer[c].status = "fault" <=> kind = "http_error")
        /\ answer[c].status = "ok" =>
             \A pace \in Says(q, "pace") : answer[c].pace = pace

\* What a profile alone makes of a completion.
Follows(a, p) ==
  IF a.status = "fault"
  THEN p.fault = "http_error" /\ p.rate > Never
  ELSE /\ p.fault = "none" \/ p.rate < Always
       /\ p.pace # "default" => a.pace = p.pace
       /\ p.pace = "default" => a.pace = ModelPace

\* An answer is that of one profile: a request that overrides nothing is
\* answered, fault and pace alike, as one profile says that was live between
\* its arrival and its answer (scenario.load_full() in the two handlers).
AnswersFollowOneProfile ==
  \A c \in Calls :
    /\ Completed(c)
    /\ \A m \in {"fault", "rate", "pace"} : Says(request[c], m) = {}
    => \E p \in lives[c] : Follows(answer[c], p)

\* Once a reset is answered, nothing of a call that was over when it came is
\* left in the log or in a store, whatever ran beside the reset.
ResetForgets ==
  \A z \in Calls : Route(z) = "reset" /\ pc[z] \in Decided =>
    before[z] \cap (Range(log) \cup responses \cup conversations) = {}

\* A client that has its answer finds its request in the log, unless a reset
\* or as many later requests as the log holds came in between (log_request
\* records before it returns the response; RequestLog::record).
AnsweredAreLogged ==
  \A c, d \in Calls :
    /\ Route(c) = "requests" /\ pc[c] \in Decided
    /\ d \in before[c] /\ pc[d] = "done"
    /\ d \notin Range(listed[c])
    => \/ \E z \in Calls : Route(z) = "reset" /\ z \notin before[d]
       \/ Cardinality({x \in Calls \ {d} : /\ pc[x] = "done"
                                           /\ x \notin before[d]}) >= Capacity

=============================================================================
