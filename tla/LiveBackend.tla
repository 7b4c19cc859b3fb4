----------------------------- MODULE LiveBackend ------------------------------
(***************************************************************************)
(* The live backend: completions proxied to a paid API under a budget, a   *)
(* limit of concurrent calls and a timeout, and recorded in a dataset file *)
(* (LiveBackend::create_completion and record_interaction in src/live.rs,  *)
(* append_dataset_rows in src/dataset.rs).                                 *)
(*                                                                         *)
(* The budget is an atomic counter taken before anything else, the limit a *)
(* semaphore whose permit is held until the interaction is recorded.       *)
(* Recording reads the whole file, truncates it and writes it again, with  *)
(* no lock but the permit: as many recordings overlap as permits allow.    *)
(***************************************************************************)
EXTENDS Naturals, FiniteSets, SequencesExt

CONSTANTS
  Calls,          \* completions clients ask for
  MaxRequests,    \* LiveCaps::max_requests_per_session
  MaxConcurrent,  \* LiveCaps::max_concurrent_requests
  MaxCrashes,     \* bound: how often the process dies and is started again
  Torn            \* a file that is no parquet: truncated, or two writes mixed

ASSUME LiveAssumption ==
  /\ IsFiniteSet(Calls)
  /\ MaxRequests \in Nat
  /\ MaxConcurrent \in Nat \ {0}
  /\ MaxCrashes \in Nat
  /\ Torn \notin Seq(Calls)

VARIABLES
  recording, \* whether interactions are recorded to a path; a setting
  spent,     \* LiveBackend::spent
  permits,   \* permits the semaphore has left
  upstream,  \* calls this process has made to the paid API
  file,      \* the rows of the dataset, by the call recorded, or Torn
  pc,        \* where each call is; the last value is its answer
  rows,      \* what append_dataset_rows has read of the file
  mixed,     \* calls whose write overlapped another write of the file
  crashes,   \* how often the process has died
  disturbed  \* history: recordings overlapped, or the process died in one

process == <<spent, permits, upstream>>
disk == <<file, rows, mixed>>
liveVars == <<recording, process, disk, pc, crashes, disturbed>>

Recorders == {"read", "create", "write"}
Holding == {"calling"} \cup Recorders
Answers == {"ok", "exhausted", "failed", "timeout", "empty", "unrecorded",
            "dropped", "lost"}

InStage(stages) == {c \in Calls : pc[c] \in stages}

LiveInit ==
  /\ recording \in BOOLEAN
  /\ spent = 0
  /\ permits = MaxConcurrent
  /\ upstream = 0
  /\ file = <<>>
  /\ pc = [c \in Calls |-> "idle"]
  /\ rows = [c \in Calls |-> <<>>]
  /\ mixed = {}
  /\ crashes = 0
  /\ disturbed = FALSE

Goto(c, stage) == pc' = [pc EXCEPT ![c] = stage]

\* Mutant: the last request of the budget is given away once more.
TakeOneMore(c) ==
  /\ pc[c] = "idle"
  /\ spent' = spent + 1
  /\ Goto(c, IF spent > MaxRequests THEN "exhausted" ELSE "waiting")
  /\ UNCHANGED <<permits, upstream, disk, crashes, disturbed, recording>>

\* spent.fetch_add(1), which counts what it refuses too.
Take(c) ==
  /\ pc[c] = "idle"
  /\ spent' = spent + 1
  /\ Goto(c, IF spent >= MaxRequests THEN "exhausted" ELSE "waiting")
  /\ UNCHANGED <<permits, upstream, disk, crashes, disturbed, recording>>

\* permits.acquire().await, then the call; no await lies between them.
Acquire(c) ==
  /\ pc[c] = "waiting"
  /\ permits > 0
  /\ permits' = permits - 1
  /\ upstream' = upstream + 1
  /\ Goto(c, "calling")
  /\ UNCHANGED <<spent, disk, crashes, disturbed, recording>>

\* The request has no form of the client's: its permit comes straight back.
Unconvertible(c) ==
  /\ pc[c] = "waiting"
  /\ permits > 0
  /\ Goto(c, "failed")
  /\ UNCHANGED <<process, disk, crashes, disturbed, recording>>

\* Returning from create_completion drops the permit.
Leave(c, a) ==
  /\ permits' = permits + 1
  /\ Goto(c, a)
  /\ UNCHANGED <<spent, upstream>>

\* The API's answer: an error, a response of no choices, which is not
\* recorded and becomes ServiceError::EmptyResponse, or one with choices.
Return(c) ==
  /\ pc[c] = "calling"
  /\ \/ \E a \in {"failed", "empty"} : Leave(c, a)
     \/ ~recording /\ Leave(c, "ok")
     \/ recording /\ Goto(c, "read") /\ UNCHANGED process
  /\ UNCHANGED <<disk, crashes, disturbed, recording>>

\* Mutant: a call that timed out keeps its permit.
TimeoutKeepsPermit(c) ==
  /\ pc[c] = "calling"
  /\ Goto(c, "timeout")
  /\ UNCHANGED <<process, disk, crashes, disturbed, recording>>

\* tokio::time::timeout covers the call, and neither the wait for a permit
\* nor the recording.
Timeout(c) ==
  /\ pc[c] = "calling"
  /\ Leave(c, "timeout")
  /\ UNCHANGED <<disk, crashes, disturbed, recording>>

Others(c, stages) == InStage(stages) \ {c}

\* read_dataset_rows: a torn file fails, and the paid answer with it.
ReadRows(c) ==
  /\ pc[c] = "read"
  /\ \/ /\ file = Torn
        /\ Leave(c, "unrecorded")
        /\ UNCHANGED <<rows, disturbed>>
     \/ /\ file # Torn
        /\ rows' = [rows EXCEPT ![c] = file]
        /\ disturbed' = (disturbed \/ Others(c, {"create", "write"}) # {})
        /\ Goto(c, "create")
        /\ UNCHANGED process
  /\ UNCHANGED <<file, mixed, crashes, recording>>

\* File::create truncates in place.
CreateFile(c) ==
  /\ pc[c] = "create"
  /\ file' = Torn
  /\ mixed' = IF Others(c, {"write"}) = {} THEN mixed
              ELSE mixed \cup {c} \cup Others(c, {"write"})
  /\ Goto(c, "write")
  /\ UNCHANGED <<process, rows, crashes, disturbed, recording>>

\* Mutant: only the new rows are written.
CloseFileNewRowsOnly(c) ==
  /\ pc[c] = "write"
  /\ \/ file' = <<c>>
     \/ c \in mixed /\ file' = Torn
  /\ Leave(c, "ok")
  /\ UNCHANGED <<rows, mixed, crashes, disturbed, recording>>

\* The rows read and the new one.  Two writers each have their own position
\* in the file: the bytes of the one may stay behind those of the other.
CloseFile(c) ==
  /\ pc[c] = "write"
  /\ \/ file' = Append(rows[c], c)
     \/ c \in mixed /\ file' = Torn
  /\ Leave(c, "ok")
  /\ UNCHANGED <<rows, mixed, crashes, disturbed, recording>>

\* The client goes away while its handler awaits a permit or the API.
Disconnect(c) ==
  \/ /\ pc[c] = "waiting"
     /\ Goto(c, "dropped")
     /\ UNCHANGED <<process, disk, crashes, disturbed, recording>>
  \/ /\ pc[c] = "calling"
     /\ Leave(c, "dropped")
     /\ UNCHANGED <<disk, crashes, disturbed, recording>>

\* The process dies, wherever its handlers are, and is started again.
Crash ==
  /\ crashes < MaxCrashes
  /\ crashes' = crashes + 1
  /\ spent' = 0
  /\ permits' = MaxConcurrent
  /\ upstream' = 0
  /\ pc' = [c \in Calls |-> IF pc[c] \in {"idle"} \cup Answers THEN pc[c]
                            ELSE "lost"]
  /\ disturbed' = (disturbed \/ InStage({"write"}) # {})
  /\ UNCHANGED <<disk, recording>>

Serve(c) ==
  \/ Acquire(c) \/ Unconvertible(c) \/ Return(c) \/ Timeout(c)
  \/ ReadRows(c) \/ CreateFile(c) \/ CloseFile(c)

LiveNext == (\E c \in Calls : Take(c) \/ Serve(c) \/ Disconnect(c)) \/ Crash

LiveSpec == LiveInit /\ [][LiveNext]_liveVars

\* The semaphore is first come, first served, so a waiter is not passed over
\* for ever; a call returns or its timer fires; a recording does not wait.
FairSpec ==
  /\ LiveSpec
  /\ \A c \in Calls : /\ SF_liveVars(Acquire(c) \/ Unconvertible(c))
                      /\ WF_liveVars(Timeout(c))
                      /\ WF_liveVars(ReadRows(c) \/ CreateFile(c) \/ CloseFile(c))

-----------------------------------------------------------------------------
(***************************************************************************)
(* Properties.                                                             *)
(***************************************************************************)
\* README.md:203: one process makes at most max_requests_per_session calls,
\* however its requests overlap, time out or leave (spent, src/live.rs).
BudgetHolds == upstream <= MaxRequests

\* Every permit is in the semaphore or held by one call: none is lost when a
\* call fails, times out, is not recorded or loses its client, so that at
\* most max_concurrent_requests are in flight (permits, src/live.rs).
PermitsAddUp ==
  /\ permits \in 0 .. MaxConcurrent
  /\ permits + Cardinality(InStage(Holding)) = MaxConcurrent

\* While recordings neither overlap nor are cut off, the file keeps every
\* completion that was answered, each once (append_dataset_rows).
UndisturbedRowsKept ==
  recording /\ ~disturbed =>
    \/ InStage({"write"}) # {}
    \/ /\ file # Torn
       /\ Range(file) = InStage({"ok"})
       /\ IsInjective(file)

\* A call that took its place in the budget is answered, whatever the API
\* does: the timeout gives every permit back (src/live.rs).
EveryCallAnswered ==
  \A c \in Calls : pc[c] = "waiting" ~> pc[c] \in Answers
=============================================================================
