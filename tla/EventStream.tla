----------------------------- MODULE EventStream -----------------------------
(***************************************************************************)
(* What a streamed answer promises its client.  The server resolves a      *)
(* script before the stream starts: whole, all it has to send; body, how   *)
(* many of those frames pacing and faults act on; failure[n], the frames   *)
(* that report a failure in the place of what follows the first n.  The    *)
(* client gets the script from its start, each frame once and in order,    *)
(* and the stream ends in one of four ways: complete, failed, cut off      *)
(* within the body, or dropped by the client.  Nothing follows an end.     *)
(***************************************************************************)
EXTENDS Naturals, Sequences, SequencesExt

CONSTANTS Streams, Scripts, NoScript

VARIABLES
  script,  \* [Streams -> Scripts, or NoScript before the stream is opened]
  sent,    \* [Streams -> what has been sent]
  status   \* [Streams -> "new", "open", or how the stream ended]

vars == <<script, sent, status>>

Failures(x) ==
  {SubSeq(x.whole, 1, n) \o x.failure[n] : n \in 0 .. x.body}

Init ==
  /\ script = [s \in Streams |-> NoScript]
  /\ sent = [s \in Streams |-> <<>>]
  /\ status = [s \in Streams |-> "new"]

Open(s) ==
  /\ status[s] = "new"
  /\ \E x \in Scripts : script' = [script EXCEPT ![s] = x]
  /\ status' = [status EXCEPT ![s] = "open"]
  /\ UNCHANGED sent

\* The request may be answered with an error instead of a stream.
Refuse(s) ==
  /\ status[s] = "new"
  /\ \E x \in Scripts : script' = [script EXCEPT ![s] = x]
  /\ status' = [status EXCEPT ![s] = "refused"]
  /\ UNCHANGED sent

Send(s) ==
  /\ status[s] = "open"
  /\ \E transcript \in {script[s].whole} \cup Failures(script[s]) :
       /\ IsStrictPrefix(sent[s], transcript)
       /\ sent' = [sent EXCEPT ![s] = SubSeq(transcript, 1, Len(@) + 1)]
  /\ UNCHANGED <<script, status>>

MayEnd(s, end) ==
  CASE end = "complete" -> sent[s] = script[s].whole
    [] end = "failed"   -> sent[s] \in Failures(script[s])
    [] end = "cut"      -> /\ IsPrefix(sent[s], script[s].whole)
                           /\ Len(sent[s]) <= script[s].body
    [] end = "dropped"  -> TRUE

End(s) ==
  /\ status[s] = "open"
  /\ \E end \in {"complete", "failed", "cut", "dropped"} :
       /\ MayEnd(s, end)
       /\ status' = [status EXCEPT ![s] = end]
  /\ UNCHANGED <<script, sent>>

Next == \E s \in Streams : Open(s) \/ Refuse(s) \/ Send(s) \/ End(s)

Spec == Init /\ [][Next]_vars

=============================================================================
