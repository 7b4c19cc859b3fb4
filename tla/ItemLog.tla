------------------------------- MODULE ItemLog -------------------------------
(***************************************************************************)
(* What a conversation promises its readers: an ordered log of item ids    *)
(* (README, "own an ordered process-local item log").  Writers extend a    *)
(* log only at its end, deletions take single ids out and never reorder    *)
(* the rest, and an id occurs at most once.                                *)
(***************************************************************************)
EXTENDS Sequences, SequencesExt, Functions

CONSTANT Conversations

VARIABLES
  open,  \* the conversations that exist
  log    \* [Conversations -> sequence of distinct ids, empty when not open]

logVars == <<open, log>>

Only(c) == \A d \in Conversations \ {c} : log'[d] = log[d]

Init ==
  /\ open = {}
  /\ log = [c \in Conversations |-> <<>>]

Open(c) ==
  /\ c \notin open
  /\ open' = open \cup {c}
  /\ IsInjective(log'[c])
  /\ Only(c)

Extend(c) ==
  /\ c \in open
  /\ IsStrictPrefix(log[c], log'[c])
  /\ IsInjective(log'[c])
  /\ Only(c)
  /\ UNCHANGED open

Delete(c) ==
  /\ c \in open
  /\ \E k \in DOMAIN log[c] : log'[c] = RemoveAt(log[c], k)
  /\ Only(c)
  /\ UNCHANGED open

Close(c) ==
  /\ open' = open \ {c}
  /\ log'[c] = <<>>
  /\ Only(c)

CloseAll ==
  /\ open' = {}
  /\ log' = [c \in Conversations |-> <<>>]

Next ==
  \/ \E c \in Conversations : Open(c) \/ Extend(c) \/ Delete(c) \/ Close(c)
  \/ CloseAll

Spec == Init /\ [][Next]_logVars

=============================================================================
