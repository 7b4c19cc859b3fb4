-------------------------- MODULE MCCreateResponse --------------------------
(***************************************************************************)
(* CreateResponse on small instances.                                      *)
(***************************************************************************)
EXTENDS ItemLogRefinement, TLC

CONSTANTS c1, b1, w1, w2

\* Writers are interchangeable: only safety is checked with it.
Writers == Permutations({w1, w2})

OneInitialItem == [c \in ConversationIds |-> 1]
OneItemBatches == [b \in Batches |-> 1]

Body(conversation, input, output, store) ==
  [conversation |-> conversation, input |-> input, output |-> output,
   instructions |-> FALSE, fault |-> FALSE, store |-> store,
   metadata |-> "m1"]

\* One text message that is answered with a message.
Ask(conversation) == Body(conversation, <<"message">>, <<"message">>, TRUE)

\* Writers of one conversation with the same body: the overlapping and the
\* sequential identical requests of the scope document.
SameBody == {[Ask(c1) EXCEPT !.store = FALSE]}

\* The same with a reasoning item replayed before the message: the output is
\* numbered as the message is.
ReplayBody == {Body(c1, <<"reasoning", "message">>, <<"message">>, FALSE)}

\* A conversation write and its faulted twin, and requests without a
\* conversation that differ in what their ids leave out.
MixedBodies == {Ask(c1), [Ask(c1) EXCEPT !.fault = TRUE], Ask(None),
                [Ask(None) EXCEPT !.metadata = "m2"]}

=============================================================================
