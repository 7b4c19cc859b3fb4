--------------------------- MODULE MCFixtureLibrary ---------------------------
(***************************************************************************)
(* FixtureLibrary on a small corpus.  The ids 1 and 2 name fixtures and    *)
(* cases; 3 and 4 are the efforts "low" and "high", 5 a plain variant, 6 a *)
(* negative one and 7 no canonical id.                                     *)
(***************************************************************************)
EXTENDS FixtureLibrary, TLC

CONSTANTS plain, reasoner

MCCatalogue ==
  (plain    :> [reasoning |-> FALSE, efforts |-> {}, structured |-> FALSE]) @@
  (reasoner :> [reasoning |-> TRUE, efforts |-> {3, 4}, structured |-> TRUE])

Silent == [summary |-> None, trace |-> None, encrypted |-> None, tokens |-> None,
           answer |-> None, refusal |-> None, structured |-> None]
Says(text) == [Silent EXCEPT !.answer = text]
Refuses == [Silent EXCEPT !.refusal = "no"]
Thinks == [Silent EXCEPT !.summary = "hm", !.answer = "A"]
Root == {[at |-> "root", object |-> TRUE, keywords |-> {"type"}, remote |-> FALSE]}
Json(valid, negative) ==
  [Silent EXCEPT !.structured =
     [json |-> IF valid THEN "{}" ELSE "[]", parses |-> TRUE, schema |-> Root,
      compiles |-> TRUE, valid |-> valid, negative |-> negative, object |-> valid,
      satisfies |-> IF valid THEN {"owned"} ELSE {"other"}]]

User(text) == [role |-> "user", text |-> text]
Case1(efforts, default, fallback, variants) ==
  [id |-> 1, interfaces |-> <<>>, efforts |-> efforts, format |-> None,
   default |-> default, fallback |-> fallback, variants |-> variants,
   terminal |-> "completed"]
Doc(id, cases) ==
  [version |-> 2, id |-> id, described |-> TRUE, tags |-> <<>>,
   interfaces |-> <<"chat", "responses">>, models |-> <<>>,
   turns |-> <<User("hi")>>, reasoning |-> FALSE, structured |-> FALSE,
   cases |-> cases]

Low == Doc(1, <<Case1(<<3>>, 3, None, 3 :> Says("A"))>>)
High == Doc(2, <<Case1(<<4>>, 4, None, 4 :> Says("B"))>>)
HighTurned == [High EXCEPT !.turns = <<User("bye")>>]
LowTerse == Doc(1, <<Case1(<<3>>, 3, None, 3 :> Says("C"))>>)
Both == Doc(1, <<Case1(<<3>>, 3, None, 3 :> Says("A")),
                 [Case1(<<4>>, 4, None, 4 :> Refuses) EXCEPT !.id = 2]>>)
Falls == Doc(1, <<Case1(<<>>, 5, 5, (5 :> Says("A")) @@ (3 :> Says("B")))>>)
Grown == Doc(1, <<Case1(<<>>, 5, 5, (5 :> Says("A")) @@ (3 :> Says("B")) @@ (4 :> Says("C")))>>)
Rigid == Doc(2, <<Case1(<<>>, 5, None, 5 :> Says("A"))>>)
Mind == [Doc(2, <<Case1(<<3>>, 3, 3, 3 :> Thinks)>>)
           EXCEPT !.reasoning = TRUE, !.models = <<reasoner>>]
Shape(default, fallback, variants) ==
  [Doc(2, <<[Case1(<<>>, default, fallback, variants) EXCEPT !.format = "status"]>>)
     EXCEPT !.structured = TRUE]
Strict == Shape(5, 5, (5 :> Json(TRUE, FALSE)) @@ (6 :> Json(FALSE, TRUE)))

\* Documents the lint or the compiler refuses.
BadDefault == Doc(1, <<Case1(<<>>, 4, None, 5 :> Says("A"))>>)
BadEfforts == Doc(1, <<Case1(<<3, 4>>, 3, None, 3 :> Says("A"))>>)
BadFallback == Shape(5, 6, (5 :> Json(TRUE, FALSE)) @@ (6 :> Json(FALSE, TRUE)))
BadNegative == Shape(5, 5, (5 :> Json(FALSE, TRUE)) @@ (6 :> Json(FALSE, TRUE)))
Overlaps == Doc(2, <<Case1(<<3>>, 3, None, 3 :> Says("B"))>>)
Unfit == [Mind EXCEPT !.models = <<plain>>]

First == {Low, LowTerse, Both, Falls, Grown, BadDefault, BadEfforts}
Second == {High, HighTurned, Rigid, Mind, Strict, BadFallback, BadNegative, Overlaps, Unfit}
MCCorpora ==
  {{d} : d \in First \cup Second}
    \cup {{Low, d} : d \in Second} \cup {{LowTerse, High}, {Falls, Mind}, {Falls, Strict},
          {Grown, Strict}, {Grown, HighTurned}, {Low, Falls}}

Format == {None, [type |-> "json_schema", name |-> "status", schema |-> "owned"],
           [type |-> "json_schema", name |-> "status", schema |-> "other"],
           [type |-> "json_object", name |-> None]}
MCRequests ==
  {r \in [interface : {"responses"}, model : Models, effort : {None, 3, 4},
          turns : {<<User("hi")>>, <<User("new")>>, <<[role |-> "tool", text |-> "hi"]>>},
          format : Format, stream : {FALSE}, store : {FALSE}] :
     r.format = None \/ r.turns[1].role = "user"}
MCControls ==
  [case : {None, <<1>>, <<2>>}, variant : {None, 3, 6}]
    \cup {[case |-> <<1, 2>>, variant |-> None], [case |-> <<1, 1, 1>>, variant |-> None]}

MCDigest(part) ==
  (IF part.turns[1].text = "hi" THEN 0 ELSE 1) + (IF part.effort = None THEN 0 ELSE part.effort)
=============================================================================
