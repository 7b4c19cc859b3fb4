---------------------------- MODULE MCScriptLibrary ----------------------------
(***************************************************************************)
(* Small datasets for TLC.  Tokens are strings, "<" ends within a          *)
(* character; "HI" is "hi" once normalized.  The conversations repeat each *)
(* other's turns in other contexts, one has an id that is used twice, and  *)
(* replies think aloud, note usage, or can be cut within a character.      *)
(***************************************************************************)
EXTENDS ScriptLibrary

Turn(role, text) ==
  [role |-> role, text |-> text, finish |-> None, usage |-> None,
   payload |-> FALSE, parts |-> FALSE]

Reply(text, finish, usage) ==
  [Turn("assistant", text) EXCEPT !.finish = finish, !.usage = usage]

Noted(prompt, completion) == [prompt |-> prompt, completion |-> completion]

User(text) == Turn("user", <<text>>)

From(conversation, turns) == [conversation |-> conversation, turns |-> turns]

Thinking == <<"{", "t", "}", "v", "w">>

SampleSets ==
  << From(3, <<Turn("system", <<"be">>), User("HI"),
                 Reply(<<"a", "<", "b">>, "stop", None), User("yo"),
                 [Reply(<<"p">>, "stop", None) EXCEPT !.parts = TRUE]>>),
     From(5, <<User("go"), Reply(Thinking, "stop", Noted(1, 9))>>) >>

Unfinished == << From(3, <<User("hi"), Reply(<<"a">>, None, None)>>) >>

LibrarySets == { SampleSets, Unfinished, <<>>,
                 << From(7, <<User("yo"), Reply(<<>>, "content_filter", None)>>) >> }

Recording(conversation, messages, reply) ==
  [conversation |-> conversation, messages |-> messages, reply |-> reply]

LibraryInteractions ==
  { Recording(1, <<User("yo")>>, Reply(<<"c">>, "stop", Noted(1, 1))),
    Recording(2, <<User("hi"), User("yo")>>, Reply(<<"d", "e">>, None, Noted(2, 2))),
    Recording(4, <<Reply(<<"f">>, None, None), User("go"), User("hi"),
                   Reply(<<"g">>, None, None), User("yo")>>,
              Reply(Thinking, "length", Noted(5, 5))),
    Recording(3, <<User("zz")>>, Reply(<<"h">>, "stop", Noted(1, 1))) }

Message(role, text) ==
  [role |-> role, text |-> <<text>>, content |-> TRUE, tool_call |-> FALSE]

Ask(texts, n, cap) ==
  [model |-> "m", messages |-> [i \in DOMAIN texts |-> Message("user", texts[i])],
   numbers |-> [temperature |-> 1], n |-> n, max_tokens |-> 3,
   max_completion_tokens |-> cap, top_logprobs |-> None, logprobs |-> FALSE,
   stops |-> 0, bias |-> {}, tools |-> {"f"}, tool_choice |-> None]

Plain(texts) == [Ask(texts, None, None) EXCEPT !.max_tokens = None]

LibraryRequests ==
  { Plain(<<"yo">>), Plain(<<"hi", "yo">>), Plain(<<"go", "hi", "yo">>),
    Plain(<<"zz">>), Plain(<<"xx", "hi">>), Plain(<<"HI">>),
    Ask(<<"hi">>, 2, 2), Ask(<<"go">>, 1, 1), Ask(<<"yo">>, None, None),
    [Plain(<<"yo">>) EXCEPT !.messages = @ \o <<Message("assistant", "c")>>,
                            !.tool_choice = "f", !.stops = 4],
    [Plain(<<"yo">>) EXCEPT !.messages = <<Message("system", "yo")>>],
    Ask(<<"hi">>, 0, None), Ask(<<"hi">>, None, 0),
    [Plain(<<"hi">>) EXCEPT !.tool_choice = "g"],
    [Plain(<<"hi">>) EXCEPT !.numbers = [temperature |-> 3]],
    [Plain(<<"hi">>) EXCEPT !.messages = <<[Message("tool", "hi") EXCEPT !.content = FALSE]>>] }

LibraryPlans ==
  { [trace |-> <<"t", "<", "u">>, text |-> <<"a", "b">>, tokens |-> 0, terminal |-> "completed"],
    [trace |-> None, text |-> <<"a", "<", "b", "c">>, tokens |-> 0, terminal |-> "completed"],
    [trace |-> <<"t">>, text |-> <<"a">>, tokens |-> 2, terminal |-> "failed"] }

LibraryTokens ==
  {"a", "b", "c", "d", "e", "f", "g", "h", "p", "t", "u", "v", "w", "x", "<", "?", "{", "}",
   "be", "hi", "HI", "yo", "go", "zz", "xx"}

NumberRanges == [temperature |-> <<0, 2>>]

LowerCase(text) == IF text = <<"HI">> THEN <<"hi">> ELSE text

\* Digests for which requests without a match fall on different replies.
Lengths(key) == Len(key.turns) + (IF <<"zz">> \in {key.turns[i].text : i \in DOMAIN key.turns}
                                  THEN 2 ELSE 0)
MixLengths(plan, choice) == Len(plan.text) + choice
=============================================================================
