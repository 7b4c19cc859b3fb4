---------------------------- MODULE ScriptSelection ----------------------------
(***************************************************************************)
(* Which reply of a dataset answers a chat request (src/sim/select.rs).    *)
(* Selection is a pure function of the scripts and of the request's model  *)
(* and normalized messages.                                                *)
(***************************************************************************)
EXTENDS ScriptDataset

CONSTANTS
  Normal(_),      \* a text in lower case with its white space collapsed
  DigestOf(_),    \* the FNV-1a digest of a selection key
  Mixed(_, _),    \* a plan's digest mixed with the index of a choice
  High            \* 2^32: what a digest is divided by for its upper half

ASSUME HighAssumption == High \in Nat \ {0}

\* SelectionKey::from_request
KeyTurns(request) ==
  [i \in DOMAIN request.messages |->
     [role |-> request.messages[i].role, text |-> Normal(request.messages[i].text)]]

Key(request) == [model |-> request.model, turns |-> KeyTurns(request)]

TextsOf(turns) == [i \in DOMAIN turns |-> turns[i].text]

IsUser(turn) == turn.role = "user"

\* user_turns
Asked(request) ==
  LET turns == KeyTurns(request)
  IN  ElementsAt(TextsOf(turns), {i \in DOMAIN turns : IsUser(turns[i])})

-----------------------------------------------------------------------------
\* ScriptIndex::build: of each script the replies it has, the user turns that
\* one comes after, and that reply.
Replies(turns) == ElementsAt(turns, {q \in DOMAIN turns : IsAssistant(turns[q])})

UserPlaces(turns) ==
  ElementsAt([p \in DOMAIN turns |-> p],
             {p \in DOMAIN turns :
                /\ IsUser(turns[p])
                /\ \E q \in DOMAIN turns : q > p /\ IsAssistant(turns[q])})

\* Mutant: the k-th user turn is answered by the k-th assistant turn.
ReplyAfterByNumber(turns, p) ==
  LET k == Cardinality({q \in 1 .. p : IsUser(turns[q])})
  IN  Replies(turns)[Least(k, Len(Replies(turns)))]

\* The first assistant turn after the user turn at p.
ReplyAfter(turns, p) ==
  turns[Min({q \in DOMAIN turns : q > p /\ IsAssistant(turns[q])})]

Build(scripts) ==
  [s \in DOMAIN scripts |->
     LET turns == scripts[s].turns
         places == UserPlaces(turns)
     IN  [id         |-> scripts[s].id,
          assistants |-> Replies(turns),
          users      |-> [k \in DOMAIN places |-> Normal(turns[places[k]].text)],
          replies    |-> [k \in DOMAIN places |-> ReplyAfter(turns, places[k])]]]

-----------------------------------------------------------------------------
Selection(index, match, kind) ==
  [script |-> index[match[1]].id, reply |-> index[match[1]].replies[match[2]],
   kind |-> kind]

\* The places where the last length turns asked stand in a script: the script
\* and its user turn that is the last of them.
Matches(index, asked, length) ==
  {m \in UNION {{s} \X (length .. Len(index[s].users)) : s \in DOMAIN index} :
     SubSeq(index[m[1]].users, m[2] - length + 1, m[2])
       = SubSeq(asked, Len(asked) - length + 1, Len(asked))}

\* The first one in the order of the loops over scripts and starts.
FirstOf(matches) ==
  CHOOSE m \in matches : \A n \in matches : m[1] < n[1] \/ (m[1] = n[1] /\ m[2] <= n[2])

\* match_conversation_prefix: all turns asked, at the start of a script.
PrefixMatches(index, asked) ==
  {m \in Matches(index, asked, Len(asked)) : m[2] = Len(asked)}

\* Mutant: the shortest context is tried first.
SuffixMatchesShortest(index, asked) ==
  LET lengths == {n \in 1 .. Len(asked) : Matches(index, asked, n) /= {}}
  IN  IF lengths = {} THEN {} ELSE Matches(index, asked, Min(lengths))

\* match_suffix: the longest context that some script has.
SuffixMatches(index, asked) ==
  LET lengths == {n \in 1 .. Len(asked) : Matches(index, asked, n) /= {}}
  IN  IF lengths = {} THEN {} ELSE Matches(index, asked, Max(lengths))

\* match_last_user: by_last_user keeps the first place of each user turn.
LastUsers(index, asked) == Matches(index, asked, 1)

\* fallback: script and reply by the halves of the digest.
ByDigest(index, digest) ==
  LET script == index[(digest % Len(index)) + 1]
      reply == ((digest \div High) % Len(script.assistants)) + 1
  IN  [script |-> script.id, reply |-> script.assistants[reply], kind |-> "fallback"]

\* select: the first level that matches; without a user turn none does.
Select(index, request) ==
  LET asked == Asked(request)
      levels == <<[kind |-> "conversation_prefix", matches |-> PrefixMatches(index, asked)],
                  [kind |-> "suffix", matches |-> SuffixMatches(index, asked)],
                  [kind |-> "last_user", matches |-> LastUsers(index, asked)]>>
      found == {l \in DOMAIN levels : levels[l].matches /= {}}
  IN  IF asked = <<>> \/ found = {}
      THEN ByDigest(index, DigestOf(Key(request)))
      ELSE Selection(index, FirstOf(levels[Min(found)].matches), levels[Min(found)].kind)

\* alternative: a reply for a further choice, by a digest of its own.
Alternative(index, plan, choice) == ByDigest(index, Mixed(plan, choice)).reply
=============================================================================
