---------------------------- MODULE FixtureLibrary ----------------------------
(***************************************************************************)
(* The life of a schema-v2 corpus: artifacts are built from sets of        *)
(* documents, one after the other, and requests are answered from the one  *)
(* in use (SemanticArtifact and plan in src/sim; the callers of both in    *)
(* src/http/routes.rs and src/bin/fixtures.rs).                            *)
(***************************************************************************)
EXTENDS SemanticPlan

CONSTANTS
  Corpora,   \* the sets of documents authors write
  Requests,  \* canonical requests
  Controls   \* what x_simulate says of case and variant

\* What the documents write as a list is one, and which schemas a structured
\* output satisfies depends on its JSON alone.
IsList(list) == list \in Seq(Range(list))

ASSUME CorporaAssumption ==
  LET documents == UNION Corpora
      cases == UNION {CasesOf(doc) : doc \in documents}
      structured == {o.structured : o \in UNION {OutcomesOf(case) : case \in cases}}
  IN  /\ \A doc \in documents : IsList(doc.models)
      /\ \A case \in cases : IsList(case.interfaces) /\ IsList(case.efforts)
      /\ \A left, right \in structured \ {None} :
           left.json = right.json =>
             left.satisfies = right.satisfies /\ left.object = right.object

\* A request is looked up in the catalogue before it is planned.
ASSUME RequestsAssumption ==
  /\ None \notin Requests
  /\ \A r \in Requests :
       r.model \in Models /\ r.effort \in EffortNames \cup {None}

\* A control names a variant by what may be an id.
ASSUME ControlsAssumption ==
  \A c \in Controls : c.variant \in Ids \cup {None}

VARIABLES
  artifact,  \* the documents of the artifact in use
  asked,     \* the request being answered, with its controls
  answer     \* what it was answered with

vars == <<artifact, asked, answer>>

Nothing == [request |-> None, controls |-> None]

Init ==
  /\ artifact = {}
  /\ asked = Nothing
  /\ answer = Refusal("NoRequest", None)

\* SemanticArtifact::compile of another set of documents, put to use.
Build(documents) ==
  /\ asked = Nothing
  /\ Compiles(documents)
  /\ artifact' = documents
  /\ UNCHANGED <<asked, answer>>

\* A request is planned with the artifact's documents; the one artifact serves
\* it from first to last.
Ask(request, controls) ==
  /\ asked = Nothing
  /\ asked' = [request |-> request, controls |-> controls]
  /\ \E given \in Answers(artifact, request, controls) : answer' = given
  /\ UNCHANGED artifact

Reply ==
  /\ asked /= Nothing
  /\ asked' = Nothing
  /\ answer' = Refusal("NoRequest", None)
  /\ UNCHANGED artifact

Next ==
  \/ \E documents \in Corpora : Build(documents)
  \/ \E request \in Requests, controls \in Controls : Ask(request, controls)
  \/ Reply

Spec == Init /\ [][Next]_vars

-----------------------------------------------------------------------------
\* The artifact in use is one that compiled, and its answers come from it.
TypeOK ==
  /\ artifact \in Corpora \cup {{}}
  /\ Compiles(artifact)
  /\ answer.error = None => answer.case \in Selectors(artifact)

\* No two cases of an artifact answer the same request, save one that names no
\* reasoning effort: the compiler lets two cases share their turns when their
\* effort constraints are disjoint, and such a request meets both.
AmbiguityOnlyWithoutEffort ==
  answer.error = "AmbiguousMatch" => asked.request.effort = None

\* A variant authored to violate its schema is answered with only when a
\* variant control names it, whatever case, effort or digest chose.
NegativesAreAskedFor ==
  answer.error = None /\ IsNegative(answer.case[2].variants[answer.variant]) =>
    answer.variant = asked.controls.variant

\* The planner's two "lint guarantees" hold: it never panics, and a case that
\* lists efforts has a variant for each one it is asked with.
LintGuaranteesHold ==
  /\ answer.error /= "Panic"
  /\ answer.error = "MissingEffortVariant" => answer.case[2].efforts = <<>>

\* What a request was given, told apart as a client does.
Given(documents, request, controls) ==
  {[error |-> a.error, output |-> a.output, match |-> a.match, reason |-> a.reason,
    case |-> IF a.error /= None THEN None ELSE <<a.case[1].id, a.case[2].id>>,
    variant |-> a.variant] : a \in Answers(documents, request, controls)}

\* Controls that name a fixture alone do not pin its one case: the fixture may
\* get another.
Pinned(given, controls) ==
  \/ given.match = "explicit" /\ given.reason = "explicit" /\ Len(controls.case) = 2
  \/ given.match = "exact" /\ given.reason = "exact_effort"

\* When the report calls two artifacts compatible, a request pinned to a case
\* and a variant, by its controls or by its turns and effort, gets the same
\* output from both.
CompatibleKeepsPinned ==
  [][Compatible(artifact, artifact') =>
       \A request \in Requests, controls \in Controls :
         \A given \in Given(artifact, request, controls) :
           Pinned(given, controls) /\ Catalogue[request.model].structured =>
             given \in Given(artifact', request, controls)]_vars

=============================================================================
