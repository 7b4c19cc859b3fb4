----------------------------- MODULE SemanticPlan -----------------------------
(***************************************************************************)
(* How a request is answered from schema-v2 documents: the canonical       *)
(* request, the case it selects, the variant of that case, and the checks  *)
(* on the way (src/sim/plan.rs, src/sim/canonical.rs; canonical_request in *)
(* src/responses.rs; the schema checks of src/http/routes.rs).             *)
(***************************************************************************)
EXTENDS SemanticArtifact

CONSTANTS
  Digest(_)  \* the digest of a request's semantic part

Errors == {"NoRequest", "UnsupportedEffort", "UnknownCase", "IncompatibleCase",
           "AmbiguousMatch", "NoMatch", "UnsupportedStructuredOutput",
           "IncompatibleVariant", "UnknownVariant", "MissingEffortVariant",
           "SchemaError", "Panic"}

Matches == {"explicit", "exact", "digest_fallback"}

ASSUME ErrorsAssumption == None \notin Errors \cup Matches

\* A turn matches a document only when its role is one of SemanticRole and its
\* content is a text; content that is empty or in parts is None here.
MatchTurns(request) ==
  IF \A i \in DOMAIN request.turns :
       request.turns[i].role \in SemanticRoles /\ request.turns[i].text /= None
  THEN request.turns
  ELSE None

\* semantic_json: stream and store do not tell two requests apart.
SemanticPart(request) ==
  [m \in DOMAIN request \ {"stream", "store"} |-> request[m]]

\* response_format_name
FormatName(request) ==
  CASE request.format = None -> None
    [] request.format /= None /\ request.format.type = "json_schema" ->
         request.format.name
    [] OTHER -> request.format.type

\* fixture_compatible, fixture_matches, case_matches
FixtureCompatible(doc, request) ==
  /\ request.interface \in Range(doc.interfaces)
  /\ doc.models = <<>> \/ request.model \in Range(doc.models)

FixtureMatches(doc, request) ==
  FixtureCompatible(doc, request) /\ MatchTurns(request) = doc.turns

CaseMatches(case, request) ==
  /\ case.interfaces = <<>> \/ request.interface \in Range(case.interfaces)
  /\ \/ case.efforts = <<>>
     \/ request.effort = None
     \/ request.effort \in Range(case.efforts)
  /\ case.format = None \/ case.format = FormatName(request)

Exact(documents, request) ==
  {s \in Selectors(documents) :
     FixtureMatches(s[1], request) /\ CaseMatches(s[2], request)}

Candidates(documents, request) ==
  {s \in Selectors(documents) :
     FixtureCompatible(s[1], request) /\ CaseMatches(s[2], request)}

\* The place of a case among others in the order of fixture and case ids.
Before(left, right) ==
  \/ left[1].id < right[1].id
  \/ left[1].id = right[1].id /\ left[2].id < right[2].id

Place(selector, selectors) == Cardinality({s \in selectors : Before(s, selector)})

\* pick on the request's digest
Picked(selectors, request) ==
  {s \in selectors : Place(s, selectors)
                       = Digest(SemanticPart(request)) % Cardinality(selectors)}

\* What a case control names: a fixture, and one of its cases or its only one.
Named(documents, wanted) ==
  IF Len(wanted) > 2 THEN {}
  ELSE {s \in Selectors(documents) :
          /\ s[1].id = wanted[1]
          /\ IF Len(wanted) = 2 THEN s[2].id = wanted[2]
                                ELSE Len(s[1].cases) = 1}

\* select_case: the case and how it was found, or an error.  The result is a
\* set so that what it holds need not be shown to exist.
Found(selectors, how) == {[case |-> s, match |-> how, error |-> None] : s \in selectors}
Failed(error) == {[case |-> None, match |-> None, error |-> error]}

SelectCase(documents, request, controls) ==
  IF controls.case /= None
  THEN LET named == Named(documents, controls.case)
       IN  IF named = {} THEN Failed("UnknownCase")
           ELSE IF named \subseteq Candidates(documents, request)
                THEN Found(named, "explicit")
                ELSE Failed("IncompatibleCase")
  ELSE LET exact == Exact(documents, request)
           candidates == Candidates(documents, request)
       IN  CASE Cardinality(exact) = 1 -> Found(exact, "exact")
             [] Cardinality(exact) > 1 -> Failed("AmbiguousMatch")
             [] exact = {} /\ candidates = {} -> Failed("NoMatch")
             [] OTHER -> Found(Picked(candidates, request), "digest_fallback")

-----------------------------------------------------------------------------
\* resolve_variant: the variant of a case and why, or an error.
Resolved(variant, reason) == [variant |-> variant, reason |-> reason, error |-> None]
Unresolved(error) == [variant |-> None, reason |-> None, error |-> error]

ResolveVariant(case, request, controls) ==
  CASE controls.variant /= None ->
         IF /\ request.effort /= None
            /\ controls.variant \in Range(case.efforts)
            /\ controls.variant /= request.effort
         THEN Unresolved("IncompatibleVariant")
         ELSE IF controls.variant \in VariantsOf(case)
              THEN Resolved(controls.variant, "explicit")
              ELSE Unresolved("UnknownVariant")
    [] controls.variant = None /\ request.effort /= None ->
         IF request.effort \in VariantsOf(case)
         THEN Resolved(request.effort, "exact_effort")
         ELSE IF case.fallback /= None
              THEN Resolved(case.fallback, "declared_fallback")
              ELSE Unresolved("MissingEffortVariant")
    [] OTHER -> Resolved(case.default, "default")

\* validate_response_schema and validate_semantic_schema: a request for JSON
\* is answered from a structured output that satisfies it.
IsStructured(outcome) == \E node \in VisibleNode(outcome) : node.type = "structured"

SchemaServed(request, outcome) ==
  request.format /= None =>
    /\ request.format.type = "json_schema" =>
         /\ IsStructured(outcome)
         /\ request.format.schema \in outcome.structured.satisfies
    /\ request.format.type = "json_object" =>
         IsStructured(outcome) /\ outcome.structured.object

Refusal(error, case) ==
  [error |-> error, case |-> case, match |-> None, variant |-> None,
   reason |-> None, output |-> {}, terminal |-> None]

\* compile once the case is selected, and the handlers' schema check after it.
\* A variant the case does not have is one the code expects and panics on.
Planned(request, controls, selected) ==
  LET case == selected.case[2]
      resolved == ResolveVariant(case, request, controls)
      outcome == case.variants[resolved.variant]
  IN  IF selected.case[1].structured /\ ~Catalogue[request.model].structured
      THEN Refusal("UnsupportedStructuredOutput", selected.case)
      ELSE IF resolved.error /= None
      THEN Refusal(resolved.error, selected.case)
      ELSE IF resolved.variant \notin VariantsOf(case)
      THEN Refusal("Panic", selected.case)
      ELSE IF ~SchemaServed(request, outcome)
      THEN Refusal("SchemaError", selected.case)
      ELSE [error |-> None, case |-> selected.case, match |-> selected.match,
            variant |-> resolved.variant, reason |-> resolved.reason,
            output |-> OutputNodes(outcome), terminal |-> case.terminal]

\* The answers to a request: one, whatever the documents.
Answers(documents, request, controls) ==
  IF request.effort /= None /\ request.effort \notin Catalogue[request.model].efforts
  THEN {Refusal("UnsupportedEffort", None)}
  ELSE {IF selected.error /= None THEN Refusal(selected.error, None)
        ELSE Planned(request, controls, selected) :
          selected \in SelectCase(documents, request, controls)}
=============================================================================
