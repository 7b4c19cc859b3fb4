------------------------- MODULE FixtureLibraryProofs -------------------------
(***************************************************************************)
(* Theorems about schema-v2 corpora, for any documents, catalogue and      *)
(* requests: what the lint and the compiler refuse is enough for the       *)
(* planner never to be caught out by what they let through.                *)
(***************************************************************************)
EXTENDS FixtureLibrary, FiniteSetTheorems, SequenceTheorems, TLAPS

\* A case that was selected is one of the artifact's and compatible with the
\* request, and failing to select one is never what ends in a success.
LEMMA SelectedIsCandidate ==
  ASSUME NEW documents, NEW request, NEW controls,
         NEW selected \in SelectCase(documents, request, controls),
         selected.error = None
  PROVE  selected.case \in Candidates(documents, request)
<1>1. Exact(documents, request) \subseteq Candidates(documents, request)
  BY DEF Exact, Candidates, FixtureMatches
<1>2. \A s \in Picked(Candidates(documents, request), request) :
        s \in Candidates(documents, request)
  BY DEF Picked
<1>3. \A error \in Errors : \A f \in Failed(error) : f.error /= None
  BY ErrorsAssumption DEF Failed
<1>4. \A S, how : \A f \in Found(S, how) : f.case \in S
  BY DEF Found
<1> QED
  BY <1>1, <1>2, <1>3, <1>4 DEF SelectCase, Errors

\* Two cases that compile together never both match a request that names an
\* effort.
LEMMA NamedEffortTellsApart ==
  ASSUME NEW documents, NEW request, Unambiguous(documents),
         request.effort /= None,
         NEW left \in Exact(documents, request),
         NEW right \in Exact(documents, request)
  PROVE  left = right
<1>1. left \in Selectors(documents) /\ right \in Selectors(documents)
  BY DEF Exact
<1>2. left[1].turns = right[1].turns
  BY DEF Exact, FixtureMatches
<1>3. EffectiveInterfaces(left[1], left[2])
        \cap EffectiveInterfaces(right[1], right[2]) /= {}
  <2>1. \A s \in {left, right} : request.interface \in EffectiveInterfaces(s[1], s[2])
    BY DEF Exact, FixtureMatches, FixtureCompatible, CaseMatches, EffectiveInterfaces
  <2> QED BY <2>1
<1>4. WildcardOverlaps(left[1].models, right[1].models)
  BY DEF Exact, FixtureMatches, FixtureCompatible, WildcardOverlaps
<1>5. WildcardOverlaps(left[2].efforts, right[2].efforts)
  BY DEF Exact, CaseMatches, WildcardOverlaps
<1>6. \/ left[2].format = None
      \/ right[2].format = None
      \/ left[2].format = right[2].format
  BY DEF Exact, CaseMatches
<1>7. CasesOverlap(left, right)
  BY <1>2, <1>3, <1>4, <1>5, <1>6 DEF CasesOverlap
<1> QED BY <1>1, <1>7 DEF Unambiguous

\* With them, selecting is ambiguous only for a request without an effort.
LEMMA AmbiguousIsEffortless ==
  ASSUME NEW documents, NEW request, NEW controls, Unambiguous(documents),
         NEW selected \in SelectCase(documents, request, controls),
         selected.error = "AmbiguousMatch"
  PROVE  request.effort = None
<1> SUFFICES ASSUME request.effort /= None PROVE FALSE
  OBVIOUS
<1> DEFINE exact == Exact(documents, request)
<1>1. exact = {} \/ \E s \in exact : exact = {s}
  BY NamedEffortTellsApart
<1>2. Cardinality(exact) = 0 \/ Cardinality(exact) = 1
  BY <1>1, FS_EmptySet, FS_Singleton
<1>3. \A S, how : \A f \in Found(S, how) : f.error /= "AmbiguousMatch"
  BY ErrorsAssumption DEF Found, Errors
<1> HIDE DEF exact
<1> QED
  BY <1>2, <1>3 DEF SelectCase, Failed, exact

-----------------------------------------------------------------------------
\* What the lint leaves of a case of a compiled artifact.
LEMMA CompiledCaseLints ==
  ASSUME NEW documents, Compiles(documents), NEW s \in Selectors(documents)
  PROVE  /\ VariantReferences(s[2])
         /\ \A v \in VariantsOf(s[2]) : VariantLints(v, s[2].variants[v])
         /\ None \notin VariantsOf(s[2])
<1>1. PICK doc \in documents : \E case \in CasesOf(doc) : s = <<doc, case>>
  BY DEF Selectors
<1>2. PICK case \in CasesOf(doc) : s = <<doc, case>>
  BY <1>1
<1>3. CaseLints(doc, case)
  BY <1>1, <1>2 DEF Compiles, DirectoryLoads, Lints
<1> QED BY <1>2, <1>3, FixtureIdsAssumption DEF CaseLints, CanonicalId

\* The variant a linted case resolves to is one it has, and a negative one
\* only when the controls name it.
LEMMA ResolvedIsAuthored ==
  ASSUME NEW case, NEW request, NEW controls,
         VariantReferences(case),
         \A v \in VariantsOf(case) : VariantLints(v, case.variants[v]),
         None \notin VariantsOf(case),
         request.effort \in EffortNames \cup {None},
         ResolveVariant(case, request, controls).error = None
  PROVE  LET variant == ResolveVariant(case, request, controls).variant
         IN  /\ variant \in VariantsOf(case)
             /\ IsNegative(case.variants[variant]) => variant = controls.variant
<1>1. \A error \in Errors : Unresolved(error).error /= None
  BY ErrorsAssumption DEF Unresolved
<1>2. \A v, reason : Resolved(v, reason).variant = v
  BY DEF Resolved
<1>3. CASE controls.variant /= None
  BY <1>1, <1>2, <1>3 DEF ResolveVariant, Errors
<1>4. CASE controls.variant = None /\ request.effort /= None
             /\ request.effort \in VariantsOf(case)
  <2>1. ResolveVariant(case, request, controls).variant = request.effort
    BY <1>2, <1>4 DEF ResolveVariant
  <2>2. request.effort \notin NegativeIds
    BY <1>4, EffortNamesAssumption
  <2>3. ~IsNegative(case.variants[request.effort])
    BY <1>4, <2>2 DEF VariantLints, IsNegative
  <2> QED BY <1>4, <2>1, <2>3
<1>5. CASE controls.variant = None /\ request.effort /= None
             /\ request.effort \notin VariantsOf(case)
  <2>1. /\ case.fallback /= None
        /\ ResolveVariant(case, request, controls).variant = case.fallback
    BY <1>1, <1>2, <1>5 DEF ResolveVariant, Errors
  <2> QED BY <2>1 DEF VariantReferences
<1>6. CASE controls.variant = None /\ request.effort = None
  <2>1. ResolveVariant(case, request, controls).variant = case.default
    BY <1>2, <1>6 DEF ResolveVariant
  <2>2. case.default /= None /\ ~IsNegative(case.variants[case.default])
    BY DEF VariantReferences
  <2> QED BY <2>1, <2>2 DEF VariantReferences
<1> QED BY <1>3, <1>4, <1>5, <1>6

\* A case that matches a request and has no variant for it lists no efforts.
LEMMA MissingVariantIsUnlisted ==
  ASSUME NEW case, NEW request, NEW controls,
         VariantReferences(case), CaseMatches(case, request),
         ResolveVariant(case, request, controls).error = "MissingEffortVariant"
  PROVE  case.efforts = <<>>
<1>1. \A v, reason : Resolved(v, reason).error /= "MissingEffortVariant"
  BY ErrorsAssumption DEF Resolved, Errors
<1>2. \A error : Unresolved(error).error = error
  BY DEF Unresolved
<1>3. CASE controls.variant /= None
  BY <1>1, <1>2, <1>3 DEF ResolveVariant
<1>4. CASE controls.variant = None
  <2>1. /\ request.effort /= None
        /\ request.effort \notin VariantsOf(case)
        /\ case.fallback = None
    BY <1>1, <1>4 DEF ResolveVariant
  <2> QED BY <2>1 DEF VariantReferences, CaseMatches
<1> QED BY <1>3, <1>4

-----------------------------------------------------------------------------
\* What each answer owes to the artifact, the request and the controls.
Owed(given, request, controls) ==
  /\ given.error = None =>
       /\ given.case \in Selectors(artifact)
       /\ IsNegative(given.case[2].variants[given.variant]) =>
            given.variant = controls.variant
  /\ given.error = "AmbiguousMatch" => request.effort = None
  /\ given.error /= "Panic"
  /\ given.error = "MissingEffortVariant" => given.case[2].efforts = <<>>

LEMMA RefusalsAreOwed ==
  ASSUME NEW error, NEW case, NEW request, NEW controls,
         error \in Errors \ {"AmbiguousMatch", "Panic", "MissingEffortVariant"}
  PROVE  Owed(Refusal(error, case), request, controls)
BY ErrorsAssumption DEF Owed, Refusal, Errors

LEMMA PlannedIsOwed ==
  ASSUME NEW request \in Requests, NEW controls \in Controls, Compiles(artifact),
         NEW selected \in SelectCase(artifact, request, controls),
         selected.error = None
  PROVE  Owed(Planned(request, controls, selected), request, controls)
<1> DEFINE case == selected.case[2]
           resolved == ResolveVariant(case, request, controls)
           given == Planned(request, controls, selected)
<1>1. /\ selected.case \in Selectors(artifact)
      /\ CaseMatches(case, request)
  BY SelectedIsCandidate DEF Candidates
<1>2. /\ VariantReferences(case)
      /\ \A v \in VariantsOf(case) : VariantLints(v, case.variants[v])
      /\ None \notin VariantsOf(case)
  BY <1>1, CompiledCaseLints
<1>3. request.effort \in EffortNames \cup {None}
  BY RequestsAssumption
<1>4. resolved.error \in
        {None, "IncompatibleVariant", "UnknownVariant", "MissingEffortVariant"}
  <2>1. \A v, reason : Resolved(v, reason).error = None
    BY DEF Resolved
  <2>2. \A error : Unresolved(error).error = error
    BY DEF Unresolved
  <2> QED BY <2>1, <2>2 DEF ResolveVariant
<1>5. CASE resolved.error /= None
  <2>1. resolved.error = "MissingEffortVariant" => case.efforts = <<>>
    BY <1>1, <1>2, MissingVariantIsUnlisted
  <2>2. \/ given = Refusal("UnsupportedStructuredOutput", selected.case)
        \/ given = Refusal(resolved.error, selected.case)
    BY <1>5 DEF Planned
  <2>3. Owed(Refusal(resolved.error, selected.case), request, controls)
    BY <1>4, <1>5, <2>1, ErrorsAssumption DEF Owed, Refusal, Errors
  <2> QED BY <2>2, <2>3, RefusalsAreOwed DEF Errors
<1>6. CASE resolved.error = None
  <2>1. /\ resolved.variant \in VariantsOf(case)
        /\ IsNegative(case.variants[resolved.variant]) =>
             resolved.variant = controls.variant
    BY <1>2, <1>3, <1>6, ResolvedIsAuthored
  <2> DEFINE success ==
        [error |-> None, case |-> selected.case, match |-> selected.match,
         variant |-> resolved.variant, reason |-> resolved.reason,
         output |-> OutputNodes(case.variants[resolved.variant]),
         terminal |-> case.terminal]
  <2>2. \/ given = Refusal("UnsupportedStructuredOutput", selected.case)
        \/ given = Refusal("SchemaError", selected.case)
        \/ given = success
    BY <1>6, <2>1 DEF Planned
  <2>3. Owed(success, request, controls)
    BY <1>1, <2>1, ErrorsAssumption DEF Owed, Errors
  <2> QED BY <2>2, <2>3, RefusalsAreOwed DEF Errors
<1> QED BY <1>5, <1>6

\* Every answer of a compiled artifact is owed.
LEMMA AnswersAreOwed ==
  ASSUME NEW request \in Requests, NEW controls \in Controls, Compiles(artifact),
         NEW given \in Answers(artifact, request, controls)
  PROVE  Owed(given, request, controls)
<1>1. CASE given = Refusal("UnsupportedEffort", None)
  BY <1>1, RefusalsAreOwed DEF Errors
<1>2. ASSUME NEW selected \in SelectCase(artifact, request, controls),
             given = IF selected.error /= None THEN Refusal(selected.error, None)
                     ELSE Planned(request, controls, selected)
      PROVE  Owed(given, request, controls)
  <2>1. CASE selected.error = None
    BY <1>2, <2>1, PlannedIsOwed
  <2>2. CASE selected.error /= None
    <3>1. \A S, how : \A f \in Found(S, how) : f.error = None
      BY DEF Found
    <3>2. selected.error \in {"UnknownCase", "IncompatibleCase", "AmbiguousMatch", "NoMatch"}
      BY <2>2, <3>1 DEF SelectCase, Failed
    <3>3. selected.error = "AmbiguousMatch" => request.effort = None
      BY AmbiguousIsEffortless DEF Compiles
    <3> QED
      BY <1>2, <2>2, <3>2, <3>3, ErrorsAssumption DEF Owed, Refusal, Errors
  <2> QED BY <2>1, <2>2
<1> QED BY <1>1, <1>2 DEF Answers

-----------------------------------------------------------------------------
\* The inductive invariant: the artifact compiled, and what is being answered
\* is owed to it.
Inv ==
  /\ artifact \in Corpora \cup {{}}
  /\ Compiles(artifact)
  /\ asked = Nothing => answer = Refusal("NoRequest", None)
  /\ Owed(answer, asked.request, asked.controls)

LEMMA NoDocumentsCompile == Compiles({})
BY DEF Compiles, DirectoryLoads, Unambiguous, Selectors

LEMMA InvHolds == Spec => []Inv
<1>1. Owed(Refusal("NoRequest", None), Nothing.request, Nothing.controls)
  BY RefusalsAreOwed DEF Errors
<1>2. Init => Inv
  BY <1>1, NoDocumentsCompile DEF Init, Inv
<1>3. Inv /\ [Next]_vars => Inv'
  <2> SUFFICES ASSUME Inv, [Next]_vars PROVE Inv'
    OBVIOUS
  <2>1. ASSUME NEW documents \in Corpora, Build(documents) PROVE Inv'
    <3>1. Owed(answer, asked.request, asked.controls)'
      BY <2>1, <1>1, ErrorsAssumption DEF Build, Inv, Owed, Refusal, Errors
    <3> QED BY <2>1, <3>1 DEF Build, Inv
  <2>2. ASSUME NEW request \in Requests, NEW controls \in Controls,
               Ask(request, controls)
        PROVE  Inv'
    <3>1. /\ asked'.request = request
          /\ asked'.controls = controls
          /\ artifact' = artifact
      BY <2>2 DEF Ask
    <3>2. Owed(answer', request, controls)
      BY <2>2, AnswersAreOwed DEF Ask, Inv
    <3>3. Owed(answer, asked.request, asked.controls)'
      BY <3>1, <3>2 DEF Owed
    <3>4. asked' /= Nothing
      BY <2>2, RequestsAssumption DEF Ask, Nothing
    <3> QED BY <3>1, <3>3, <3>4 DEF Inv
  <2>3. CASE Reply
    BY <2>3, <1>1 DEF Reply, Inv, Owed
  <2>4. CASE UNCHANGED vars
    BY <2>4 DEF vars, Inv, Owed
  <2> QED BY <2>1, <2>2, <2>3, <2>4 DEF Next
<1> QED BY <1>2, <1>3, PTL DEF Spec

\* The artifact in use always compiled, and what is answered is one of its
\* cases (SemanticArtifact::compile, plan::compile).
THEOREM TypeCorrect == Spec => []TypeOK
<1>1. Inv => TypeOK
  BY DEF Inv, TypeOK, Owed
<1> QED BY <1>1, InvHolds, PTL

\* reject_ambiguity leaves one ambiguity: a request that names no effort.
THEOREM AmbiguityIsEffortless == Spec => []AmbiguityOnlyWithoutEffort
<1>1. Inv => AmbiguityOnlyWithoutEffort
  BY DEF Inv, AmbiguityOnlyWithoutEffort, Owed
<1> QED BY <1>1, InvHolds, PTL

\* lint keeps negative outputs out of every answer that did not ask for one.
THEOREM NegativesAreNamed == Spec => []NegativesAreAskedFor
<1>1. Inv => NegativesAreAskedFor
  BY DEF Inv, NegativesAreAskedFor, Owed
<1> QED BY <1>1, InvHolds, PTL

\* The two expects of resolve_variant never fail, and a listed effort always
\* resolves.
THEOREM LintIsEnough == Spec => []LintGuaranteesHold
<1>1. Inv => LintGuaranteesHold
  BY DEF Inv, LintGuaranteesHold, Owed
<1> QED BY <1>1, InvHolds, PTL
-----------------------------------------------------------------------------
(* What the report promises of two artifacts it calls compatible: a case   *)
(* that authored a variant has a counterpart in the other artifact, which  *)
(* answers to the same turns, models, interfaces, efforts and format.      *)

\* A document of an artifact, and what is assumed of its lists.
LEMMA SelectorsAreCases ==
  ASSUME NEW documents \in Corpora \cup {{}}, NEW s \in Selectors(documents)
  PROVE  /\ s[1] \in documents /\ s[2] \in CasesOf(s[1]) /\ s = <<s[1], s[2]>>
         /\ IsList(s[1].models) /\ IsList(s[2].interfaces) /\ IsList(s[2].efforts)
<1>1. PICK doc \in documents : \E case \in CasesOf(doc) : s = <<doc, case>>
  BY DEF Selectors
<1>2. PICK case \in CasesOf(doc) : s = <<doc, case>>
  BY <1>1
<1>3. doc \in UNION Corpora
  BY <1>1
<1>4. case \in UNION {CasesOf(d) : d \in UNION Corpora}
  BY <1>2, <1>3
<1>5. IsList(doc.models) /\ IsList(case.interfaces) /\ IsList(case.efforts)
  BY <1>3, <1>4, CorporaAssumption
<1> QED BY <1>1, <1>2, <1>5

\* Only the empty list lists nothing.
LEMMA EmptyLists ==
  ASSUME NEW list, IsList(list)
  PROVE  list = <<>> <=> Range(list) = {}
<1>1. list \in Seq(Range(list)) /\ Range(list) = {list[i] : i \in DOMAIN list}
  BY DEF IsList, Range
<1>2. ASSUME Range(list) = {} PROVE list = <<>>
  <2>1. DOMAIN list = {}
    BY <1>1, <1>2
  <2>2. DOMAIN list = 1 .. Len(list) /\ Len(list) \in Nat
    BY <1>1
  <2>3. Len(list) = 0
    BY <2>1, <2>2
  <2> QED BY <1>1, <2>3, EmptySeq
<1>3. ASSUME list = <<>> PROVE Range(list) = {}
  <2>1. DOMAIN list = {}
    BY <1>3
  <2> QED BY <1>1, <2>1
<1> QED BY <1>2, <1>3

\* Two cases with the same ids, and the same key and signature in the report.
SameIds(s, t) == t[1].id = s[1].id /\ t[2].id = s[2].id
Alike(s, t) == SameIds(s, t) /\ Assignment(t[1], t[2]) = Assignment(s[1], s[2])

\* Ids tell the cases of a compiled artifact apart.
LEMMA IdsTellApart ==
  ASSUME NEW documents, Compiles(documents), NEW s \in Selectors(documents),
         NEW t \in Selectors(documents), SameIds(s, t)
  PROVE  s = t
<1>1. PICK doc \in documents : \E case \in CasesOf(doc) : s = <<doc, case>>
  BY DEF Selectors
<1>2. PICK case \in CasesOf(doc) : s = <<doc, case>>
  BY <1>1
<1>3. PICK other \in documents : \E rival \in CasesOf(other) : t = <<other, rival>>
  BY DEF Selectors
<1>4. PICK rival \in CasesOf(other) : t = <<other, rival>>
  BY <1>3
<1>5. other = doc
  BY <1>2, <1>4 DEF SameIds, Compiles, DirectoryLoads
<1>6. PICK i \in DOMAIN doc.cases : case = doc.cases[i]
  BY DEF CasesOf
<1>7. PICK j \in DOMAIN doc.cases : rival = doc.cases[j]
  BY <1>5 DEF CasesOf
<1>8. Lints(doc)
  BY DEF Compiles, DirectoryLoads
<1>9. doc.cases[i].id = doc.cases[j].id
  BY <1>2, <1>4, <1>6, <1>7 DEF SameIds
<1>10. i = j
  BY <1>8, <1>9 DEF Lints
<1> QED BY <1>2, <1>4, <1>5, <1>6, <1>7, <1>10

\* The counterpart of a case that authored a variant.
LEMMA CounterpartExists ==
  ASSUME NEW baseline, NEW candidate, Compatible(baseline, candidate),
         NEW s \in Selectors(baseline), NEW v \in Ids, v \in VariantsOf(s[2])
  PROVE  \E t \in Selectors(candidate) :
           /\ Alike(s, t)
           /\ v \in VariantsOf(t[2])
           /\ OutputNodes(t[2].variants[v]) = OutputNodes(s[2].variants[v])
<1> DEFINE key == <<s[1].id, s[2].id, v>>
           b == <<key, OutputNodes(s[2].variants[v])>>
<1>1. b \in VariantBytes(baseline)
  <2> DEFINE entry == <<s[1].id, s[2].id, s[2].variants, v>>
             entries == {<<r[1].id, r[2].id, r[2].variants, u>> :
                           r \in Selectors(baseline), u \in Ids}
             authored == {e \in entries : e[4] \in DOMAIN e[3]}
  <2>1. entry \in entries
    OBVIOUS
  <2>2. entry \in authored
    BY <2>1 DEF VariantsOf
  <2>3. b = <<<<entry[1], entry[2], entry[4]>>, OutputNodes(entry[3][entry[4]])>>
    OBVIOUS
  <2>4. VariantBytes(baseline) =
          {<<<<e[1], e[2], e[4]>>, OutputNodes(e[3][e[4]])>> : e \in authored}
    BY DEF VariantBytes
  <2> HIDE DEF entry, authored, b
  <2> QED BY <2>2, <2>3, <2>4
<1>2. PICK c \in VariantBytes(candidate) : c[1] = key
  <2>1. key \in Keys(VariantBytes(baseline))
    BY <1>1 DEF Keys
  <2>2. key \in Keys(VariantBytes(candidate))
    BY <2>1 DEF Compatible, Removed
  <2> QED BY <2>2 DEF Keys
<1>3. c = b
  BY <1>1, <1>2 DEF Compatible, Changed
<1>4. PICK t \in Selectors(candidate), u \in Ids :
        /\ u \in DOMAIN t[2].variants
        /\ c = <<<<t[1].id, t[2].id, u>>, OutputNodes(t[2].variants[u])>>
  BY DEF VariantBytes
<1>5. /\ SameIds(s, t) /\ u = v
      /\ OutputNodes(t[2].variants[v]) = OutputNodes(s[2].variants[v])
  BY <1>3, <1>4 DEF SameIds
<1> DEFINE a == <<<<s[1].id, s[2].id>>, Assignment(s[1], s[2])>>
           d == <<<<t[1].id, t[2].id>>, Assignment(t[1], t[2])>>
<1>6. a \in Assignments(baseline) /\ d \in Assignments(candidate)
  BY DEF Assignments
<1>7. d[1] = a[1]
  BY <1>5 DEF SameIds
<1>8. d = a
  BY <1>6, <1>7 DEF Compatible, Changed
<1>9. Assignment(t[1], t[2]) = Assignment(s[1], s[2])
  BY <1>8
<1> QED BY <1>4, <1>5, <1>9 DEF Alike, VariantsOf

\* The counterpart is compatible with the same requests, and matches the same.
LEMMA AlikeMatch ==
  ASSUME NEW baseline \in Corpora \cup {{}}, NEW candidate \in Corpora \cup {{}},
         Compiles(candidate), NEW request,
         NEW s \in Selectors(baseline), NEW t \in Selectors(candidate), Alike(s, t)
  PROVE  /\ s \in Candidates(baseline, request) => t \in Candidates(candidate, request)
         /\ s \in Exact(baseline, request) => t \in Exact(candidate, request)
<1> DEFINE known == Assignment(s[1], s[2])
           found == Assignment(t[1], t[2])
<1>1. /\ t[1].turns = s[1].turns
      /\ Range(t[1].models) = Range(s[1].models)
      /\ EffectiveInterfaces(t[1], t[2]) = EffectiveInterfaces(s[1], s[2])
      /\ Range(t[2].efforts) = Range(s[2].efforts)
      /\ t[2].format = s[2].format
  <2>1. found = known
    BY DEF Alike
  <2>2. /\ found.turns = known.turns
        /\ found.models = known.models
        /\ found.interfaces = known.interfaces
        /\ found.efforts = known.efforts
        /\ found.format = known.format
    BY <2>1
  <2> QED BY <2>2 DEF Assignment
<1>2. /\ s[1].models = <<>> => t[1].models = <<>>
      /\ s[2].efforts = <<>> => t[2].efforts = <<>>
  BY <1>1, SelectorsAreCases, EmptyLists
<1>3. Range(t[2].interfaces) \subseteq Range(t[1].interfaces)
  BY SelectorsAreCases DEF Compiles, DirectoryLoads, Lints, CaseLints
<1>4. ASSUME FixtureCompatible(s[1], request), CaseMatches(s[2], request)
      PROVE  FixtureCompatible(t[1], request) /\ CaseMatches(t[2], request)
  <2>1. request.interface \in EffectiveInterfaces(s[1], s[2])
    BY <1>4 DEF FixtureCompatible, CaseMatches, EffectiveInterfaces
  <2>2. request.interface \in EffectiveInterfaces(t[1], t[2])
    BY <1>1, <2>1
  <2>3. /\ request.interface \in Range(t[1].interfaces)
        /\ t[2].interfaces = <<>> \/ request.interface \in Range(t[2].interfaces)
    BY <1>3, <2>2 DEF EffectiveInterfaces
  <2>4. FixtureCompatible(t[1], request)
    BY <1>1, <1>2, <1>4, <2>3 DEF FixtureCompatible
  <2>5. CaseMatches(t[2], request)
    BY <1>1, <1>2, <1>4, <2>3 DEF CaseMatches
  <2> QED BY <2>4, <2>5
<1>5. s \in Candidates(baseline, request) => t \in Candidates(candidate, request)
  BY <1>4 DEF Candidates
<1>6. s \in Exact(baseline, request) => t \in Exact(candidate, request)
  BY <1>1, <1>4 DEF Exact, FixtureMatches
<1> QED BY <1>5, <1>6

\* Outcomes with the same output serve the same schemas.
LEMMA SameOutputServes ==
  ASSUME NEW baseline \in Corpora \cup {{}}, NEW candidate \in Corpora \cup {{}},
         NEW s \in Selectors(baseline), NEW t \in Selectors(candidate),
         NEW v \in VariantsOf(s[2]), v \in VariantsOf(t[2]),
         OutputNodes(t[2].variants[v]) = OutputNodes(s[2].variants[v]),
         NEW request, SchemaServed(request, s[2].variants[v])
  PROVE  SchemaServed(request, t[2].variants[v])
<1> DEFINE o == s[2].variants[v]
           p == t[2].variants[v]
<1>1. \A q : VisibleNode(q) = {n \in OutputNodes(q) : n.type # "reasoning"}
  <2> SUFFICES ASSUME NEW q
               PROVE  VisibleNode(q) = {n \in OutputNodes(q) : n.type # "reasoning"}
    OBVIOUS
  <2>1. \A n \in ReasoningNode(q) : n.type = "reasoning"
    BY DEF ReasoningNode
  <2>2. \A n \in VisibleNode(q) : n.type # "reasoning"
    BY DEF VisibleNode
  <2> QED BY <2>1, <2>2 DEF OutputNodes
<1>2. VisibleNode(p) = VisibleNode(o)
  BY <1>1
<1>3. IsStructured(p) <=> IsStructured(o)
  BY <1>2 DEF IsStructured
<1>4. \A q : IsStructured(q) =>
               /\ q.structured # None
               /\ VisibleNode(q) = {[type |-> "structured", text |-> q.structured.json]}
  BY DEF IsStructured, VisibleNode
<1>5. ASSUME IsStructured(o)
      PROVE  /\ p.structured.satisfies = o.structured.satisfies
             /\ p.structured.object = o.structured.object
  <2>1. o.structured # None /\ p.structured # None
    BY <1>3, <1>4, <1>5
  <2>2. [type |-> "structured", text |-> p.structured.json]
          = [type |-> "structured", text |-> o.structured.json]
    BY <1>2, <1>3, <1>4, <1>5
  <2>3. p.structured.json = o.structured.json
    <3>1. [type |-> "structured", text |-> p.structured.json].text
            = [type |-> "structured", text |-> o.structured.json].text
      BY <2>2
    <3> QED BY <3>1
  <2> DEFINE cases == UNION {CasesOf(doc) : doc \in UNION Corpora}
             outcomes == UNION {OutcomesOf(case) : case \in cases}
  <2>4. s[2] \in cases /\ t[2] \in cases
    BY SelectorsAreCases
  <2>5. o \in OutcomesOf(s[2]) /\ p \in OutcomesOf(t[2])
    BY DEF OutcomesOf
  <2>6. o \in outcomes /\ p \in outcomes
    BY <2>4, <2>5
  <2>7. o.structured \in {q.structured : q \in outcomes}
    BY <2>6
  <2>8. p.structured \in {q.structured : q \in outcomes}
    BY <2>6
  <2>9. \A left, right \in {q.structured : q \in outcomes} \ {None} :
          left.json = right.json =>
            left.satisfies = right.satisfies /\ left.object = right.object
    BY CorporaAssumption
  <2> HIDE DEF outcomes, o, p
  <2> QED BY <2>1, <2>3, <2>7, <2>8, <2>9
<1> HIDE DEF o, p
<1>6. SchemaServed(request, o)
  BY DEF o
<1>7. SchemaServed(request, p)
  BY <1>3, <1>5, <1>6 DEF SchemaServed
<1> QED BY <1>7 DEF p

-----------------------------------------------------------------------------
\* A request pinned to a case, and so what selecting it gives in either
\* artifact.
LEMMA PinnedIsSelected ==
  ASSUME NEW baseline \in Corpora \cup {{}}, NEW candidate \in Corpora \cup {{}},
         Compiles(candidate), NEW request, NEW controls,
         NEW selected \in SelectCase(baseline, request, controls),
         selected.error = None,
         NEW t \in Selectors(candidate), Alike(selected.case, t),
         \/ selected.match = "explicit" /\ Len(controls.case) = 2
         \/ selected.match = "exact" /\ request.effort # None
  PROVE  [case |-> t, match |-> selected.match, error |-> None]
           \in SelectCase(candidate, request, controls)
<1> DEFINE s == selected.case
<1>1. /\ \A S, how : \A f \in Found(S, how) : f.case \in S /\ f.match = how
      /\ \A S, how : \A x \in S : [case |-> x, match |-> how, error |-> None] \in Found(S, how)
  BY DEF Found
<1>2. \A error \in Errors : \A f \in Failed(error) : f.error # None
  BY ErrorsAssumption DEF Failed
<1>3. s \in Candidates(baseline, request) /\ s \in Selectors(baseline)
  BY SelectedIsCandidate DEF Candidates
<1>4. /\ s \in Candidates(baseline, request) => t \in Candidates(candidate, request)
      /\ s \in Exact(baseline, request) => t \in Exact(candidate, request)
  BY <1>3, AlikeMatch
<1>5. CASE controls.case # None
  <2>1. /\ selected \in Found(Named(baseline, controls.case), "explicit")
    BY <1>2, <1>5 DEF SelectCase, Errors
  <2>2. s \in Named(baseline, controls.case) /\ selected.match = "explicit"
    BY <1>1, <2>1
  <2>3. Len(controls.case) = 2
    BY <2>2
  <2>4. s[1].id = controls.case[1] /\ s[2].id = controls.case[2]
    BY <2>2, <2>3 DEF Named
  <2>5. t \in Named(candidate, controls.case)
    BY <2>3, <2>4 DEF Named, Alike, SameIds
  <2>6. \A u \in Named(candidate, controls.case) : u = t
    <3> SUFFICES ASSUME NEW u \in Named(candidate, controls.case) PROVE u = t
      OBVIOUS
    <3>1. u \in Selectors(candidate) /\ SameIds(t, u)
      BY <2>3, <2>5 DEF Named, SameIds
    <3> QED BY <3>1, IdsTellApart
  <2>7. /\ Named(candidate, controls.case) # {}
        /\ Named(candidate, controls.case) \subseteq Candidates(candidate, request)
    BY <1>3, <1>4, <2>5, <2>6
  <2>8. SelectCase(candidate, request, controls)
          = Found(Named(candidate, controls.case), "explicit")
    BY <1>5, <2>7 DEF SelectCase
  <2> QED BY <1>1, <2>2, <2>5, <2>8
<1>6. CASE controls.case = None
  <2> DEFINE exact == Exact(baseline, request)
             others == Candidates(baseline, request)
             rivals == Exact(candidate, request)
  <2>1. \/ selected \in Found(exact, "exact")
        \/ selected \in Found(Picked(others, request), "digest_fallback")
    BY <1>2, <1>6 DEF SelectCase, Errors
  <2>2. selected \in Found(exact, "exact") /\ selected.match = "exact"
    BY <1>1, <2>1
  <2>3. s \in exact /\ request.effort # None
    BY <1>1, <2>2
  <2>4. t \in rivals
    BY <1>4, <2>3
  <2>5. \A u \in rivals : u = t
    BY <2>3, <2>4, NamedEffortTellsApart DEF Compiles
  <2>6. rivals = {t}
    BY <2>4, <2>5
  <2>7. Cardinality(rivals) = 1
    BY <2>6, FS_Singleton
  <2> HIDE DEF rivals
  <2>8. /\ Cardinality(rivals) = 1
        /\ ~(Cardinality(rivals) > 1)
        /\ rivals # {}
    BY <2>4, <2>7
  <2>9. SelectCase(candidate, request, controls) = Found(rivals, "exact")
    BY <1>6, <2>8 DEF SelectCase, rivals
  <2> QED BY <1>1, <2>2, <2>4, <2>9
<1> QED BY <1>5, <1>6

\* The variant a pinned request resolved to is resolved to in any case that
\* lists the same efforts and authors it.
LEMMA PinnedIsResolved ==
  ASSUME NEW case, NEW rival, NEW request, NEW controls,
         Range(rival.efforts) = Range(case.efforts),
         NEW resolved, resolved = ResolveVariant(case, request, controls),
         resolved.error = None,
         resolved.reason \in {"explicit", "exact_effort"},
         resolved.variant \in VariantsOf(rival)
  PROVE  /\ ResolveVariant(rival, request, controls) = resolved
         /\ resolved.reason = "exact_effort" => request.effort # None
<1>1. /\ \A v, reason : /\ Resolved(v, reason).variant = v
                        /\ Resolved(v, reason).reason = reason
      /\ \A error \in Errors : Unresolved(error).error # None
  BY ErrorsAssumption DEF Resolved, Unresolved
<1>2. CASE controls.variant # None
  <2>1. /\ ~(/\ request.effort # None
             /\ controls.variant \in Range(case.efforts)
             /\ controls.variant # request.effort)
        /\ resolved = Resolved(controls.variant, "explicit")
    BY <1>1, <1>2 DEF ResolveVariant, Errors
  <2>2. controls.variant \in VariantsOf(rival)
    BY <1>1, <2>1
  <2> QED BY <1>1, <1>2, <2>1, <2>2 DEF ResolveVariant
<1>3. CASE controls.variant = None
  <2>1. request.effort # None /\ resolved = Resolved(request.effort, "exact_effort")
    BY <1>1, <1>3 DEF ResolveVariant, Errors
  <2>2. request.effort \in VariantsOf(rival)
    BY <1>1, <2>1
  <2> QED BY <1>1, <1>3, <2>1, <2>2 DEF ResolveVariant
<1> QED BY <1>2, <1>3

\* What a client is told of an answer.
Told(a) ==
  [error |-> a.error, output |-> a.output, match |-> a.match, reason |-> a.reason,
   case |-> IF a.error # None THEN None ELSE <<a.case[1].id, a.case[2].id>>,
   variant |-> a.variant]

\* A pinned answer of one artifact is given by every compatible one.
LEMMA PinnedIsGiven ==
  ASSUME NEW baseline \in Corpora \cup {{}}, NEW candidate \in Corpora \cup {{}},
         Compiles(baseline), Compiles(candidate), Compatible(baseline, candidate),
         NEW request \in Requests, NEW controls \in Controls,
         Catalogue[request.model].structured,
         NEW a \in Answers(baseline, request, controls), Pinned(a, controls)
  PROVE  \E b \in Answers(candidate, request, controls) : Told(b) = Told(a)
<1>1. a.match \in {"explicit", "exact"} /\ a.reason \in {"explicit", "exact_effort"}
  BY DEF Pinned
<1>2. \A error, case : a # Refusal(error, case)
  BY <1>1, ErrorsAssumption DEF Refusal, Matches
<1>3. ~(request.effort # None /\ request.effort \notin Catalogue[request.model].efforts)
  BY <1>2 DEF Answers
<1>4. PICK selected \in SelectCase(baseline, request, controls) :
        selected.error = None /\ a = Planned(request, controls, selected)
  BY <1>2, <1>3 DEF Answers
<1> DEFINE s == selected.case
           resolved == ResolveVariant(s[2], request, controls)
           v == resolved.variant
           success(x, how) ==
             [error |-> None, case |-> x, match |-> how,
              variant |-> v, reason |-> resolved.reason,
              output |-> OutputNodes(x[2].variants[v]), terminal |-> x[2].terminal]
<1>5. /\ resolved.error = None
      /\ v \in VariantsOf(s[2])
      /\ SchemaServed(request, s[2].variants[v])
      /\ a = success(s, selected.match)
  BY <1>2, <1>4 DEF Planned
<1>6. a.match = selected.match /\ a.reason = resolved.reason
  BY <1>5
<1>7. s \in Selectors(baseline)
  BY <1>4, SelectedIsCandidate DEF Candidates
<1>8. v \in Ids
  <2>1. VariantsOf(s[2]) \subseteq KebabIds
    BY <1>7, SelectorsAreCases DEF Compiles, DirectoryLoads, Lints, CaseLints, CanonicalId
  <2> QED BY <1>5, <2>1, FixtureIdsAssumption
<1>9. PICK t \in Selectors(candidate) :
        /\ Alike(s, t)
        /\ v \in VariantsOf(t[2])
        /\ OutputNodes(t[2].variants[v]) = OutputNodes(s[2].variants[v])
  BY <1>5, <1>7, <1>8, CounterpartExists
<1>10. Range(t[2].efforts) = Range(s[2].efforts)
  <2>1. Assignment(t[1], t[2]).efforts = Assignment(s[1], s[2]).efforts
    BY <1>9 DEF Alike
  <2> QED BY <2>1 DEF Assignment
<1>11. /\ ResolveVariant(t[2], request, controls) = resolved
       /\ resolved.reason = "exact_effort" => request.effort # None
  <2> HIDE DEF s
  <2> QED BY <1>1, <1>5, <1>6, <1>9, <1>10, PinnedIsResolved
<1>12. SchemaServed(request, t[2].variants[v])
  <2>1. /\ s \in Selectors(baseline) /\ v \in VariantsOf(s[2]) /\ v \in VariantsOf(t[2])
        /\ OutputNodes(t[2].variants[v]) = OutputNodes(s[2].variants[v])
        /\ SchemaServed(request, s[2].variants[v])
    BY <1>5, <1>7, <1>9
  <2> HIDE DEF s, resolved
  <2> QED BY <2>1, SameOutputServes
<1> DEFINE chosen == [case |-> t, match |-> selected.match, error |-> None]
<1>13. chosen \in SelectCase(candidate, request, controls)
  <2>1. \/ selected.match = "explicit" /\ Len(controls.case) = 2
        \/ selected.match = "exact" /\ request.effort # None
    BY <1>6, <1>11 DEF Pinned
  <2> QED BY <1>4, <1>9, <2>1, PinnedIsSelected
<1>14. Planned(request, controls, chosen) = success(t, selected.match)
  <2>1. chosen.case = t /\ chosen.match = selected.match
    OBVIOUS
  <2> HIDE DEF chosen
  <2> QED BY <1>5, <1>9, <1>11, <1>12, <2>1 DEF Planned
<1>15. success(t, selected.match) \in Answers(candidate, request, controls)
  <2>1. chosen.error = None
    OBVIOUS
  <2> HIDE DEF chosen
  <2> QED BY <1>3, <1>13, <1>14, <2>1 DEF Answers
<1>16. Told(success(t, selected.match)) = Told(success(s, selected.match))
  BY <1>9 DEF Told, Alike, SameIds
<1> QED BY <1>5, <1>15, <1>16

\* compatibility_report's verdict is worth what a client makes of it: a request
\* pinned to a case and a variant, by x_simulate or by its turns and effort, is
\* answered with the same output by both artifacts.
THEOREM PinnedIsKept == Spec => CompatibleKeepsPinned
<1> DEFINE Keeps ==
      Compatible(artifact, artifact') =>
        \A request \in Requests, controls \in Controls :
          \A given \in Given(artifact, request, controls) :
            Pinned(given, controls) /\ Catalogue[request.model].structured =>
              given \in Given(artifact', request, controls)
<1>1. Inv /\ Inv' /\ [Next]_vars => [Keeps]_vars
  <2> SUFFICES ASSUME Inv, Inv' PROVE Keeps
    OBVIOUS
  <2> SUFFICES ASSUME Compatible(artifact, artifact'),
                      NEW request \in Requests, NEW controls \in Controls,
                      NEW given \in Given(artifact, request, controls),
                      Pinned(given, controls), Catalogue[request.model].structured
               PROVE  given \in Given(artifact', request, controls)
    OBVIOUS
  <2>1. \A documents : Given(documents, request, controls)
                         = {Told(a) : a \in Answers(documents, request, controls)}
    BY DEF Given, Told
  <2>2. PICK a \in Answers(artifact, request, controls) : given = Told(a)
    BY <2>1
  <2>3. Pinned(a, controls)
    BY <2>2 DEF Pinned, Told
  <2>4. /\ artifact \in Corpora \cup {{}} /\ artifact' \in Corpora \cup {{}}
        /\ Compiles(artifact) /\ Compiles(artifact')
    BY DEF Inv
  <2>5. \E b \in Answers(artifact', request, controls) : Told(b) = Told(a)
    BY <2>3, <2>4, PinnedIsGiven
  <2> QED BY <2>1, <2>2, <2>5
<1> QED BY <1>1, InvHolds, PTL DEF Spec, CompatibleKeepsPinned
=============================================================================
