--------------------------- MODULE SemanticFixtures ---------------------------
(***************************************************************************)
(* The documents of a schema-v2 fixture directory and the lint each must   *)
(* pass before it is compiled or planned with (src/sim/script.rs).         *)
(*                                                                         *)
(* A document is what from_yaml has parsed.  Texts are values that only    *)
(* compare; an id is a number that stands for its place in the order of    *)
(* strings, so that what is sorted by id can be.                           *)
(***************************************************************************)
EXTENDS Naturals, FiniteSets, Sequences, Functions

CONSTANTS
  Ids,          \* strings written where an id is expected
  KebabIds,     \* the canonical lower-kebab-case ones among them
  NegativeIds,  \* those that start with "negative-"
  EffortNames,  \* what a ReasoningEffort serializes to
  Keywords,     \* schema keywords the lint allows
  None          \* a member that is absent

ASSUME FixtureIdsAssumption ==
  /\ Ids \subseteq Nat
  /\ KebabIds \subseteq Ids
  /\ NegativeIds \subseteq Ids
  /\ None \notin Ids

\* No ReasoningEffort serializes to a name that starts with "negative-".
ASSUME EffortNamesAssumption == EffortNames \subseteq Ids \ NegativeIds

Interfaces == {"chat", "responses"}
SemanticRoles == {"system", "developer", "user", "assistant"}
TerminalStatuses == {"completed", "incomplete", "failed", "cancelled"}
SchemaVersion == 2

\* The cases of a document by their positions, and the ids of its variants.
CasesOf(doc) == {doc.cases[i] : i \in DOMAIN doc.cases}
VariantsOf(case) == DOMAIN case.variants
OutcomesOf(case) == {case.variants[v] : v \in VariantsOf(case)}

HasReasoningText(outcome) ==
  \/ outcome.summary /= None
  \/ outcome.trace /= None
  \/ outcome.encrypted /= None

HasReasoning(outcome) == HasReasoningText(outcome) \/ outcome.tokens /= None

\* The visible outputs an outcome declares.
Visible(outcome) ==
  {kind \in {"answer", "refusal", "structured"} : outcome[kind] /= None}

IsNegative(outcome) ==
  outcome.structured /= None /\ outcome.structured.negative

-----------------------------------------------------------------------------
(* A schema is the set of its subschemas, each with the keyword it hangs   *)
(* under ("root" for the whole).                                           *)

\* Under these a subschema is looked at only when it is an object.
OptionalObjects == {"additionalProperties", "items", "not"}

\* Remote: a "$ref" that does not start with '#'.
OwnsSchema(schema) ==
  \A node \in schema :
    \/ node.at \in OptionalObjects /\ ~node.object
    \/ node.object /\ node.keywords \subseteq Keywords /\ ~node.remote

\* lint_id
CanonicalId(id) == id \in KebabIds

\* lint_variant
VariantLints(id, outcome) ==
  /\ HasReasoning(outcome) \/ Visible(outcome) /= {}
  /\ Cardinality(Visible(outcome)) <= 1
  /\ LET structured == outcome.structured
     IN  structured /= None =>
           /\ structured.parses
           /\ structured.negative <=> id \in NegativeIds
           /\ OwnsSchema(structured.schema)
           /\ structured.compiles
           /\ structured.valid <=> ~structured.negative

Duplicates(list) == ~IsInjective(list)

\* Mutant: the fallback is not looked at when negative variants are refused.
VariantReferencesNegativeFallback(case) ==
  /\ case.default \in VariantsOf(case)
  /\ case.fallback /= None => case.fallback \in VariantsOf(case)
  /\ ~IsNegative(case.variants[case.default])
  /\ \/ case.fallback /= None
     \/ Range(case.efforts) \subseteq VariantsOf(case)

\* Mutant: one listed effort with a variant is enough.
VariantReferencesSomeEffort(case) ==
  /\ case.default \in VariantsOf(case)
  /\ case.fallback /= None => case.fallback \in VariantsOf(case)
  /\ \A v \in {case.default, case.fallback} \ {None} :
       ~IsNegative(case.variants[v])
  /\ \/ case.fallback /= None
     \/ case.efforts = <<>>
     \/ Range(case.efforts) \cap VariantsOf(case) /= {}

\* What lint asks of a case's default, fallback and effort constraint.
VariantReferences(case) ==
  /\ case.default \in VariantsOf(case)
  /\ case.fallback /= None => case.fallback \in VariantsOf(case)
  /\ \A v \in {case.default, case.fallback} \ {None} :
       ~IsNegative(case.variants[v])
  /\ \/ case.fallback /= None
     \/ Range(case.efforts) \subseteq VariantsOf(case)

\* The loop over the cases of lint.
CaseLints(doc, case) ==
  /\ CanonicalId(case.id)
  /\ ~Duplicates(case.interfaces)
  /\ ~Duplicates(case.efforts)
  /\ Range(case.interfaces) \subseteq Range(doc.interfaces)
  /\ VariantsOf(case) /= {}
  /\ \A v \in VariantsOf(case) :
       CanonicalId(v) /\ VariantLints(v, case.variants[v])
  /\ VariantReferences(case)
  /\ (\E o \in OutcomesOf(case) : HasReasoning(o)) => doc.reasoning
  /\ (\E o \in OutcomesOf(case) : o.structured /= None) =>
       doc.structured /\ case.format /= None

\* SemanticFixture::lint
Lints(doc) ==
  /\ doc.version = SchemaVersion
  /\ CanonicalId(doc.id)
  /\ doc.described
  /\ ~Duplicates(doc.tags)
  /\ ~Duplicates(doc.interfaces)
  /\ doc.interfaces /= <<>>
  /\ \E i \in DOMAIN doc.turns : doc.turns[i].role = "user"
  /\ \A i \in DOMAIN doc.turns : doc.turns[i].text /= None
  /\ doc.cases /= <<>>
  /\ \A i, j \in DOMAIN doc.cases : doc.cases[i].id = doc.cases[j].id => i = j
  /\ \A case \in CasesOf(doc) : CaseLints(doc, case)

\* A directory loads when every document lints and no two share an id.
DirectoryLoads(documents) ==
  /\ \A doc \in documents : Lints(doc)
  /\ \A left, right \in documents : left.id = right.id => left = right
=============================================================================
