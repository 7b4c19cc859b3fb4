--------------------------- MODULE SemanticArtifact ---------------------------
(***************************************************************************)
(* The compiler of schema-v2 fixtures: what a set of documents must meet   *)
(* to become an artifact, the variants it holds, and the report that       *)
(* compares two artifacts (src/sim/artifact.rs).                           *)
(*                                                                         *)
(* An artifact is known by its documents: the rest of it is computed from  *)
(* them.  Lists the compiler sorts are read as sets.                       *)
(***************************************************************************)
EXTENDS SemanticFixtures

CONSTANTS
  Catalogue,  \* the models of the catalogue, each with its capabilities
  Legacy      \* the fixture ids that start with "legacy-"

Models == DOMAIN Catalogue

\* Each case with the document it is in.
Selectors(documents) ==
  UNION {{<<doc, case>> : case \in CasesOf(doc)} : doc \in documents}

-----------------------------------------------------------------------------
\* validate_models
ModelSuffices(doc, model) ==
  /\ model \in Models
  /\ doc.reasoning => Catalogue[model].reasoning
  /\ doc.structured => Catalogue[model].structured
  /\ \A case \in CasesOf(doc) :
       Range(case.efforts) \subseteq Catalogue[model].efforts

\* effective_interfaces
EffectiveInterfaces(doc, case) ==
  IF case.interfaces = <<>> THEN Range(doc.interfaces)
                            ELSE Range(case.interfaces)

\* Mutant: an empty list stands for nothing.
WildcardOverlapsListed(left, right) == Range(left) \cap Range(right) /= {}

\* wildcard_overlaps: an empty list stands for everything.
WildcardOverlaps(left, right) ==
  \/ left = <<>>
  \/ right = <<>>
  \/ Range(left) \cap Range(right) /= {}

\* cases_overlap
CasesOverlap(left, right) ==
  LET doc == left[1]
      other == right[1]
      case == left[2]
      rival == right[2]
  IN  /\ doc.turns = other.turns
      /\ EffectiveInterfaces(doc, case) \cap EffectiveInterfaces(other, rival) /= {}
      /\ WildcardOverlaps(doc.models, other.models)
      /\ WildcardOverlaps(case.efforts, rival.efforts)
      /\ \/ case.format = None
         \/ rival.format = None
         \/ case.format = rival.format

\* reject_ambiguity
Unambiguous(documents) ==
  \A left, right \in Selectors(documents) :
    left /= right => ~CasesOverlap(left, right)

\* SemanticArtifact::compile
Compiles(documents) ==
  /\ DirectoryLoads(documents)
  /\ \A doc \in documents : \A model \in Range(doc.models) :
       ModelSuffices(doc, model)
  /\ Unambiguous(documents)

-----------------------------------------------------------------------------
\* output_nodes: the reasoning node, if any, and the one visible node.
ReasoningNode(outcome) ==
  IF HasReasoningText(outcome)
  THEN {[type |-> "reasoning", summary |-> outcome.summary,
         trace |-> outcome.trace, encrypted |-> outcome.encrypted]}
  ELSE {}

VisibleNode(outcome) ==
  IF outcome.answer /= None THEN {[type |-> "text", text |-> outcome.answer]}
  ELSE IF outcome.refusal /= None
       THEN {[type |-> "refusal", text |-> outcome.refusal]}
  ELSE IF outcome.structured /= None
       THEN {[type |-> "structured", text |-> outcome.structured.json]}
  ELSE {}

OutputNodes(outcome) == ReasoningNode(outcome) \cup VisibleNode(outcome)

\* compile_variants and variant_bytes: the output of each variant by its
\* selector.
VariantBytes(documents) ==
  LET entries == {<<s[1].id, s[2].id, s[2].variants, v>> :
                    s \in Selectors(documents), v \in Ids}
      authored == {e \in entries : e[4] \in DOMAIN e[3]}
  IN  {<<<<e[1], e[2], e[4]>>, OutputNodes(e[3][e[4]])>> : e \in authored}

\* match_signature and fallback_assignments: what the report holds a case to.
Assignment(doc, case) ==
  [turns      |-> doc.turns,
   models     |-> Range(doc.models),
   interfaces |-> EffectiveInterfaces(doc, case),
   efforts    |-> Range(case.efforts),
   format     |-> case.format,
   default    |-> case.default,
   fallback   |-> case.fallback]

Assignments(documents) ==
  {<<<<s[1].id, s[2].id>>, Assignment(s[1], s[2])>> : s \in Selectors(documents)}

\* changed_map_keys, and the keys one map has and the other lacks.
Keys(entries) == {e[1] : e \in entries}
Changed(baseline, candidate) ==
  {e[1] : e \in {b \in baseline : \E c \in candidate : c[1] = b[1] /\ c /= b}}
Removed(baseline, candidate) == Keys(baseline) \ Keys(candidate)

\* SemanticArtifact::compatibility_report
LegacyChanges(baseline, candidate) ==
  {key \in Changed(VariantBytes(baseline), VariantBytes(candidate))
             \cup Removed(VariantBytes(baseline), VariantBytes(candidate)) :
     key[1] \in Legacy}

\* Mutant: only the bytes of legacy payloads are compared.
CompatibleLegacyBytes(baseline, candidate) ==
  /\ Changed(Assignments(baseline), Assignments(candidate)) = {}
  /\ Removed(VariantBytes(baseline), VariantBytes(candidate)) = {}
  /\ LegacyChanges(baseline, candidate) = {}

Compatible(baseline, candidate) ==
  /\ Changed(Assignments(baseline), Assignments(candidate)) = {}
  /\ Changed(VariantBytes(baseline), VariantBytes(candidate)) = {}
  /\ Removed(VariantBytes(baseline), VariantBytes(candidate)) = {}
  /\ LegacyChanges(baseline, candidate) = {}
=============================================================================
