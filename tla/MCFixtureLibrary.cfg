SPECIFICATION Spec
CONSTANTS
  None = None
  plain = plain
  reasoner = reasoner
  Ids = {1, 2, 3, 4, 5, 6, 7}
  KebabIds = {1, 2, 3, 4, 5, 6}
  NegativeIds = {6}
  EffortNames = {3, 4}
  Keywords = {"type", "properties"}
  Legacy = {2}
  Catalogue <- MCCatalogue
  Digest <- MCDigest
  Corpora <- MCCorpora
  Requests <- MCRequests
  Controls <- MCControls
INVARIANTS
  AmbiguityOnlyWithoutEffort
  NegativesAreAskedFor
  LintGuaranteesHold
PROPERTIES
  CompatibleKeepsPinned
CHECK_DEADLOCK FALSE
