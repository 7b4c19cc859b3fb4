SPECIFICATION Spec
CONSTANTS
  None = None
  Tokens <- LibraryTokens
  Open = {"<"}
  Replacement = "?"
  Conversations = {1, 2, 3, 4, 5, 7}
  Normal <- LowerCase
  DigestOf <- Lengths
  Mixed <- MixLengths
  High = 2
  Ranges <- NumberRanges
  MaxChoices = 2
  MaxStops = 4
  MaxLogprobs = 20
  Bias = {0, 1}
  FunctionNames = {"f"}
  ThinkOpen = "{"
  ThinkClose = "}"
  Sets <- LibrarySets
  Sample <- SampleSets
  Interactions <- LibraryInteractions
  Requests <- LibraryRequests
  SemanticPlans <- LibraryPlans
  MaxSources = 3
INVARIANTS
  RepliesFollowTheirTurns
  ChatBudgetIsKept
PROPERTIES
  GrowthKeepsMatches
CHECK_DEADLOCK FALSE
