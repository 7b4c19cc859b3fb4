SPECIFICATION DialogueSpec
CONSTANTS
  None = None
  Tokens = {"a", "b", "c", "d", "<", "?", "hi", "no", "be", "brief"}
  Open = {"<"}
  Replacement = "?"
  SmallestCap = 1
  MaxEntries = 1
  MaxKey = 2
  MaxValue = 2
  Words <- DialogueWords
  Plans <- DialoguePlans
  Settings <- DialogueSettings
  MaxRounds = 3
INVARIANTS
  ContinuationsAgree
  RepliesCanBeReplayed
  BudgetIsKept
CHECK_DEADLOCK FALSE
