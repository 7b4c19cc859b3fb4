SPECIFICATION FairSpec
CONSTANTS
  c1 = c1
  b1 = b1
  w1 = w1
  w2 = w2
  None = None
  ConversationIds = {c1}
  InitialLength <- OneInitialItem
  Batches = {}
  BatchLength <- OneItemBatches
  FirstOnTie = "input"
  Tasks = {w1, w2}
  Requests <- MixedBodies
  Scenarios = {TRUE, FALSE}
  MaxGeneration = 2
INVARIANT OnlyCommitsLeaveTraces
PROPERTIES
  StoredObjectsAreImmutable
  EveryRequestAnswered
CHECK_DEADLOCK FALSE
