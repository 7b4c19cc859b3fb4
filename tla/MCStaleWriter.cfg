SPECIFICATION Spec
CONSTANTS
  c1 = c1
  b1 = b1
  w1 = w1
  w2 = w2
  None = None
  ConversationIds = {c1}
  InitialLength <- OneInitialItem
  Batches = {b1}
  BatchLength <- OneItemBatches
  FirstOnTie = "input"
  Tasks = {w1, w2}
  Requests <- SameBody
  Scenarios = {FALSE}
  MaxGeneration = 2
PROPERTY StaleWritersNeverCommit
CHECK_DEADLOCK FALSE
