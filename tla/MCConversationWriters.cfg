SPECIFICATION Spec
CONSTANTS
  c1 = c1
  b1 = b1
  w1 = w1
  w2 = w2
  None = None
  ConversationIds = {c1}
  InitialLength <- OneInitialItem
  Batches = {b1}
  BatchLength <- OneItemBatches
  FirstOnTie = "message"
  Tasks = {w1, w2}
  Requests <- ReplayBody
  Scenarios = {FALSE}
  MaxGeneration = 2
INVARIANTS
  TypeOK
  GenerationDetectsChange
  OneWinnerPerGeneration
  NoSpuriousConflict
  CommittedAsOneGroup
PROPERTY ImplementsItemLog
SYMMETRY Writers
CHECK_DEADLOCK FALSE
