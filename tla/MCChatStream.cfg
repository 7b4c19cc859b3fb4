SPECIFICATION FairSpec
CONSTANTS
  s1 = s1
  None = None
  Streams = {s1}
  Plans <- AnyPlans
INVARIANTS
  FaultsStrikeTheirStage
  
  ChoicesKeepPace
  FramesFindTheirPlace
PROPERTIES
  EveryStreamEnds
  ImplementsEventStream
CHECK_DEADLOCK FALSE
