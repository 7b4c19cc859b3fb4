SPECIFICATION FairSpec
CONSTANTS
  s1 = s1
  None = None
  Streams = {s1}
  Plans <- FaultPlans
INVARIANTS
  EventsNest
  FaultsStrikeTheirStage
PROPERTIES
  EveryStreamEnds
  ImplementsEventStream
CHECK_DEADLOCK FALSE
