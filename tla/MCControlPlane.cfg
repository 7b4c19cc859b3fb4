SPECIFICATION Spec
CONSTANTS
  c1 = c1
  c2 = c2
  c3 = c3
  None = None
  Calls = {c1, c2, c3}
  Requests <- Traffic
  Paces = {"default", "slow", "model"}
  ModelPace = "model"
  Boot <- SlowBoot
  Capacity = 1
SYMMETRY Symmetric
INVARIANTS
  SequentialWritesCompose
  OverridesBeatScenario
  AnswersFollowOneProfile
  ResetForgets
  AnsweredAreLogged
CHECK_DEADLOCK FALSE
