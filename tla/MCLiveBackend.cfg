SPECIFICATION FairSpec
CONSTANTS
  c1 = c1
  c2 = c2
  c3 = c3
  c4 = c4
  Torn = Torn
  Calls = {c1, c2, c3, c4}
  MaxRequests = 3
  MaxConcurrent = 2
  MaxCrashes = 1
INVARIANTS
  BudgetHolds
  PermitsAddUp
  UndisturbedRowsKept
PROPERTIES
  EveryCallAnswered
CHECK_DEADLOCK FALSE
