SPECIFICATION Spec
CONSTANTS
  p1 = p1
  None = None
  Requests <- ThreeCompletions
  Updates = {"m1", "m2"}
  Pagers = {p1}
  Queries <- Paging
  MaxSeen = 4
INVARIANTS
  PagesFollowTheList
  PagesTellAll
CHECK_DEADLOCK FALSE
