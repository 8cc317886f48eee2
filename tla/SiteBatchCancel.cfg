SPECIFICATION Spec
CONSTANTS
  None = None
  Sites = 2
  MaxCrashes = 0
  MayRaise = FALSE
  MayLoseWrites = FALSE
CHECK_DEADLOCK FALSE
INVARIANTS
  EndsWithItsChildren
