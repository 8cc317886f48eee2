CONSTANTS
  Versions = {1, 2}
  Admins = {a1, a2}
  None = None
  MaxOps = 4
  MaxCrashes = 1
SYMMETRY AdminSymmetry
SPECIFICATION Spec
CHECK_DEADLOCK FALSE
INVARIANTS
  ServesOnlyQualified
  DisabledIsNotInvoked
