SPECIFICATION Spec
CONSTANTS
  None = None
  c1 = c1
  c2 = c2
  q1 = q1
  q2 = q2
  t1 = t1
  t2 = t2
  k1 = k1
  a1 = a1
  JobIds = {1, 2}
  Callers = {c1, c2}
  Keys = {k1}
  Requests = {q1, q2}
  Artifacts = {a1}
  Tokens = {t1, t2}
  Times = {0, 1}
  OtherCodes = {}
  Results <- MCResults
SYMMETRY MCSymmetry
CHECK_DEADLOCK FALSE
INVARIANTS
  RowsStayReadable
  CancellationFence
  GrantsFollowOutcomes
  IdentitiesAreUnique
PROPERTIES
  ImplementsLifecycle
