SPECIFICATION ExecFairSpec
CONSTANTS
  None = None
  c1 = c1
  k1 = k1
  k2 = k2
  q1 = q1
  t1 = t1
  t2 = t2
  a1 = a1
  w1 = w1
  w2 = w2
  p1 = p1
  JobIds = {1, 2}
  Callers = {c1}
  Keys = {k1, k2}
  Requests = {q1}
  Artifacts = {a1}
  Tokens = {t1, t2}
  Times = {0}
  OtherCodes = {"runtime.workflow_failed"}
  Results <- MCPlainResults
  Workers = {w1, w2}
  Inline = {}
  MaxCrashes = 1
  MaxCloses = 1
  StorageMayFail = FALSE
  InlineMayDie = FALSE
  ClockMayStepBack = FALSE
CHECK_DEADLOCK FALSE
INVARIANTS
  NothingStranded
  OneExecutorPerJob
PROPERTIES
  JobsEnd
