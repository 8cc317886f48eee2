SPECIFICATION PoolFairSpec
CONSTANTS
  Nothing = Nothing
  th1 = th1
  th2 = th2
  j1 = j1
  f1 = f1
  b1 = b1
  Threads = {th1, th2}
  Jobs = {j1}
  Fetches = {f1}
  Batches = {}
  Pollings = {TRUE, FALSE}
  Elsewhere = TRUE
  Driver = TRUE
  FailingClaims = {"jobs"}
  StorageMayFail = FALSE
CHECK_DEADLOCK FALSE
INVARIANTS
  ThreadsAreAccounted
  CloseReachesEveryJob
PROPERTIES
  PoolMovesOn
