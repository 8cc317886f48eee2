CONSTANTS
  o1 = o1
  o2 = o2
  r1 = r1
  p1 = p1
  r2 = r2
  p2 = p2
  Start = p1
  Urls = {r1, p1, r2, p2}
  Origins = {o1, o2}
  Origin <- MCOrigin
  RobotsFile <- MCRobotsFile
  Https = {o1}
  Allowed = {o1, o2}
  Permitted = {p1, p2}
  MaxRequests = 4
  MaxBytes = 2
  None = None
SPECIFICATION Spec
CHECK_DEADLOCK FALSE
INVARIANTS
  Governed
  UsageIsBounded
PROPERTIES
  FailureIsFinal
  AttemptEnds
