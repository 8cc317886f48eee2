CONSTANTS
  s = s
  a = a
  b = b
  x = x
  direct = direct
  browser = browser
  None = None
  Urls = {s, a, b, x}
  Seed = s
  Abroad = {x}
  Redirects <- MCRedirects
  Links <- MCLinks
  Previous <- MCPrevious
  Capabilities <- MCCapabilities
  Aware = {3}
  Goals = {TRUE, FALSE}
  Finders = {1, 2, 3}
  Acquirers = {direct, browser}
  Preferred = direct
  Kinds <- MCKinds
  Budget = 7
  Tries = 3
  Costs = {2}
SPECIFICATION Spec
CHECK_DEADLOCK FALSE
INVARIANTS
  MissingIsProven
  SkillsAreProven
  AttemptsAreLimited
  RaisesOnlyWhenCancelled
