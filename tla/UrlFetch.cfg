SPECIFICATION FairSpec
CONSTANTS
  a = a
  b = b
  c = c
  c1 = c1
  c2 = c2
  None = None
  Urls = {a, b, c}
  Seed = a
  Clients = {c1, c2}
  Answers <- MCAnswers
  Costs <- MCCosts
  MaxRequests = 5
  MaxRuntime = 6
  MaxAttempts = 3
  MaxHops = 2
  Follow = TRUE
  MaxCrashes = 1
  MayRaise = TRUE
  MayLoseWrites = TRUE
CHECK_DEADLOCK FALSE
INVARIANTS
  NoHopTwice
  RunsShareTheBudget
  OutcomeIsDurable
  CancelStopsAtTheNextHop
PROPERTIES
  NothingBeginsUnaffordable
  FetchEnds
