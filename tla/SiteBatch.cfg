SPECIFICATION FairSpec
CONSTANTS
  None = None
  Sites = 3
  MaxCrashes = 2
  MayRaise = TRUE
  MayLoseWrites = TRUE
CHECK_DEADLOCK FALSE
INVARIANTS
  AggregateIsSound
  CancelStopsAtTheNextChild
PROPERTIES
  BatchHistoryStands
  BatchEnds
