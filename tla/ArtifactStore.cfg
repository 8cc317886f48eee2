SPECIFICATION Spec
CONSTANTS
  x = x
  y = y
  w1 = w1
  w2 = w2
  None = None
  Contents = {x, y}
  Kinds = {"source", "derived"}
  Folder <- MCFolder
  Writers = {w1, w2}
  Home <- MCOneProcess
  Callers = {"caller"}
  MayFail = TRUE
  MaxFiles = 3
  MaxCommits = 3
  MaxCrashes = 1
CHECK_DEADLOCK FALSE
SYMMETRY MCSymmetry
INVARIANTS
  PublishedIsReadable
  FailuresLeaveNothing
PROPERTIES
  ContentsStand
