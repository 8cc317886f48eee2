CONSTANTS
  Resources = {"requests", "runtime"}
  MaxSpend = 2
  Budget <- MCBudget
  Lesser <- MCLesser
  Tries = 3
  Alternates = 1
SPECIFICATION Spec
CHECK_DEADLOCK FALSE
INVARIANTS
  SwitchIsAllowed
  BudgetIsKept
  AnswersAreTrue
PROPERTIES
  RetrievalEnds
