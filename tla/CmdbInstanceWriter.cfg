CONSTANTS
  N = 7
  BatchSize = 3
  Concurrency = 3
  AbortAfterErrors = 4
  BadBodies = TRUE
SPECIFICATION MCFairSpec
INVARIANTS IInv PostBudget
PROPERTIES SuccessDisarms CallsKeepContract CallEnds
CHECK_DEADLOCK FALSE
