CONSTANTS
  N = 4
  BatchSize = 2
  Concurrency = 2
  AbortAfterErrors = 2
  BadBodies = TRUE
SPECIFICATION Spec
INVARIANT OneFailureDoesNotSinkTheRun
CHECK_DEADLOCK FALSE
