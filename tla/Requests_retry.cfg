CONSTANTS
  Thread = {t1, t2}
  PerThread = 2
  MaxRetries = 1
  Cap = 3
  Base = 1
  Skew = 2
  Floor = 1
  AttemptTime = 1
  Lifetimes = {3, 5}
  Hints = {0, 6}
  Horizon = 13
SPECIFICATION Spec
PROPERTY NoExpiredTokenSent
CHECK_DEADLOCK FALSE
