CONSTANTS
  HalfBits = 2
  UsecBits = 3
  Rates = {2, 3}
  Torn = FALSE
  Words = {0}
  KilledInit = {0}
  MaxKilled = 0
  PageCounts = {0}
SPECIFICATION Spec
\* the tick counter stops at its bound, where a sleeper may still wait
CHECK_DEADLOCK FALSE
INVARIANT UsleepLongEnough
