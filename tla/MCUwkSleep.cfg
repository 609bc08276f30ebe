CONSTANTS
  HalfBits = 2
  UsecBits = 3
  Rates = {2, 3}
  Torn = TRUE
  Words = {0, 1}
  KilledInit = {3}
  MaxKilled = 4
  PageCounts = {0, 1}
SPECIFICATION Spec
\* the tick counter stops at its bound, where a sleeper may still wait
CHECK_DEADLOCK FALSE
INVARIANT TypeOK
INVARIANT WaitPredExact
