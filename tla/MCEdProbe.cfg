CONSTANTS
  CardAt <- MCCardAt64
  Counts <- MCCounts
  Wild = {FALSE, TRUE}
SPECIFICATION Spec
\* exo_ed_init returns; with no card attached the driver does nothing more
CHECK_DEADLOCK FALSE
INVARIANT TypeOK
INVARIANT CopyMatchesRing
INVARIANT ReadmemCovers
