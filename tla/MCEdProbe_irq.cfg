CONSTANTS
  CardAt <- MCCardAtNe
  Counts <- MCCounts
  Wild = {FALSE, TRUE}
SPECIFICATION Spec
CHECK_DEADLOCK FALSE
\* violated: an NE board is attached with id_irq 0, the timer's line
INVARIANT AttachedIrqValid
