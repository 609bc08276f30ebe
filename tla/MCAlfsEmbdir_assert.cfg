CONSTANTS
  SECTOR = 6
  SECTORS = 2
  MaxBlocks = 2
  DotSize = 2
  Sizes = {2, 3}
  MaxOps = 6
  n1 = n1  n2 = n2  n3 = n3  n4 = n4
  Names <- MCNames
  Junk = Junk
  NoName = NoName
SYMMETRY Symm
SPECIFICATION Spec
\* the callers stop after MaxOps calls, or a call aborted
CHECK_DEADLOCK FALSE
INVARIANT NoAddEntryAbort
