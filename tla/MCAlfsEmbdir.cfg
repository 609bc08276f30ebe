CONSTANTS
  SECTOR = 6
  SECTORS = 2
  MaxBlocks = 2
  DotSize = 2
  Sizes = {2, 3}
  MaxOps = 8
  n1 = n1  n2 = n2  n3 = n3  n4 = n4
  Names <- MCNames
  Junk = Junk
  NoName = NoName
  MaxDirNum = 4
  RootDirNo = 2
  RootInum = 1
  Inodes = {5, 6, 7}
SYMMETRY Symm
SPECIFICATION MCSpec
\* the callers stop after MaxOps calls, or a call aborted
CHECK_DEADLOCK FALSE
INVARIANT TypeOK
INVARIANT WellFormed
INVARIANT MapMatchesDirs
INVARIANT FullOnlyWhenFull
PROPERTY ImplementsNames
