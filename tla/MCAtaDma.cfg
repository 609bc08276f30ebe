CONSTANTS
  NBPG = 4
  ATA_DMA_ENTRIES = 3
  MaxXfer = 18
  Chains <- MCChainsInPlace
  Frame <- MCFrame
SPECIFICATION Spec
\* the transfer ends when the chain is done or a call fails
CHECK_DEADLOCK FALSE
INVARIANT TypeOK
INVARIANT TableMatchesTransfer
INVARIANT RejectsOnlyOverlong
