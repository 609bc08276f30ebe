CONSTANTS
  NBPG = 4
  ATA_DMA_ENTRIES = 3
  MaxXfer = 4
  Chains <- MCChainsInPlace
  Frame <- MCFrame
SPECIFICATION Spec
\* the transfer ends when the chain is done or a call fails
CHECK_DEADLOCK FALSE
INVARIANT TableMatchesTransfer
