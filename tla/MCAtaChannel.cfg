CONSTANTS
  NBPG = 4
  ATA_DMA_ENTRIES = 3
  MaxXfer = 8
  MaxReqs = 3
  DmaDevs = {0}
  Chains <- MCChannelChains
  Frame <- MCFrame
SPECIFICATION ChannelSpec
\* once the disk driver has queued its requests and all are done, the
\* channel is idle with nothing left to do
CHECK_DEADLOCK FALSE
INVARIANT TypeOK
INVARIANT TableMatchesTransfer
INVARIANT RejectsOnlyOverlong
PROPERTY RequestsComplete
PROPERTY ImplementsQueue
