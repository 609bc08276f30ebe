CONSTANTS
  c1 = c1
  c2 = c2
  Cpus <- MCCpus
  PktPages <- MCPktPages
  TxbCnt = 2
  RingPages = 4
  MaxTx = 3
  MaxRx = 2
  MaxBad = 1
SPECIFICATION FairSpec
\* an idle card with no traffic left waits for the next packet
CHECK_DEADLOCK FALSE
INVARIANT TypeOK
INVARIANT InIntrExclusive
INVARIANT WireInOrder
INVARIANT DeliveredInOrder
INVARIANT UserWindowFree
PROPERTY NoLostInterrupt
PROPERTY TxDrains
