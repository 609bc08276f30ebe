CONSTANTS
  Chips <- MCChips
  Layouts <- MCLayouts
  InitCfg <- MCInitCfg
  InitBmStat <- MCInitBmStat
  InitP11 <- MCInitP11
  Args <- MCArgs
  Answers <- MCAnswers
  MaxCalls = 2
  Controllers <- MCControllers
SPECIFICATION AttachSpec
\* violated: a second call (ad_reinit) that fails frees the table of a DMA device
CHECK_DEADLOCK FALSE
INVARIANT DmaTableLive
