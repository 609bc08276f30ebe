CONSTANTS
  Chips <- MCChips
  Layouts <- MCLayouts
  InitCfg <- MCInitCfg
  InitBmStat <- MCInitBmStat
  InitP11 <- MCInitP11
  Args <- MCArgs
  Answers <- MCAnswersAbort
  MaxCalls = 1
  Controllers <- MCControllers
SPECIFICATION AttachSpec
\* once every device is set up and none runs DMA, nothing is left to do
CHECK_DEADLOCK FALSE
INVARIANT TimingMatchesMode
