CONSTANTS
  Chips <- MCChips
  Layouts <- MCLayouts
  InitCfg <- MCInitCfg
  InitBmStat <- MCInitBmStat
  InitP11 <- MCInitP11
  Args <- MCArgs
  Answers <- MCAnswers
  MaxCalls = 1
  Controllers <- MCNative
SPECIFICATION AttachSpec
CHECK_DEADLOCK FALSE
\* violated: the secondary bus-master port is BAR 0x20 + 8 even when the BAR is 0 (line 338)
INVARIANT BmPortDecoded
