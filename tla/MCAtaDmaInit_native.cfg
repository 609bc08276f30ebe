CONSTANTS
  Chips <- MCChips
  Layouts <- MCLayouts
  InitCfg <- MCInitCfg
  InitBmStat <- MCInitBmStat
  InitP11 <- MCInitP11
  Args <- MCArgs
  Answers <- MCAnswers
  MaxCalls = 1
  Controllers <- MCNative
SPECIFICATION AttachSpec
CHECK_DEADLOCK FALSE
\* violated: in EXOPC only a channel at IO_WD1/IO_WD2 gets ataintr (lines 387, 419)
INVARIANT IrqRegistered
