CONSTANTS
  Handlers <- MCHandlers
  DoIrqLevels <- MCDoIrq
  Periodic <- MCPeriodic
  Intervals <- MCIntervals
  IcountOD = 1
  Width = 3
  Period = 2
  Build = "asm"
  Timing = "wrap"
  VmRun = TRUE
  Faithful = TRUE
  MaxDevReq = 1
  MaxFake = 0
  MaxGuestNest = 2
  MaskBytes <- MCMasks
  SmmCmds <- MCSmm
  RegLevels <- NoReg
  MaxRegOps = 0
  MaxResets = 0
SPECIFICATION Spec
INVARIANT TypeOK
INVARIANT StackSync
INVARIANT NoReentry
