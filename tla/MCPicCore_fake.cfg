CONSTANTS
  Handlers <- MCHandlers
  DoIrqLevels <- MCDoIrq
  Periodic <- MCPeriodic
  Intervals <- MCIntervals
  IcountOD = 1
  Width = 3
  Period = 2
  Build = "asm"
  Timing = "wrap"
  VmRun = TRUE
  Faithful = TRUE
  MaxDevReq = 1
  MaxFake = 2
  MaxGuestNest = 1
  MaskBytes <- MCMasks
  SmmCmds <- NoSmm
  RegLevels <- NoReg
  MaxRegOps = 0
  MaxResets = 0
SPECIFICATION FairSpec

PROPERTY ThrottleEnds
