CONSTANTS
  Handlers <- MCHandlers
  DoIrqLevels <- MCDoIrq
  Periodic <- MCPeriodic
  Intervals <- MCIntervals
  IcountOD = 1
  Width = 3
  Period = 2
  Build = "asm"
  Timing = "wrap"
  VmRun = TRUE
  Faithful = TRUE
  MaxDevReq = 0
  MaxFake = 0
  MaxGuestNest = 2
  MaskBytes <- NoMasks
  SmmCmds <- NoSmm
  RegLevels <- NoReg
  MaxRegOps = 0
  MaxResets = 1
SPECIFICATION FairSpec

PROPERTY ThrottleEnds
