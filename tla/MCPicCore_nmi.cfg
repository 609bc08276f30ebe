CONSTANTS
  Handlers <- NmiHandlers
  DoIrqLevels <- NmiDoIrq
  Periodic <- MCPeriodic
  Intervals <- MCIntervals
  IcountOD = 1
  Width = 4
  Period = 4
  Build = "asm"
  Timing = "wrap"
  VmRun = TRUE
  Faithful = TRUE
  MaxDevReq = 1
  MaxFake = 0
  MaxGuestNest = 2
  MaskBytes <- MCMasks
  SmmCmds <- NoSmm
  RegLevels <- NoReg
  MaxRegOps = 0
  MaxResets = 0
SPECIFICATION Spec
PROPERTY EOIResetsSender
