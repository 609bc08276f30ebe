CONSTANTS
  Handlers <- KbdHandlers
  DoIrqLevels <- KbdHandlers
  Periodic <- MCPeriodic
  Intervals <- MCIntervals
  IcountOD = 1
  Width = 3
  Period = 2
  Build = "asm"
  Timing = "wrap"
  VmRun = TRUE
  Faithful = TRUE
  MaxDevReq = 1
  MaxFake = 0
  MaxGuestNest = 1
  MaskBytes <- NoMasks
  SmmCmds <- NoSmm
  RegLevels <- KbdReg
  MaxRegOps = 1
  MaxResets = 0
SPECIFICATION Spec
PROPERTY DispatchRespectsMask
