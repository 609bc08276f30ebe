CONSTANTS
  Handlers <- Irq9Soft
  DoIrqLevels <- Irq9
  Periodic <- NoPeriodic
  Intervals <- MCIntervals
  IcountOD = 1
  Width = 3
  Period = 2
  Build = "asm"
  Timing = "wrap"
  VmRun = TRUE
  Faithful = TRUE
  MaxDevReq = 2
  MaxFake = 0
  MaxGuestNest = 2
  MaskBytes <- MCMasks
  SmmCmds <- MCSmm
  RegLevels <- NoReg
  MaxRegOps = 0
  MaxResets = 0
SPECIFICATION Spec
PROPERTY EOIResetsSender
