CONSTANTS
  Handlers <- SoftHandlers
  DoIrqLevels <- SoftHandlers
  Periodic <- NoPeriodic
  Intervals <- MCIntervals
  IcountOD = 1
  Width = 3
  Period = 2
  Build = "asm"
  Timing = "wrap"
  VmRun = TRUE
  Faithful = TRUE
  MaxDevReq = 3
  MaxFake = 0
  MaxGuestNest = 1
  MaskBytes <- MCMasks
  SmmCmds <- NoSmm
  RegLevels <- NoReg
  MaxRegOps = 0
  MaxResets = 0
SPECIFICATION Spec
INVARIANT NoReentry
