CONSTANTS
  Handlers <- KbdHandlers
  DoIrqLevels <- KbdHandlers
  Periodic <- MCPeriodic
  Intervals <- MCIntervals
  IcountOD = 1
  Width = 3
  Period = 2
  Build = "c"
  Timing = "wrap"
  VmRun = TRUE
  Faithful = TRUE
  MaxDevReq = 1
  MaxFake = 1
  MaxGuestNest = 2
  MaskBytes <- MCMasks
  SmmCmds <- NoSmm
  RegLevels <- NoReg
  MaxRegOps = 0
  MaxResets = 0
SPECIFICATION Spec
INVARIANT StackSync
INVARIANT NoReentry
