CONSTANTS
  MaxExtras = 2
  x1 = x1  x2 = x2  x3 = x3  cEq = cEq  cSleep = cSleep
  Extras <- MCExtras
  MaxLen <- MCMaxLen
  Callers <- MCCallers
  Size <- MCSize
  SigSize = 3
  RevSize = 3
  DefaultLen = 16
  RegisterIn = {"idle"}
  MaxDepth = 1
  NoExtra = NoExtra
SPECIFICATION Spec
INVARIANT TypeOK
INVARIANT NoOverflow
