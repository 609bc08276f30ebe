CONSTANTS
  Cmds <- MCCmds
  Data <- MCData
SPECIFICATION Spec
INVARIANT ICWCountMatches8259
