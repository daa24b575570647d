SPECIFICATION Spec
CONSTANTS
  Backends <- Both
  Callers = {c1, c2}
  Top = Top
  Dirs = {d1, d2}
  FileNodes = {f1, f2}
  None = None
  Names <- TwoNames
  Paths <- AllPaths
  OldName = "a"
  OldData <- OldUnits
  SourceLen = 2
  MaxTries = 1
  MaxFaults = 1
  MaxCalls = 3
SYMMETRY Workers
CHECK_DEADLOCK FALSE
INVARIANTS TypeOK CopyIsWhole 
PROPERTIES SuccessIsReal
