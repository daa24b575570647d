SPECIFICATION FairSpec
CONSTANTS
  Callers = {c1, c2}
  NoCaller = NoCaller
  PathA = PathA
  PathB = PathB
  Paths = {PathA, PathB}
  Batches <- Some
  Trees <- FolderAndNothing
  MaxEntries = 2
  MaxGenericRetries = 0
  MaxExpiries = 1
CHECK_DEADLOCK FALSE
INVARIANTS TypeOK  OverlapIsGivenUp
PROPERTIES CallReturns
