SPECIFICATION FairSpec
CONSTANTS
  Callers = {c1, c2}
  NoCaller = NoCaller
  Providers <- AllKinds
  MaxGenericRetries = 1
  MaxIssued = 3
CHECK_DEADLOCK FALSE
INVARIANTS TypeOK NoSpentToken 
PROPERTIES CallReturns
