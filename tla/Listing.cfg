SPECIFICATION Spec
CONSTANTS
  DefaultLimit = 2
  MaxLimit = 3
  Entries = {a, b, c}
  Services <- AllServices
  Limits <- AllLimits
  BatchSize = 2
  Creates = 1
  Deletes = 1
  Failures = 1
CHECK_DEADLOCK FALSE
INVARIANTS TypeOK SeenOnce
PROPERTIES WalkEnds
