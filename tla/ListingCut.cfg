SPECIFICATION Spec
CONSTANTS
  DefaultLimit = 2
  MaxLimit = 3
  Entries = {a, b, c}
  Services <- OneRequest
  Limits <- AllLimits
  BatchSize = 2
  Creates = 0
  Deletes = 0
  Failures = 0
CHECK_DEADLOCK FALSE
INVARIANT AllResults
