SPECIFICATION Spec
CONSTANTS
  Workers = {w1, w2}
  MaxIterations = 10
  MaxAmbiguousRetries = 1
  MaxGenericRetries = 1
  MaxStreak = 3
  MaxRateLimitSleep = 3
  RetryAfters <- SomeRetryAfter
  Adapters <- BothKinds
  MinSamples = 2
  BurstCount = 2
  BurstWindow = 0
  MaxTimestamps = 2
  MaxEvidence = 3
SYMMETRY Interchangeable
INVARIANTS TypeOK ThrottleIsAnnounced AttemptsAreBudgeted
