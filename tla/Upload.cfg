SPECIFICATION FairSpec
CONSTANTS
  MaxSize = 10
  ChunkSize = 3
  SimpleMax = 2
  Declared = TRUE
  CloseAfterError = FALSE
  Attempts = 3
  MaxResumes = 2
CHECK_DEADLOCK FALSE
INVARIANTS TypeOK CommittedIsWhole SessionIsPrefix
PROPERTIES  ImplementsAtomicUpload
