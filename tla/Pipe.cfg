SPECIFICATION FairSpec
CONSTANTS
  MaxSize = 5
  Chunk = 2
  Writers <- AllWriters
CHECK_DEADLOCK FALSE
INVARIANTS TypeOK CommittedIsWhole CloseReportsCommit
PROPERTIES NothingHangs
