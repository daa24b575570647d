SPECIFICATION FairSpec
CONSTANTS
  Workers = {w1, w2, w3}
  Sessions = {s1, s2}
  None = None
  MaxId = 0
  Ops <- SpectraLive
INVARIANTS NoLeak
PROPERTIES SessionsEnd
