SPECIFICATION Spec
CONSTANTS
  Workers = {w1, w2, w3}
  Sessions = {s1, s2, s3}
  None = None
  MaxId = 0
  Ops <- Lawful
SYMMETRY Symmetric
INVARIANTS CountIsHolders CloudLease
PROPERTIES ImplementsLease
