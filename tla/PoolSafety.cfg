SPECIFICATION Spec
CONSTANTS
  Workers = {w1, w2, w3}
  Sessions = {s1, s2}
  None = None
  MaxId = 1
  Ops <- AllOps
SYMMETRY Symmetric
INVARIANTS TypeOK RegisteredIsOpen SoleCloser
