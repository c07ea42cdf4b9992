SPECIFICATION Spec
CONSTANTS
  Worker = {w1, w2}
  Ref = {r1, r2}
  Key = {k1, k2}
  NChunk = 1
  MaxUpload = 2
  TTL = 1
  Grace = 1
  Retention = 1
  MaxTime = 2
  None = None
SYMMETRY Symmetry
INVARIANTS
  Consistent
  AvailableUnlessSwept
PROPERTIES
  KeepsRetained
