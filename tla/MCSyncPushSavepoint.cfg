SPECIFICATION Spec
CONSTANTS
  Worker = {w1, w2}
  Request <- EdgeRequests
  NEntity = 2
  MaxSeq = 5
INVARIANTS
  SavepointsIsolate
