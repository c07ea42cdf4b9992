SPECIFICATION FairSpec
CONSTANTS
  Writer = {w1}
  Device = {d1}
  NEntity = 2
  PageSize = 1
  MaxSeq = 2
  MaxEpoch = 2
  MaxFaults = 1
INVARIANTS
  CursorCovers
PROPERTIES
  CatchesUp
