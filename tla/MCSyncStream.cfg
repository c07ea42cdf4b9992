SPECIFICATION Spec
CONSTANTS
  Writer = {w1, w2}
  Device = {d1}
  NEntity = 2
  PageSize = 1
  MaxSeq = 3
  MaxEpoch = 3
  MaxFaults = 1
SYMMETRY Symmetry
INVARIANTS
  TypeOK
  SnapshotExact
  CoveredUnlessOvertaken
  CurrentCursorRetained
  PagesReconstructBoundary
PROPERTIES
  AckMonotone
