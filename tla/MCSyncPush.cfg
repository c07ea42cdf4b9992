SPECIFICATION Spec
CONSTANTS
  Worker = {w1, w2}
  Request <- Requests
  NEntity = 2
  MaxSeq = 5
SYMMETRY Symmetry
INVARIANTS
  Consistent
  DependenciesInEffect
  EvidenceMatchesAnswers
PROPERTIES
  ImplementsLedger
  ImplementsWriter
