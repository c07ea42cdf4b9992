SPECIFICATION PapersSpec
CONSTANTS
  Question = {q1, q2}
  Title = {t1, t2}
  Thread = {w1, w2}
  MaxOrder = 2
  Asked <- Requests
  Null = Null
SYMMETRY Symmetry
INVARIANTS
  PapersConsistent
PROPERTIES
  AloneExact
  ExportWhole
