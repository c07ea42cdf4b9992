SPECIFICATION Spec
CONSTANTS
  Worker = {w1, w2}
  Request <- Requests
  Conflict <- Conflicts
  Stored <- History
  NEntity = 2
  Attached = {1}
  PushOp = {"p1"}
  PushContent = {"p"}
  MaxVersion = 5
SYMMETRY Symmetry
INVARIANTS
  Consistent
  RetryMeetsAnswer
  UndoesTheLatest
  UndoRestores
PROPERTIES
  ImplementsReview
