SPECIFICATION Spec
CONSTANTS
  User = {owner, u1}
  Owner = owner
  Admin = {}
  Worker = {w1, w2}
  Review = {"in_review", "approved"}
  MaxEdit = 2
  MaxComment = 1
  MaxRevision = 4
  MaxRequest = 4
  None = None
SYMMETRY Symmetry
CHECK_DEADLOCK FALSE
INVARIANTS
  Consistent
  RevisionAnnounced
PROPERTIES
  KeepsEdits
  ApprovedOverLateCommentsOnly
