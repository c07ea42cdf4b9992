SPECIFICATION Spec
CONSTANTS
  User = {owner, u1}
  Owner = owner
  Admin = {}
  Reader = {u1}
  Worker = {w1, w2}
  Question = {q1}
  Asked = {"private", "public"}
  Given = {"editor"}
  MaxVersion = 2
  None = None
  Live = Live
  ByRole = ByRole
  BySubscription = BySubscription
SYMMETRY Symmetry
CHECK_DEADLOCK FALSE
INVARIANTS
  Consistent
  ReadsAsOne
PROPERTIES
  MovesToActive
