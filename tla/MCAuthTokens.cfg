SPECIFICATION Spec
CONSTANTS
  Worker = {w1, w2}
  Device = {d1}
  MaxLogin = 2
  MaxToken = 6
  MaxOverdue = 1
  MaxGone = 1
  None = None
SYMMETRY Symmetry
CHECK_DEADLOCK FALSE
INVARIANTS
  Consistent
  EndedForGood
PROPERTIES
  DeadStaysDead
