SPECIFICATION Spec
CONSTANTS
  u1 = u1
  A = A
  Socket = {s1, s2}
  User = {u1}
  Draft = {d1, d2}
  Server = {A, B}
  Home <- Homes
  UserOf <- Users
  MaxChange = 1
  MaxLogout = 1
  Limit = 1
  None = None
SYMMETRY Symmetry
CHECK_DEADLOCK FALSE
INVARIANTS
  Consistent
  SettlesRight
PROPERTIES
  ReadersOnly
  OverLimitByRacesOnly
