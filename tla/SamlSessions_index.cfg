SPECIFICATION Spec
CONSTANTS
  Procs = {p1, p2}
  Ids = {s1, s2}
  NameIDs = {u1}
  Requests = {r1}
  MaxSent = 1
  None = None
SYMMETRY Symmetry
CHECK_DEADLOCK FALSE
INVARIANT AllSessionsFound
