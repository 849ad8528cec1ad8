SPECIFICATION Spec
CONSTANTS
  Procs = {p1, p2}
  Ids = {s1, s2}
  NameIDs = {u1, u2}
  Requests = {r1, r2}
  MaxSent = 1
  None = None
SYMMETRY Symmetry
CHECK_DEADLOCK FALSE
INVARIANTS TypeOK IndexAgrees NoForeignLogout TrackedByName
PROPERTY LogoutEndsAll
