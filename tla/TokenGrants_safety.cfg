SPECIFICATION Spec
CONSTANTS
  Clients = {c1, c2}
  Codes = {k1, k2}
  Tokens = {t1, t2, t3}
  Requests = {r1, r2, r3, r4}
  None = None
INVARIANTS TypeOK OnePlace StaysWithClient
PROPERTIES KeepsLifecycle OthersAreHarmless
SYMMETRY MCSymmetry
CHECK_DEADLOCK FALSE
