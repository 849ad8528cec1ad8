SPECIFICATION Spec
CONSTANTS
  Clients = {c1, c2}
  Codes = {k1}
  Tokens = {t1, t2}
  Requests = {r1, r2, r3}
  None = None
INVARIANT RevokedIsUnusable
CHECK_DEADLOCK FALSE
