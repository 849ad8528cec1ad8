SPECIFICATION Spec
CONSTANTS
  Clients = {c1, c2}
  BulkClients = {c2}
  UserIds = {u1, u2}
  GroupIds = {g1}
  Names = {n1, n2}
  MaxWrites = 3
  MaxBulk = 2
  NoRow = NoRow
  NoTag = NoTag
  NoRequest = NoRequest
SYMMETRY Symmetry
CHECK_DEADLOCK FALSE
INVARIANTS TypeOK TagNamesContent MembershipSound
PROPERTIES GuardedWrite KeepsResources
