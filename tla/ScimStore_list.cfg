SPECIFICATION Spec
CONSTANTS
  Clients = {c1}
  BulkClients = {}
  UserIds = {u1}
  GroupIds = {g1}
  Names = {n1}
  MaxWrites = 4
  MaxBulk = 2
  NoRow = NoRow
  NoTag = NoTag
  NoRequest = NoRequest
CHECK_DEADLOCK FALSE
INVARIANT ListShowsMembers
