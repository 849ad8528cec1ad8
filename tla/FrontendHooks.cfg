SPECIFICATION AllSpec
CONSTANTS
  Urls = {u1, u2}
  Sockets = {w1, w2, w3, w4, w5}
  None = None
  MaxAttempts = 2
  MaxRenders = 3
  MaxRuns = 2
  MaxIntervals = 3
  MaxPolls = 2
  MaxLogins = 3
  Protocols = {p, q}
  RegistryHooks = {h}
  DirectHooks = {d}
  Nothing = Nothing
  MaxLoads = 3
  MaxChanges = 3
INVARIANTS TypeOK ConnectedMeansOpen RetriesBounded ExchangesOwnCode LoadedOnce
PROPERTIES GivesUp NoPollAfterAbort PollingStops LoadingEnds
CHECK_DEADLOCK FALSE
