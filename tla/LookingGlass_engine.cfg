SPECIFICATION EmitFairSpec
CONSTANTS
  Sessions = {s1}
  Clients = {c1}
  Events = {e1, e2}
  SessionInfo = SessionInfo
  NoSession = NoSession
  Commands = {"paused"}
  BufferCap = 3
INVARIANTS TypeOK NoGap NoBroadcastOnClosedChannel NoEarlyDrop
PROPERTIES KeepsFeed AddEventEnds EventReachesWatcher DeadClientIsReleased
CHECK_DEADLOCK FALSE
