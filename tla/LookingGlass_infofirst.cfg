SPECIFICATION Spec
CONSTANTS
  Sessions = {s1}
  Clients = {c1}
  Events = {e1}
  SessionInfo = SessionInfo
  NoSession = NoSession
  Commands = {}
  BufferCap = 2
INVARIANT SessionInfoFirst
CHECK_DEADLOCK FALSE
