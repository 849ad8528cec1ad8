SPECIFICATION Spec
CONSTANTS
  Urls = {u1}
  Sockets = {w1, w2, w3}
  None = None
  MaxAttempts = 2
  MaxRenders = 3
INVARIANT DisconnectedWhenUnmounted
CHECK_DEADLOCK FALSE
