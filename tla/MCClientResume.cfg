SPECIFICATION Spec
CONSTANTS
  Users = {u1}
  Keepers = {k1, k2}
  Sockets = {s1, s2}
  Calls = {"connect", "disconnect"}
  MaxCalls = 3
  MaxTicks = 1
  MaxPend = 3
  AutoConnect = TRUE
  LargeConn = TRUE
  KeepAliveConfigured = TRUE
  Free = Free
  None = None
  Stale = Stale
PROPERTIES ReconnectResumesKeepAlive
CHECK_DEADLOCK FALSE
