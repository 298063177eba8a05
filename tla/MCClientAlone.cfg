SPECIFICATION Spec
CONSTANTS
  Users = {u1}
  Keepers = {k1}
  Sockets = {s1, s2}
  Calls = {"op", "connect", "disconnect", "kacancel"}
  MaxCalls = 3
  MaxTicks = 1
  MaxPend = 2
  AutoConnect = TRUE
  LargeConn = TRUE
  KeepAliveConfigured = TRUE
  Free = Free
  None = None
  Stale = Stale
INVARIANTS TypeOK KeepAliveOwned ConnectedHasSocket CallersGetOwnReply
CHECK_DEADLOCK FALSE
