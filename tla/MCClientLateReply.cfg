SPECIFICATION Spec
CONSTANTS
  Users = {u1, u2}
  Keepers = {}
  Sockets = {s1, s2}
  Calls = {"op", "connect", "disconnect"}
  MaxCalls = 2
  MaxTicks = 0
  MaxPend = 3
  AutoConnect = TRUE
  LargeConn = TRUE
  KeepAliveConfigured = FALSE
  Free = Free
  None = None
  Stale = Stale
INVARIANTS OneResponsePerMessage
CHECK_DEADLOCK FALSE
