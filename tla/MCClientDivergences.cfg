SPECIFICATION Spec
CONSTANTS
  Users = {u1, u2}
  Keepers = {k1, k2}
  Sockets = {s1, s2}
  Calls = {"op", "connect", "disconnect"}
  MaxCalls = 2
  MaxTicks = 1
  MaxPend = 3
  AutoConnect = TRUE
  LargeConn = TRUE
  KeepAliveConfigured = TRUE
  Free = Free
  None = None
  Stale = Stale
\* Refuted one by one: TLC stops at the first, so keep only the property
\* whose counterexample is wanted.
INVARIANTS DisconnectIsSafe ConsideredDisconnected
PROPERTIES ClosedRegardless
CHECK_DEADLOCK FALSE
