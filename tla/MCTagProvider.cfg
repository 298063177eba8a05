SPECIFICATION Spec
CONSTANTS
  a = a  b = b  c = c  h1 = h1  h2 = h2  v0 = v0  v1 = v1  v2 = v2
  Handlers = {h1, h2}
  Names <- Order
  Values = {v0, v1, v2}
  Conversion <- Narrowing
  Initial <- Start
  Requests <- Messages
  Absent = Absent
  MaxRequests = 4
INVARIANTS Regular Snapshot CachedInstance
CHECK_DEADLOCK FALSE
