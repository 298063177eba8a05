SPECIFICATION FairSpec
CONSTANTS
  Handlers = {h1, h2}
  Conns = {c1, c2}
  Ids = {i1, i2}
  Paths = {p1, p2}
  Routed = {p1}
  MaxSeq = 1
  DistinctIds = TRUE
  None = None
INVARIANTS TypeOK TableExact ServedByOwner
PROPERTIES TableIsASet OutputsOwned OnlyOwnersClose ProducersStop
CHECK_DEADLOCK FALSE
