SPECIFICATION Spec
CONSTANTS
  Handlers = {h1, h2}
  Conns = {c1, c2, c3}
  Ids = {i1, i2, i3}
  Paths = {p1, p2}
  Routed = {p1}
  MaxSeq = 2
  DistinctIds = FALSE
  None = None
\* Refuted one by one: TLC stops at the first, so keep only the property
\* whose counterexample is wanted.
INVARIANTS GoneLeavesNothing PathFromOwnOpen ReplyAddressed
CHECK_DEADLOCK FALSE
