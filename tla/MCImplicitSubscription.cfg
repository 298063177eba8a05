SPECIFICATION FairSpec
CONSTANTS
  Subs = {s1, s2}
  Stoppers = {p1, p2}
  ValueBuffer = 1
  ErrorBuffer = 1
  MaxSeq = 1
  MaxFaults = 1
  None = None
INVARIANTS OwnDatagrams StopReleases
PROPERTIES ImplicitStopEnds
CHECK_DEADLOCK FALSE
