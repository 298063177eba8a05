SPECIFICATION Spec
CONSTANTS
  Subs = {s1, s2}
  Stoppers = {p1, p2}
  ValueBuffer = 2
  ErrorBuffer = 1
  MaxSeq = 2
  MaxFaults = 1
  None = None
\* Refuted one by one: TLC stops at the first, so keep only the property
\* whose counterexample is wanted.
INVARIANTS ValuesClosedOnReturn InOrder RefusedLeavesNothing SecondStopIsSafe
CHECK_DEADLOCK FALSE
