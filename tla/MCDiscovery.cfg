SPECIFICATION FairSpec
CONSTANTS
  ctl = ctl  p1 = p1  a = a  b = b  c1 = c1  d = d  e = e  udt = udt  timer = timer
  Callers = {k1}
  Controller = ctl
  Programs = {p1}
  Templates = {udt, timer}
  Symbols <- Controllers
  Members <- Structures
  MinPage = 2
  MaxRounds = 2
  MaxCalls = 2
  MaxFaults = 2
  MaxDownloads = 1
  None = None
INVARIANTS Complete TypesWhole
PROPERTIES ListingEnds
CHECK_DEADLOCK FALSE
