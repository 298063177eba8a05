SPECIFICATION Spec
CONSTANTS
  a = a
  b = b
  Tags = {a, b}
  Callers = {c1, c2}
  Paths <- MCPaths
  Uses <- MixedUses
  Lists <- MixedLists
  Instances = {5, 300}
  FirstSymbol <- MCSymbol
  c1 = c1
  c2 = c2
  Kinds <- MCKinds
  NewFirmware = TRUE
  ConnectionSize = 530
  MaxRounds = 1
  Cuts = {0, 1}
  MaxCalls = 1
  MaxUpdates = 1
  MaxDownloads = 1
INVARIANTS RelistRefreshes WriteMapReports WriteMapWhole WriteMultiWhole AttributeReports ReadMultiReturns EveryFieldSet RequestsFit OwnData NilMeansDone
CHECK_DEADLOCK FALSE
