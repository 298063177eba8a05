SPECIFICATION Spec
CONSTANTS
  Shapes <- MCShapes
  Changes = {7}
  Exchanges <- MixedExchanges
  Builds <- MixedBuilds
  Routes <- MixedRoutes
  Identities <- MCIdentities
INVARIANTS AnyStructRead AnyStructWritten AnyWriteRead AnyPathRead RouteReturns
CHECK_DEADLOCK FALSE
