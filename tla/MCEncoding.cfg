SPECIFICATION Spec
CONSTANTS
  Shapes <- MCShapes
  Changes = {7}
  Exchanges <- MCExchanges
  Builds <- MCBuilds
  Routes <- MCRoutes
  Identities <- MCIdentities
INVARIANTS StructKept WrittenIsRead PathsRead IdentityKept
CHECK_DEADLOCK FALSE
