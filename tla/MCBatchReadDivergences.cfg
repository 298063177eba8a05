SPECIFICATION Spec
CONSTANTS
  Descs <- MCDescs
  N = 3
  ConnectionSize = 504
  MaxRounds = 2
  Cuts = {100, 250}
\* Refuted one by one: TLC stops at the first, so keep only the property
\* whose counterexample is wanted.
INVARIANTS PartialTransfersHandled SuccessFillsMap
