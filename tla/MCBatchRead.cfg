SPECIFICATION FairSpec
CONSTANTS
  Descs <- MCDescs
  N = 4
  ConnectionSize = 504
  MaxRounds = 2
  Cuts = {100, 250}
INVARIANTS OwnWholeValues RequestsFit
PROPERTIES Returns
