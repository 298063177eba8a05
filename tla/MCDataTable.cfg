SPECIFICATION Spec
CONSTANTS
  t1 = t1
  t2 = t2
  t3 = t3
  Tags = {t1, t2, t3}
  Size <- Sizes
  Undecoded = {t1}
  CountSize = 256
  Renumbers = FALSE
  AddAfterRemove = FALSE
  MaxTags = 3
  MaxBatches = 3
  MaxLost = 1
INVARIANTS BufferMatches BatchesHeld
PROPERTIES OwnValues RemovesOwn
SYMMETRY Symmetric
