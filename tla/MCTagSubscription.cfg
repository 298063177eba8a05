SPECIFICATION FairSpec
CONSTANTS
  Tags = {t1, t2}
  Batches <- TwoBatches
  BatchesPerTick = 1
  Data = {v1, v2}
  EmitInitial = TRUE
  ValueBuffer = 1
  ErrorBuffer = 1
  Multi = TRUE
  Stoppers = {s1}
  Arrays = {}
  Bits = {}
  Structs = {t2}
  Declared = Declared
  Err = Err
  MaxChanges = 1
  t1 = t1
  t2 = t2
PROPERTIES StopEnds UpdatesArrive
CHECK_DEADLOCK FALSE
