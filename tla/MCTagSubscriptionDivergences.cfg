SPECIFICATION Spec
CONSTANTS
  Tags = {t1, t2}
  Batches <- TwoBatches
  BatchesPerTick = 2
  Data = {v1, v2}
  EmitInitial = TRUE
  ValueBuffer = 1
  ErrorBuffer = 1
  Multi = TRUE
  Stoppers = {s1, s2}
  Arrays = {t1}
  Bits = {}
  Structs = {t2}
  Declared = Declared
  Err = Err
  MaxChanges = 1
  t1 = t1
  t2 = t2
\* Refuted one by one: TLC stops at the first, so keep only the property
\* whose counterexample is wanted.
INVARIANTS ReadAsDeclared ErrorsNotFatal ClosedOnReturn InitialWasRead ChangesEmitted StopIsIdempotent
CHECK_DEADLOCK FALSE
