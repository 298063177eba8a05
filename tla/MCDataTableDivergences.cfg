SPECIFICATION Spec
CONSTANTS
  t1 = t1
  t2 = t2
  t3 = t3
  Tags = {t1, t2, t3}
  Size <- Sizes
  Undecoded = {t1}
  CountSize = 256    \* 2 for SynchedAreHeld
  Renumbers = TRUE
  AddAfterRemove = TRUE
  MaxTags = 4
  MaxBatches = 3
  MaxLost = 1
\* Refuted one by one: TLC stops at the first, so keep only the property
\* whose counterexample is wanted.
INVARIANTS SynchedAreHeld SentOnce CloseFrees TypedAsRead
PROPERTIES EmptiedSkipped OwnValues RemovesOwn
