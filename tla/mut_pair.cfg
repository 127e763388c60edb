SPECIFICATION Spec
CONSTANTS
  a = a
  b = b
  k1 = k1
  k2 = k2
  t1 = t1
  t2 = t2
  w1 = w1
  w2 = w2
  none = none
  gone = gone
  x = x
  y = y
  z = z
  Tasks = {k1}
  Ops = {a, b}
  Targets = {t1, t2}
  Workers = {w1}
  TaskOf <- SameTaskOf
  TargetOf <- PairTargetOf
  Kind <- WriteDelete
  Payload <- Ab
  Bytes = {gone, x, y, z}
  Absent = gone
  InitialBytes <- TwoFiles
  ForeignBytes = {x}
  None = none
  Breakable = {}
  Driven = {b}
  Deletions = {t2}
  MaxResolutions <- PairDecided
  MaxForeignEdits = 0
  MaxCrashes = 1
CHECK_DEADLOCK FALSE
INVARIANTS AuthorityHolds ClosedTaskOwnsNothing VerifiedStageSettled EffectAccounted
PROPERTIES ImplementsPromise
