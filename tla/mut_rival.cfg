SPECIFICATION Spec
CONSTANTS
  a = a
  b = b
  k1 = k1
  k2 = k2
  t1 = t1
  t2 = t2
  w1 = w1
  w2 = w2
  none = none
  gone = gone
  x = x
  y = y
  z = z
  Tasks = {k1, k2}
  Ops = {a, b}
  Targets = {t1}
  Workers = {w1, w2}
  TaskOf <- RivalTaskOf
  TargetOf <- SameTargetOf
  Kind <- WriteDelete
  Payload <- Ab
  Bytes = {gone, x, y, z}
  Absent = gone
  InitialBytes <- OneFile
  ForeignBytes = {x}
  None = none
  Breakable = {k1}
  Driven = {}
  Deletions = {}
  MaxResolutions <- Undecided
  MaxForeignEdits = 0
  MaxCrashes = 1
SYMMETRY WorkerSymmetry
CHECK_DEADLOCK FALSE
INVARIANTS TypeOK AuthorityHolds ReleasedBasisNeverReowned
PROPERTIES NoLostUpdate
