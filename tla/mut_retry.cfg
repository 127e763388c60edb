SPECIFICATION FairSpec
CONSTANTS
  a = a
  b = b
  k1 = k1
  k2 = k2
  t1 = t1
  t2 = t2
  w1 = w1
  w2 = w2
  none = none
  gone = gone
  x = x
  y = y
  z = z
  Tasks = {k1}
  Ops = {a}
  Targets = {t1}
  Workers = {w1, w2}
  TaskOf <- SoloTaskOf
  TargetOf <- SoloTargetOf
  Kind <- SoloWrite
  Payload <- SoloPayload
  Bytes = {gone, x, y, z}
  Absent = gone
  InitialBytes <- OneFile
  ForeignBytes = {x}
  None = none
  Breakable = {}
  Driven = {}
  Deletions = {}
  MaxResolutions <- SoloDecided
  MaxForeignEdits = 1
  MaxCrashes = 1
PROPERTIES NoBlindRepeat RequestsTerminate LocksReturned
CHECK_DEADLOCK FALSE
