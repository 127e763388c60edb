SPECIFICATION Spec
CONSTANTS
  a = a
  b = b
  k1 = k1
  k2 = k2
  r1 = r1
  r2 = r2
  gone = gone
  x = x
  y = y
  z = z
  N = 2
  Tasks = {k1}
  Sessions = {r1}
  Ops = {a}
  Manifest <- CreateManifest
  SourceOf <- SoloSource
  TaskOf <- CreateTaskOf
  TargetOf <- CreateTargetOf
  Payload <- CreatePayload
  Bytes = {gone, x, y, z}
  Absent = gone
  InitialBytes <- CreateFiles
  ForeignBytes = {}
  None = "none"
  Abortable = {}
  Driven = {}
  Breakable = {}
  FailingWrites = {}
  MaxForeignEdits = 0
  MaxCrashes = 1
  MaxTimeouts = 0
CHECK_DEADLOCK FALSE
INVARIANTS ClosedOwnsNothing
