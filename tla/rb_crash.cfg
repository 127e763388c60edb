SPECIFICATION Spec
CONSTANTS
  a = a
  b = b
  k1 = k1
  k2 = k2
  r1 = r1
  r2 = r2
  gone = gone
  x = x
  y = y
  z = z
  N = 3
  Tasks = {k1}
  Sessions = {r1}
  Ops = {a, b}
  Manifest <- SoloManifest
  SourceOf <- SoloSource
  TaskOf <- SoloTaskOf
  TargetOf <- SoloTargetOf
  Payload <- SoloPayload
  Bytes = {gone, x, y, z}
  Absent = gone
  InitialBytes <- SoloFiles
  ForeignBytes = {x, z}
  None = "none"
  Abortable = {a}
  Driven = {a}
  Breakable = {k1}
  FailingWrites = {1}
  MaxForeignEdits = 1
  MaxCrashes = 2
  MaxTimeouts = 0
CHECK_DEADLOCK FALSE
INVARIANTS TypeOK AllOrNothing VerifiedStands
PROPERTIES NothingUnpreservedLost
