SPECIFICATION FairSpec
CONSTANTS
  a = a
  b = b
  k1 = k1
  k2 = k2
  r1 = r1
  r2 = r2
  gone = gone
  x = x
  y = y
  z = z
  N = 2
  Tasks = {k1, k2}
  Sessions = {r1, r2}
  Ops = {a, b}
  Manifest <- RivalManifest
  SourceOf <- RivalSource
  TaskOf <- RivalTaskOf
  TargetOf <- RivalTargetOf
  Payload <- RivalPayload
  Bytes = {gone, x, y, z}
  Absent = gone
  InitialBytes <- RivalFiles
  ForeignBytes = {}
  None = "none"
  Abortable = {}
  Driven = {}
  Breakable = {}
  FailingWrites = {}
  MaxForeignEdits = 0
  MaxCrashes = 2
  MaxTimeouts = 1
CHECK_DEADLOCK FALSE
PROPERTIES ImplementsPromise OwnershipEndsByOwner RestoresEnd
