SPECIFICATION Spec
CONSTANTS
  a = a
  b = b
  p = p
  q = q
  gone = gone
  x = x
  y = y
  z = z
  Ops = {a, b}
  Targets = {1, 2}
  TargetOf <- PairTargetOf
  Payload <- PairPayload
  Bytes = {gone, x, y, z}
  Absent = gone
  InitialBytes <- PairFiles
  Deletions = {2}
  Edits <- PairEdits
  Coordinators = {p}
  None = "none"
  Begun = FALSE
  Driven <- PairDriven
  Direct = {a, b}
  Reported = {"FAILED_VERIFICATION", "DONE"}
  MaxResolutions = 2
  Once = {b}
  MaxForeignEdits = 1
  MaxCrashes = 0
  MaxPreparations = 1
CHECK_DEADLOCK FALSE
PROPERTIES OpenFateNeverVerified
