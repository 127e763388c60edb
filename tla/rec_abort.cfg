SPECIFICATION FairSpec
CONSTANTS
  a = a
  b = b
  p = p
  q = q
  gone = gone
  x = x
  y = y
  z = z
  Ops = {a}
  Targets = {1}
  TargetOf <- LoneTargetOf
  Payload <- LonePayload
  Bytes = {gone, x, y, z}
  Absent = gone
  InitialBytes <- LoneFiles
  Deletions = {}
  Edits <- LoneEdits
  Coordinators = {p}
  None = "none"
  Begun = TRUE
  Driven <- LoneDriven
  Direct = {a}
  Reported = {}
  MaxResolutions = 1
  Once = {}
  MaxForeignEdits = 0
  MaxCrashes = 0
  MaxPreparations = 1
CHECK_DEADLOCK FALSE
PROPERTIES AbortSettles
