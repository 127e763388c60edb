SPECIFICATION Spec
CONSTANTS
  p = p
  q = q
  r = r
  x = x
  y = y
  z = z
  gone = gone
  None = None
  Callers = {p, q, r}
  Cli = {r}
  Targets = {1, 2}
  Bytes = {x, y, z, gone}
  Absent = gone
  InitialBytes <- Files
  ForeignBytes = {z}
  Payload = y
  MaxEdits = 1
  MaxFaults = 2
SYMMETRY CallerSymmetry
CHECK_DEADLOCK FALSE
INVARIANTS OriginalKept RunningUntouched
