SPECIFICATION FairSpec
CONSTANTS
  Steppers = {p, q}
  Ops = {a}
  None = "none"
  MaxSteps = 4
  MaxRecoveries = 1
  MaxFaults = 2
CHECK_DEADLOCK FALSE
INVARIANTS TypeOK HistoryTellsTruth OperatorOnlyIfBlocked EvidenceDurable IntentEventOnce
PROPERTIES IntentsClose
