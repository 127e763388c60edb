SPECIFICATION FairSpec
CONSTANTS
  None = None
  Callers = {c1, c2}
  MaxFaults = 3
INVARIANTS TypeOK RunsOnce NoFalseDamage
PROPERTIES CancelIsFinal ConfirmedStays InterruptedIsRepaired
CHECK_DEADLOCK FALSE
