SPECIFICATION FairSpec
CONSTANTS
  MachineHarts = 2
  GuestOps = {"poweroff"}
  EarlyStop = FALSE
INVARIANTS
  NeverAborts
  DestroyedLast
PROPERTIES
  StopStops
