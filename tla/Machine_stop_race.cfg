SPECIFICATION FairSpec
CONSTANTS
  MachineHarts = 2
  GuestOps = {}
  EarlyStop = TRUE
INVARIANTS
  StopJoins
