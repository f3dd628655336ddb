SPECIFICATION FairSpec
CONSTANTS
  MachineHarts = 2
  GuestOps = {"reset"}
  EarlyStop = FALSE
INVARIANTS
  NeverAborts
