SPECIFICATION DmaSpec
CONSTANTS
  None = None
  QueueNum = 4
  IdxMod = 8
  h1 = h1
  h2 = h2
  Heads <- MCHeads
  Requests <- MCRequests
  DiskUnits = 3
  EV = 2
  CK = 2
  RK = 4
  Interior = 1
  ZK = 4
  INTERVAL = 1
  MaxQueued = 1
  TouchLinks = TRUE
INVARIANTS
  CompletionsSignalled
  
  
  UnreadSignalled
  CursorsAgree
  
PROPERTIES
  ServedInOrder
