SPECIFICATION DevicesSpec
CONSTANTS
  NumHarts = 1
  MaxSources = 3
  WordBits = 2
  NumIrqs = 3
  PrioLimit = 3
  Route <- MCRoute
  FIFO = 2
  MaxBytes = 3
  RUN_DELAY = 2
  SIZE = 2
  QUEUE = 2
  Reports = 4
  MaxTime = 1
  Never = 99
  MachineHarts = 2
  GuestOps = {"poweroff", "reset"}
  EarlyStop = TRUE
INVARIANTS
  InterruptExact
  ScanFindsBest
  StatusCurrent
  BytesInOrder
  CompletionSignalled
  NoReportStranded
  
  TimerBitsExact
  HandleIsPrivate
