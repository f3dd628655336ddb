SPECIFICATION ProcessorSpec
CONSTANTS
  Parts = {"hart", "cadence", "lrsc", "execute", "bits", "csr", "plic"}
  Interrupts = {9}
  StatusWrites <- MCStatusWrites
  Q = 8
  BlockMax = 3
  ChainMax = 26
  MaxMissed = 2
  Harts = {h1, h2}
  MemWords = 3
  XLEN = 8
  Ram <- MCRam
  GprValues = {0, 9, 135, 255}
  Offsets <- MCOffsets
  Pc = 40
  Operands <- MCOperands
INVARIANTS
  FramesKept
  WakesForTakable
  PollBound
  
  NoLostInterrupt
  InstructionsAgree
  
  
  BitManipAgrees
  CsrConfined
  ReadModifyWriteExact
