SPECIFICATION ProcessorSpec
CONSTANTS
  Parts = {"bits"}
  Interrupts = {9}
  StatusWrites <- MCStatusWrites
  Q = 8
  BlockMax = 3
  ChainMax = 26
  MaxMissed = 2
  Harts = {h1, h2}
  MemWords = 3
  XLEN = 8
  Ram <- MCRam
  GprValues = {0, 9, 135, 255}
  Offsets <- MCOffsets
  Pc = 40
  Operands <- MCOperands
INVARIANT ImmediateFormsAgree
