SPECIFICATION CodeModelsSpec
CONSTANTS
  Parts = {"decode", "imm", "ops", "block", "mmu", "cache", "bus"}
  XLEN = 8
  instructions <- init_all_instrs
  Words <- MCWords
  Few <- MCFew
  Pcs = {4, 8}
  MaxGen = 1
  Values <- MCValues
  Imms <- MCImms
  X0 = X0
  r1 = r1
  r2 = r2
  r3 = r3
  Regs <- MCRegs
  Pool = 3
  SnapMax = 3
  MAX_EXITS = 3
  MaxInstrs = 3
  CADENCE = 2
  MaxPc = 8
  Targets = {0, 3}
  Junk = Junk
  Free = Free
  Held = Held
  ta = ta
  tb = tb
  tc = tc
  pageA = pageA
  pageB = pageB
  fetched = fetched
  LEVELS = 3
  SIZE = 2
  W_CREDIT_CAP_PAGES = 2
  W_MAX = 2
  TableVas = {0, 3, 4}
  MachineVas = {13}
  Satps <- MCSatps
  Tables0 <- MCTables
  Edits <- MCEdits
  Ppns <- MCPpns
  Ram <- MCPpns
  CodePages = {13}
  Harts = {1}
  Starts = {ta, tb, tc}
  Pages = {pageA, pageB}
  PageOf <- MCPageOf
  CompileSlot <- MCCompileSlot
  LookupSlot <- MCLookupSlot
  Vas = {fetched}
  Asids = {1, 2}
  Map0 <- MCMap
  Writes <- MCWrites
  Remaps <- MCRemaps
  JitTexts = {1}
  BlockTexts = {1, 2}
  Modes = {"S"}
  CACHE_WAYS = 2
  MEMO_WAYS = 1
  ArenaBlocks = 2
  MaxEpoch = 1
  MaxCodeGen = 2
  MaxChain = 4
  NoEntry = NoEntry
  None = None
  NoPage = NoPage
SYMMETRY Symmetry
INVARIANTS
  DecodingExact
  JitAgrees
  PreciseExit
  
  
  
  NoFreedCode
  
  
  AccessExact
