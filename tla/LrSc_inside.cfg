SPECIFICATION LrScSpec
CONSTANTS
  Harts = {h1, h2}
  MemWords = 3
INVARIANTS
  StoreInsideClears
