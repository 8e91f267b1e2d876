SPECIFICATION SwapSpec
CONSTANTS
  MEM_PAGE_SIZE = 2
  Sizes = {16, 32, 48, 64}
INVARIANTS
  PageInSwap
