SPECIFICATION AccessSpec
CONSTANTS
  AddrMod = 32
  Devices <- Board
  ICACHE_LINE_SIZE = 3
  DCACHE_LINE_SIZE = 2
  Sizes = {1, 2}
  Reach = 31
INVARIANTS
  InDevice
