SPECIFICATION BootSpec
CONSTANTS
  MEM_PAGE_SIZE = 2
  Sizes = {16, 32}
  MEM_PAGES = 2
  OldSizes = {0, 1, 2, 16}
  ImageSizes = {0, 3, 4, 12, 14, 20}
  TextOffsets = {0, 2, 9, 28, 66}
  AddrMod = 64
  DtbSize = 3
  BufSize = 4
  WordSize = 2
  MaxMissed = 1
INVARIANTS
  PageInSwap
  PagesApart
  Released
  SwapFilesWhole
  TreeRight
CHECK_DEADLOCK FALSE
