----------------------------- MODULE SwapLayout -----------------------------
(***************************************************************************)
(* Where the DOS build keeps the guest's RAM: mem_init divides it among    *)
(* nSwapFiles files and derives from the size of a file, bit by bit, the   *)
(* shift and the mask by which _lookupSwapFile and _storePage later split  *)
(* an address into a file and a position.  PagedMemory takes it that every *)
(* page has a place of its own in the swap files; here that is checked.    *)
(***************************************************************************)
EXTENDS Naturals

CONSTANTS MEM_PAGE_SIZE,
          Sizes              \* the RAM sizes that --mem-size may give

\* main gives a multiple of 1 MB, and of that at most 1024; MEM_PAGE_SIZE is 2048 or 4096
ASSUME SwapAssumption ==
  /\ MEM_PAGE_SIZE \in Nat \ {0}
  /\ \A s \in Sizes : s \in Nat \ {0} /\ s % (8 * MEM_PAGE_SIZE) = 0 /\ s <= 2 ^ 30

MAX_SWAP_FILES == 8

VARIABLES size, nSwapFiles,            \* mem_init's arguments
          n,                           \* the loop's variable
          filePosMask, fileNoShift,
          ready,                       \* mem_init has returned true
          a                            \* the page the guest accesses

swapVars == <<size, nSwapFiles, n, filePosMask, fileNoShift, ready, a>>

ALIGN_UP(x, al) == ((x + al - 1) \div al) * al

nFileSize == ALIGN_UP(size \div nSwapFiles, MEM_PAGE_SIZE)

\* the only numbers of files that get past the loop over powers of two
SwapInit ==
  /\ size \in Sizes
  /\ nSwapFiles \in {1, 2, 4, MAX_SWAP_FILES}
  /\ n = nFileSize
  /\ filePosMask = 0 /\ fileNoShift = 0
  /\ ready = FALSE
  /\ a = 0

\* Mutant: the mask is one bit short of the shift.
MutantTrailingZero ==
  /\ ~ready /\ n % 2 = 0
  /\ n' = n \div 2
  /\ filePosMask' = IF fileNoShift = 0 THEN 0 ELSE filePosMask * 2 + 1
  /\ fileNoShift' = fileNoShift + 1
  /\ UNCHANGED <<size, nSwapFiles, ready, a>>

\* Mutant: the shift is one bit short of the mask.
MutantTrailingZero_short ==
  /\ ~ready /\ n % 2 = 0
  /\ n' = n \div 2
  /\ filePosMask' = filePosMask * 2 + 1
  /\ fileNoShift' = IF filePosMask = 0 THEN 0 ELSE fileNoShift + 1
  /\ UNCHANGED <<size, nSwapFiles, ready, a>>

\* for(n = nFileSize; (n & 1) == 0; n >>= 1) ...
TrailingZero ==
  /\ ~ready /\ n % 2 = 0
  /\ n' = n \div 2
  /\ filePosMask' = filePosMask * 2 + 1
  /\ fileNoShift' = fileNoShift + 1
  /\ UNCHANGED <<size, nSwapFiles, ready, a>>

FilesOpened ==
  /\ ~ready /\ n % 2 # 0
  /\ ready' = TRUE
  /\ UNCHANGED <<size, nSwapFiles, n, filePosMask, fileNoShift, a>>

Access ==
  /\ ready
  /\ \E p \in 0 .. (size \div MEM_PAGE_SIZE) - 1 : a' = p * MEM_PAGE_SIZE
  /\ UNCHANGED <<size, nSwapFiles, n, filePosMask, fileNoShift, ready>>

SwapNext == TrailingZero \/ FilesOpened \/ Access

SwapSpec == SwapInit /\ [][SwapNext]_swapVars

\* The index into swapFiles, and page->addr & filePosMask.
_lookupSwapFile(pageAddr) == pageAddr \div 2 ^ fileNoShift
FilePos(pageAddr) == pageAddr % (filePosMask + 1)

-----------------------------------------------------------------------------
\* "Swap file contains the entire RAM of the guest VM" (README.md:46): each
\* page that _storePage or _loadPage is called with lies in a file that
\* mem_init has opened, and within the size that mem_init means to give it.
PageInSwap ==
  ready => /\ _lookupSwapFile(a) < nSwapFiles
           /\ FilePos(a) + MEM_PAGE_SIZE <= nFileSize

\* No two pages of the guest share a place in the swap files, so that storing
\* one never overwrites another.
PagesApart ==
  ready => \A p \in 0 .. (size \div MEM_PAGE_SIZE) - 1 :
    LET b == p * MEM_PAGE_SIZE
    IN (_lookupSwapFile(b) = _lookupSwapFile(a) /\ FilePos(b) = FilePos(a)) => a = b
=============================================================================
