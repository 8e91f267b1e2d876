---------------------------- MODULE PagedMemory ----------------------------
(***************************************************************************)
(* The RAM device of the DOS build (memory.c under CONFIG_DOS): NFrames    *)
(* page frames in conventional memory cache the guest's NPages pages, and  *)
(* the swap files hold the rest.  _lookupPage finds the frame of a page,   *)
(* or evicts the least recently used one: it stores it if it is dirty and  *)
(* loads the wanted page over it.  A failed store or load is only logged   *)
(* and the frame is used all the same.                                     *)
(*                                                                         *)
(* The code's address is split as MEM_PAGE_ADDR_MASK and                   *)
(* MEM_PAGE_OFFSET_MASK split it, into a page number and an offset.        *)
(***************************************************************************)
EXTENDS Naturals

CONSTANTS NFrames,     \* MEM_PAGES
          NPages,      \* dev.size / MEM_PAGE_SIZE
          PageSize,    \* MEM_PAGE_SIZE
          Value,       \* what a byte may hold
          Zero,        \* what _fmemset leaves in a fresh frame
          MaxAccess,   \* bound: the longest access the callers make
          IOMayFail    \* whether DOS may fail a seek or cut a transfer short

\* MEM_PAGES is 80 or 160, and RAM is at least 1 MB: more pages than frames.
ASSUME PagedAssumption ==
  /\ NFrames \in Nat /\ NFrames >= 2
  /\ NPages \in Nat /\ NPages >= NFrames
  /\ PageSize \in Nat /\ PageSize >= 1
  /\ MaxAccess \in Nat /\ MaxAccess >= 1
  /\ Zero \in Value
  /\ IOMayFail \in BOOLEAN

VARIABLES addr,      \* pages[f].addr, as a page number
          dirty,     \* pages[f].dirty
          bytes,     \* pages[f].data
          pos,       \* f's place on the list from lruListHead (1) on; see LruList
          swap,      \* the swap files' contents, by page
          req,       \* the mem_* call in progress, its locals included
          phase,     \* "up", in "destroy" or "closed"
          stored,    \* mem_destroy's i
          mem,       \* history: what a flat memory would hold
          lost       \* history: the pages a failed transfer may have damaged

frameVars == <<addr, dirty, bytes, pos, swap>>
pagedVars == <<addr, dirty, bytes, pos, swap, req, phase, stored, mem, lost>>

Frame  == 0 .. NFrames - 1
Page   == 0 .. NPages - 1
Offset == 0 .. PageSize - 1
PageData == [Offset -> Value]

Idle == [op |-> "none"]

-----------------------------------------------------------------------------
\* A transfer of one page that stopped after n bytes: the first n bytes of old
\* are overwritten.  A failed seek is a transfer of no bytes.
Transfer(n, new, old) == [o \in Offset |-> IF o < n THEN new[o] ELSE old[o]]

\* The byte counts _dosFWrite and _dosFRead may answer.
Transferred == IF IOMayFail THEN 0 .. PageSize ELSE {PageSize}

\* Mutant: every frame grows older, also the ones behind f.
Mutant_swapLruHead(f) == [g \in Frame |-> IF g = f THEN 1 ELSE pos[g] + 1]

\* The list after f has become its head; LruList shows that the pointers agree.
_swapLruHead(f) ==
  [g \in Frame |-> IF g = f THEN 1 ELSE IF pos[g] < pos[f] THEN pos[g] + 1 ELSE pos[g]]

\* Mutant: the page is never written back.
Mutant_storePage(a, d, n) == swap

_storePage(a, d, n) == [swap EXCEPT ![a] = Transfer(n, d, @)]

\* f after page p was read over it: only a full transfer changes its address
\* and marks it clean.
_loadPage(sw, p, f, n) ==
  [frame |-> f,
   addr  |-> IF n = PageSize THEN p ELSE addr[f],
   dirty |-> IF n = PageSize THEN FALSE ELSE dirty[f],
   bytes |-> Transfer(n, sw[p], bytes[f]),
   swap  |-> sw]

\* The walk from the head finds the first frame that bears p's address.
Found(p, f) == addr[f] = p /\ \A g \in Frame : addr[g] = p => pos[f] <= pos[g]

Hit(p) ==
  {[frame |-> f, addr |-> p, dirty |-> dirty[f], bytes |-> bytes[f], swap |-> swap,
    lost |-> {}] : f \in {g \in Frame : Found(p, g)}}

\* The tail f is evicted: s bytes of it are stored, l bytes of p are loaded.
\* Its own page is suspect after either transfer fell short, and p after the
\* load did, because the caller goes on to use f as if it were p.
Evict(p, f, s, l) ==
  LET sw == IF dirty[f] THEN _storePage(addr[f], bytes[f], s) ELSE swap
      r  == _loadPage(sw, p, f, l)
  IN [frame |-> f, addr |-> r.addr, dirty |-> r.dirty, bytes |-> r.bytes, swap |-> sw,
      lost |-> {q \in Page : \/ q = addr[f] /\ dirty[f] /\ s < PageSize
                             \/ q \in {addr[f], p} /\ l < PageSize}]

Miss(p) ==
  {Evict(p, f, s, l) : f \in {g \in Frame : /\ pos[g] = NFrames
                                            /\ \A h \in Frame : addr[h] # p},
                       s \in Transferred, l \in Transferred}

\* The outcomes of looking page p up: the frame used, its new contents, and
\* what became of the swap files.
_lookupPage(p) == Hit(p) \cup Miss(p)

-----------------------------------------------------------------------------
\* mem_init, successful: the swap files' former contents are the RAM's, and
\* page i is loaded into frame i.  A load that fails is not noticed: the frame
\* keeps the zeroes and the address 0 that memset gave it, so a second frame
\* claims page 0.
mem_init ==
  /\ swap \in [Page -> PageData]
  /\ \E n \in [Frame -> Transferred] :
       /\ addr = [f \in Frame |-> IF n[f] = PageSize THEN f ELSE 0]
       /\ bytes = [f \in Frame |-> Transfer(n[f], swap[f], [o \in Offset |-> Zero])]
       /\ lost = {q \in {0} : \E f \in Frame : n[f] # PageSize}
  /\ dirty = [f \in Frame |-> FALSE]
  /\ pos = [f \in Frame |-> f + 1]
  /\ req = Idle
  /\ phase = "up"
  /\ stored = 0
  /\ mem = swap

\* A caller asks for n bytes from offset o of page p on; the bus lets only
\* accesses inside RAM through.
InRam(p, o, n) == p * PageSize + o + n <= NPages * PageSize

Call(op, p, o, n, buf) ==
  /\ phase = "up" /\ req = Idle
  /\ InRam(p, o, n)
  /\ req' = [op |-> op, page0 |-> p, off0 |-> o, page |-> p, off |-> o,
             size |-> n, done |-> 0, buf |-> buf, equal |-> TRUE]
  /\ UNCHANGED <<frameVars, phase, stored, mem, lost>>

\* min_size_t(MEM_PAGE_SIZE - pageOffset, size - done)
ChunkSize == IF PageSize - req.off < req.size - req.done
             THEN PageSize - req.off ELSE req.size - req.done

\* Mutant: the page address is not carried into.
MutantAdvance ==
  [req EXCEPT !.done = @ + ChunkSize,
              !.off  = IF req.off + ChunkSize = PageSize THEN 0 ELSE @ + ChunkSize]

\* done += chunkSize; localAddr += chunkSize
Advance ==
  [req EXCEPT !.done = @ + ChunkSize,
              !.page = IF req.off + ChunkSize = PageSize THEN @ + 1 ELSE @,
              !.off  = IF req.off + ChunkSize = PageSize THEN 0 ELSE @ + ChunkSize]

\* The rest of the loop body, given the outcome r of _lookupPage and what the
\* body leaves in the frame.
UseFrame(r, d, b) ==
  /\ addr' = [addr EXCEPT ![r.frame] = r.addr]
  /\ dirty' = [dirty EXCEPT ![r.frame] = d]
  /\ bytes' = [bytes EXCEPT ![r.frame] = b]
  /\ pos' = _swapLruHead(r.frame)
  /\ swap' = r.swap
  /\ lost' = lost \cup r.lost

InLoop(op) == phase = "up" /\ req.op = op /\ req.done < req.size

mem_read ==
  /\ InLoop("read")
  /\ \E r \in _lookupPage(req.page) :
       /\ UseFrame(r, r.dirty, r.bytes)
       /\ req' = [Advance EXCEPT !.buf =
            [i \in 0 .. req.size - 1 |->
               IF req.done <= i /\ i < req.done + ChunkSize
               THEN r.bytes[req.off + (i - req.done)] ELSE @[i]]]
  /\ UNCHANGED <<phase, stored, mem>>

\* The chunk of the caller's buffer copied into the bytes d of a page.
Copied(d) ==
  [o \in Offset |-> IF req.off <= o /\ o < req.off + ChunkSize
                    THEN req.buf[req.done + (o - req.off)] ELSE d[o]]

\* Mutant: the frame written to is not marked dirty.
Mutant_mem_write ==
  /\ InLoop("write")
  /\ \E r \in _lookupPage(req.page) : UseFrame(r, r.dirty, Copied(r.bytes))
  /\ mem' = [mem EXCEPT ![req.page] = Copied(@)]
  /\ req' = Advance
  /\ UNCHANGED <<phase, stored>>

mem_write ==
  /\ InLoop("write")
  /\ \E r \in _lookupPage(req.page) : UseFrame(r, TRUE, Copied(r.bytes))
  /\ mem' = [mem EXCEPT ![req.page] = Copied(@)]
  /\ req' = Advance
  /\ UNCHANGED <<phase, stored>>

\* _fmemcmp of one chunk; a difference leaves the loop.
mem_cmp ==
  /\ InLoop("cmp")
  /\ \E r \in _lookupPage(req.page) :
       /\ UseFrame(r, r.dirty, r.bytes)
       /\ req' = IF Copied(r.bytes) = r.bytes THEN Advance
                 ELSE [req EXCEPT !.equal = FALSE, !.done = req.size]
  /\ UNCHANGED <<phase, stored, mem>>

\* The loop is over: the call returns.
Return ==
  /\ phase = "up" /\ req # Idle
  /\ req.done = req.size
  /\ req' = Idle
  /\ UNCHANGED <<frameVars, phase, stored, mem, lost>>

\* mem_destroy writes every frame back, dirty or not, and closes the files.
mem_destroy ==
  /\ phase = "up" /\ req = Idle
  /\ phase' = "destroy"
  /\ UNCHANGED <<frameVars, req, stored, mem, lost>>

DestroyFrame ==
  /\ phase = "destroy" /\ stored < NFrames
  /\ \E n \in Transferred :
       /\ swap' = _storePage(addr[stored], bytes[stored], n)
       /\ lost' = IF n = PageSize THEN lost ELSE lost \cup {addr[stored]}
  /\ stored' = stored + 1
  /\ phase' = IF stored' = NFrames THEN "closed" ELSE phase
  /\ UNCHANGED <<addr, dirty, bytes, pos, req, mem>>

-----------------------------------------------------------------------------
Buffer(n) == [0 .. n - 1 -> Value]

CallRead == \E p \in Page, o \in Offset, n \in 1 .. MaxAccess :
              Call("read", p, o, n, [i \in 0 .. n - 1 |-> Zero])
CallWrite == \E p \in Page, o \in Offset, n \in 1 .. MaxAccess :
              \E buf \in Buffer(n) : Call("write", p, o, n, buf)
CallCmp == \E p \in Page, o \in Offset, n \in 1 .. MaxAccess :
              \E buf \in Buffer(n) : Call("cmp", p, o, n, buf)

PagedInit == mem_init

PagedNext ==
  \/ CallRead \/ CallWrite \/ CallCmp
  \/ mem_read \/ mem_write \/ mem_cmp \/ Return
  \/ mem_destroy \/ DestroyFrame

PagedSpec == PagedInit /\ [][PagedNext]_pagedVars

-----------------------------------------------------------------------------
Request == [op : {"read", "write", "cmp"}, page0 : Page, off0 : Offset,
            page : 0 .. NPages, off : Offset, size : 1 .. MaxAccess,
            done : 0 .. MaxAccess, buf : UNION {Buffer(n) : n \in 1 .. MaxAccess},
            equal : BOOLEAN]

\* The call in progress stays inside RAM: what is left of it starts at
\* (page, off).
RequestOK ==
  \/ req = Idle
  \/ /\ req \in Request
     /\ req.buf \in Buffer(req.size)
     /\ req.done <= req.size
     /\ req.done < req.size => InRam(req.page, req.off, req.size - req.done)

\* Every variable of the paging code holds a value of its C type: in
\* particular the list position of a frame never leaves 1 .. MEM_PAGES.
PagedTypeOK ==
  /\ addr \in [Frame -> Page]
  /\ dirty \in [Frame -> BOOLEAN]
  /\ bytes \in [Frame -> PageData]
  /\ pos \in [Frame -> 1 .. NFrames]
  /\ swap \in [Page -> PageData]
  /\ mem \in [Page -> PageData]
  /\ lost \in SUBSET Page
  /\ phase \in {"up", "destroy", "closed"}
  /\ stored \in 0 .. NFrames
  /\ RequestOK

\* What the guest would read from page p: the frame that bears it, or swap.
View(p) == IF \E f \in Frame : addr[f] = p
           THEN bytes[CHOOSE f \in Frame : Found(p, f)] ELSE swap[p]

\* Whatever sequence of hits, evictions and write-backs _lookupPage goes
\* through, a page that no failed seek, read or write has touched reads as a
\* flat memory would: the damage of a failed transfer stays in the evicted and
\* the requested page.
Containment == \A p \in Page \ lost : View(p) = mem[p]

\* After mem_destroy the swap files hold the guest's RAM, except for the pages
\* a failed transfer damaged.
DestroyFlushes == phase = "closed" => \A p \in Page \ lost : swap[p] = mem[p]

(***************************************************************************)
(* Why Containment is inductive: the pages that are not lost are borne by  *)
(* at most one frame, which is right about them; a clean frame agrees with *)
(* swap, so that it may be dropped; and what is in no frame is in swap.    *)
(***************************************************************************)
BorneOnce == \A f, g \in Frame : addr[f] = addr[g] /\ addr[f] \notin lost => f = g
FrameRight == \A f \in Frame : addr[f] \notin lost => bytes[f] = mem[addr[f]]
CleanRight ==
  \A f \in Frame : ~dirty[f] /\ addr[f] \notin lost => bytes[f] = swap[addr[f]]
SwapRight ==
  \A p \in Page \ lost : (\A f \in Frame : addr[f] # p) => swap[p] = mem[p]

\* The frames mem_destroy has stored are in swap.
StoredRight ==
  /\ \A f \in Frame : f < stored /\ addr[f] \notin lost => swap[addr[f]] = mem[addr[f]]
  /\ phase = "up" => stored = 0
  /\ phase = "closed" => stored = NFrames

Coherent == BorneOnce /\ FrameRight /\ CleanRight /\ SwapRight
PagedInv == PagedTypeOK /\ Coherent /\ StoredRight

\* The page and offset of the i-th byte of the call in progress.
PageOf(r, i) == r.page0 + (r.off0 + i) \div PageSize
ByteIn(m, r, i) == m[PageOf(r, i)][(r.off0 + i) % PageSize]

\* mem_read hands out the bytes a flat memory holds, also when the access
\* spans pages and its later lookups evict the pages of its earlier ones, and
\* mem_cmp finds equal exactly what is equal.
AnswersRight ==
  /\ req.op = "read" =>
       \A i \in 0 .. req.done - 1 :
         PageOf(req, i) \notin lost => req.buf[i] = ByteIn(mem, req, i)
  /\ (/\ req.op = "cmp" /\ req.done = req.size
      /\ \A i \in 0 .. req.size - 1 : PageOf(req, i) \notin lost) =>
         (req.equal <=> \A i \in 0 .. req.size - 1 : req.buf[i] = ByteIn(mem, req, i))

-----------------------------------------------------------------------------
(***************************************************************************)
(* Without failing transfers the paged memory implements the flat one.  A  *)
(* write takes effect at its call: the bytes still to be copied are read   *)
(* from the caller's buffer.                                               *)
(***************************************************************************)
FlatData ==
  [a \in 0 .. NPages * PageSize - 1 |->
     LET i == a - (req.page0 * PageSize + req.off0) IN
       IF req.op = "write" /\ a >= req.page0 * PageSize + req.off0
            /\ i \in req.done .. req.size - 1
       THEN req.buf[i]
       ELSE View(a \div PageSize)[a % PageSize]]

\* A call has its answer when its loop is over.
FlatRet ==
  IF req.op = "read" /\ req.done = req.size
  THEN [op |-> "read", addr |-> req.page0 * PageSize + req.off0, buf |-> req.buf]
  ELSE IF req.op = "cmp" /\ req.done = req.size
  THEN [op |-> "cmp", addr |-> req.page0 * PageSize + req.off0, buf |-> req.buf,
        equal |-> req.equal]
  ELSE Idle

Flat == INSTANCE FlatMemory WITH Size <- NPages * PageSize, data <- FlatData, ret <- FlatRet

\* With transfers that succeed, the frames, the LRU list and the swap files
\* together behave as the one array of bytes that RAM is in the other build.
ImplementsFlat == Flat!FlatSpec
=============================================================================
