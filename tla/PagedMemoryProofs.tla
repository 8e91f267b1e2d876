------------------------- MODULE PagedMemoryProofs -------------------------
(***************************************************************************)
(* The paged RAM of the DOS build reads as a flat one outside the pages a  *)
(* failed transfer touched, for every number of frames and pages, every    *)
(* page size and whether or not transfers fail.                            *)
(***************************************************************************)
EXTENDS PagedMemory, TLAPS

\* What a caller of _lookupPage may rely on: the frame bears p and is right
\* about it unless p is lost; no other frame bears a page that is not lost; the
\* page that left the frame is in swap; and swap changed nowhere else.
Looked(p, r) ==
  LET L == lost \cup r.lost IN
    /\ r.frame \in Frame
    /\ r.addr \in Page /\ r.dirty \in BOOLEAN /\ r.bytes \in PageData
    /\ r.swap \in [Page -> PageData]
    /\ r.lost \in SUBSET Page
    /\ r.addr \notin L => r.addr = p
    /\ p \notin L => r.addr = p /\ r.bytes = mem[p]
    /\ p \notin L /\ ~r.dirty => r.bytes = r.swap[p]
    /\ \A f \in Frame \ {r.frame} : r.addr \notin L => addr[f] # r.addr
    /\ \A q \in Page : q # addr[r.frame] => r.swap[q] = swap[q]
    /\ (addr[r.frame] \notin L /\ addr[r.frame] # p)
          => r.swap[addr[r.frame]] = mem[addr[r.frame]]

\* A transfer yields a page, and a full one yields the new contents.
LEMMA TransferType ==
  ASSUME NEW n \in 0 .. PageSize, NEW a \in PageData, NEW b \in PageData
  PROVE  /\ Transfer(n, a, b) \in PageData
         /\ n = PageSize => Transfer(n, a, b) = a
BY PagedAssumption DEF Transfer, PageData, Offset

\* The byte counts are at most a page.
LEMMA TransferredType == Transferred \subseteq 0 .. PageSize
BY PagedAssumption DEF Transferred

\* A hit returns the one frame that bears the page.
LEMMA HitLooked ==
  ASSUME PagedTypeOK, Coherent, NEW p \in Page, NEW r \in Hit(p)
  PROVE  Looked(p, r)
<1>1. PICK f \in Frame :
        /\ addr[f] = p
        /\ r = [frame |-> f, addr |-> p, dirty |-> dirty[f], bytes |-> bytes[f],
                swap |-> swap, lost |-> {}]
  BY DEF Hit, Found
<1>2. /\ r.frame = f /\ r.addr = p /\ r.dirty = dirty[f] /\ r.bytes = bytes[f]
      /\ r.swap = swap /\ r.lost = {}
  BY <1>1
<1>. QED
  BY <1>1, <1>2 DEF Looked, PagedTypeOK, Coherent, BorneOnce, FrameRight, CleanRight

\* A miss saves the evicted page and loads the wanted one, or loses them.
LEMMA MissLooked ==
  ASSUME PagedTypeOK, Coherent, NEW p \in Page, NEW r \in Miss(p)
  PROVE  Looked(p, r)
<1>1. PICK f \in Frame, s \in Transferred, l \in Transferred :
        /\ \A h \in Frame : addr[h] # p
        /\ r = Evict(p, f, s, l)
  BY DEF Miss
<1>. DEFINE sw == IF dirty[f] THEN _storePage(addr[f], bytes[f], s) ELSE swap
            q == addr[f]
            L == lost \cup r.lost
<1>2. /\ r.frame = f
      /\ r.addr = IF l = PageSize THEN p ELSE q
      /\ r.dirty = IF l = PageSize THEN FALSE ELSE dirty[f]
      /\ r.bytes = Transfer(l, sw[p], bytes[f])
      /\ r.swap = sw
      /\ r.lost = {x \in Page : \/ x = q /\ dirty[f] /\ s < PageSize
                                \/ x \in {q, p} /\ l < PageSize}
  BY <1>1 DEF Evict, _loadPage
<1>3. /\ s \in 0 .. PageSize /\ l \in 0 .. PageSize
      /\ q \in Page /\ q # p
      /\ bytes[f] \in PageData /\ swap[q] \in PageData /\ swap[p] \in PageData
      /\ dirty[f] \in BOOLEAN
  BY <1>1, TransferredType DEF PagedTypeOK
<1>4. /\ sw \in [Page -> PageData]
      /\ \A x \in Page : x # q => sw[x] = swap[x]
      /\ dirty[f] => sw[q] = Transfer(s, bytes[f], swap[q])
      /\ ~dirty[f] => sw[q] = swap[q]
  BY <1>3, TransferType DEF _storePage, PagedTypeOK
<1>5. /\ r.bytes \in PageData
      /\ l = PageSize => r.bytes = swap[p]
  BY <1>2, <1>3, <1>4, TransferType
<1>6. /\ l # PageSize => p \in L /\ q \in L
      /\ dirty[f] /\ s # PageSize => q \in L
  BY <1>2, <1>3, PagedAssumption
<1>7. p \notin L => r.addr = p /\ r.bytes = mem[p] /\ r.bytes = r.swap[p]
  <2>1. p \notin lost => swap[p] = mem[p]
    BY <1>1 DEF Coherent, SwapRight
  <2>. QED
    BY <1>2, <1>3, <1>4, <1>5, <1>6, <2>1
<1>8. q \notin L => r.swap[q] = mem[q]
  <2>1. q \notin lost => bytes[f] = mem[q] /\ (~dirty[f] => bytes[f] = swap[q])
    BY DEF Coherent, FrameRight, CleanRight
  <2>2. dirty[f] /\ s = PageSize => sw[q] = bytes[f]
    BY <1>3, <1>4, TransferType
  <2>. QED
    BY <1>2, <1>4, <1>6, <2>1, <2>2
<1>9. r.addr \notin L => r.addr = p
  BY <1>2, <1>6
<1>10. r.lost \in SUBSET Page /\ r.addr \in Page /\ r.dirty \in BOOLEAN
  BY <1>2, <1>3
<1>. QED
  BY <1>1, <1>2, <1>4, <1>5, <1>7, <1>8, <1>9, <1>10, ZenonT(60) DEF Looked

\* Using the frame a lookup returned keeps the memory coherent, if what is
\* left in the frame is what the flat memory then holds.
LEMMA UseFrameCoherent ==
  ASSUME PagedTypeOK, Coherent, NEW p \in Page, NEW r, Looked(p, r),
         NEW d \in BOOLEAN, NEW b \in PageData, NEW m \in PageData,
         UseFrame(r, d, b),
         mem' = [mem EXCEPT ![p] = m],
         p \notin lost' => b = m /\ (~d => b = r.swap[p])
  PROVE  /\ Coherent'
         /\ addr' \in [Frame -> Page] /\ dirty' \in [Frame -> BOOLEAN]
         /\ bytes' \in [Frame -> PageData] /\ pos' \in [Frame -> 1 .. NFrames]
         /\ swap' \in [Page -> PageData] /\ mem' \in [Page -> PageData]
         /\ lost' \in SUBSET Page
<1>. DEFINE f == r.frame
<1>1. /\ f \in Frame /\ r.addr \in Page
      /\ addr' = [addr EXCEPT ![f] = r.addr]
      /\ dirty' = [dirty EXCEPT ![f] = d]
      /\ bytes' = [bytes EXCEPT ![f] = b]
      /\ pos' = _swapLruHead(f)
      /\ swap' = r.swap
      /\ lost' = lost \cup r.lost
  BY DEF UseFrame, Looked
<1>2. /\ addr' \in [Frame -> Page] /\ dirty' \in [Frame -> BOOLEAN]
      /\ bytes' \in [Frame -> PageData]
      /\ swap' \in [Page -> PageData] /\ mem' \in [Page -> PageData]
      /\ lost' \in SUBSET Page
  BY <1>1 DEF Looked, PagedTypeOK
<1>3. pos' \in [Frame -> 1 .. NFrames]
  BY <1>1, PagedAssumption DEF _swapLruHead, PagedTypeOK
<1>4. \A g \in Frame \ {f} : addr'[g] = addr[g] /\ dirty'[g] = dirty[g] /\ bytes'[g] = bytes[g]
  BY <1>1 DEF PagedTypeOK
<1>5. addr'[f] = r.addr /\ dirty'[f] = d /\ bytes'[f] = b
  BY <1>1 DEF PagedTypeOK
<1>6. mem'[p] = m /\ \A q \in Page : q # p => mem'[q] = mem[q]
  BY DEF PagedTypeOK
<1>7. r.addr \notin lost' => r.addr = p /\ \A g \in Frame \ {f} : addr[g] # p
  BY <1>1 DEF Looked
<1>8. p \notin lost' => r.addr = p
  BY <1>1 DEF Looked
<1>9. \A g \in Frame \ {f} : addr[g] \notin lost' => addr[g] # p /\ addr[g] # addr[f]
  BY <1>1, <1>7, <1>8 DEF Coherent, BorneOnce
<1>10. BorneOnce'
  BY <1>1, <1>4, <1>5, <1>7, <1>9 DEF Coherent, BorneOnce
<1>11. FrameRight'
  <2>1. ASSUME NEW g \in Frame, addr'[g] \notin lost' PROVE bytes'[g] = mem'[addr'[g]]
    <3>1. CASE g = f
      BY <1>5, <1>6, <1>7, <2>1, <3>1
    <3>2. CASE g # f
      BY <1>1, <1>4, <1>6, <1>9, <2>1, <3>2 DEF Coherent, FrameRight, PagedTypeOK
    <3>. QED
      BY <3>1, <3>2
  <2>. QED
    BY <2>1 DEF FrameRight
<1>12. CleanRight'
  <2>1. ASSUME NEW g \in Frame, ~dirty'[g], addr'[g] \notin lost'
        PROVE  bytes'[g] = swap'[addr'[g]]
    <3>1. CASE g = f
      BY <1>1, <1>5, <1>7, <2>1, <3>1
    <3>2. CASE g # f
      <4>1. swap'[addr[g]] = swap[addr[g]]
        BY <1>1, <1>4, <1>9, <2>1, <3>2 DEF Looked, PagedTypeOK
      <4>. QED
        BY <1>1, <1>4, <2>1, <3>2, <4>1 DEF Coherent, CleanRight
    <3>. QED
      BY <3>1, <3>2
  <2>. QED
    BY <2>1 DEF CleanRight
<1>13. SwapRight'
  <2>1. ASSUME NEW q \in Page \ lost', \A g \in Frame : addr'[g] # q
        PROVE  swap'[q] = mem'[q]
    <3>1. q # p
      BY <1>5, <1>8, <2>1, <1>1
    <3>2. \A g \in Frame \ {f} : addr[g] # q
      BY <1>4, <2>1
    <3>3. CASE q = addr[f]
      BY <1>1, <1>6, <2>1, <3>1, <3>3 DEF Looked
    <3>4. CASE q # addr[f]
      <4>1. swap[q] = mem[q]
        BY <1>1, <2>1, <3>2, <3>4 DEF Coherent, SwapRight
      <4>. QED
        BY <1>1, <1>6, <2>1, <3>1, <3>4, <4>1 DEF Looked
    <3>. QED
      BY <3>3, <3>4
  <2>. QED
    BY <2>1 DEF SwapRight
<1>. QED
  BY <1>2, <1>3, <1>10, <1>11, <1>12, <1>13 DEF Coherent

-----------------------------------------------------------------------------
\* While the loop of a mem_* call runs, its chunk lies in one page of RAM and
\* in the caller's buffer, and what is left after it lies in RAM again.
LEMMA ChunkOK ==
  ASSUME RequestOK, req # Idle, req.done < req.size
  PROVE  /\ req.page \in Page
         /\ ChunkSize \in 1 .. req.size - req.done
         /\ req.off + ChunkSize <= PageSize
         /\ \A d \in PageData : Copied(d) \in PageData
         /\ Advance \in Request /\ Advance.buf = req.buf /\ Advance.size = req.size
         /\ Advance.done <= Advance.size
         /\ Advance.done < Advance.size
              => InRam(Advance.page, Advance.off, Advance.size - Advance.done)
<1>. USE PagedAssumption
<1>1. /\ req \in Request
      /\ req.buf \in Buffer(req.size)
      /\ InRam(req.page, req.off, req.size - req.done)
  BY DEF RequestOK
<1>2. /\ req.page \in Nat /\ req.off \in Offset /\ req.size \in 1 .. MaxAccess
      /\ req.done \in Nat /\ req.page <= NPages
  BY <1>1 DEF Request
<1>3. req.page * PageSize < NPages * PageSize
  <2>1. req.page * PageSize \in Nat /\ NPages * PageSize \in Nat
    BY <1>2
  <2>. QED
    BY <1>1, <1>2, <2>1 DEF InRam, Offset
<1>4. req.page \in Page
  <2>1. req.page # NPages
    BY <1>3, <1>2
  <2>. QED
    BY <1>2, <2>1 DEF Page
<1>5. /\ ChunkSize \in 1 .. req.size - req.done
      /\ req.off + ChunkSize <= PageSize
      /\ req.off + ChunkSize # PageSize => ChunkSize = req.size - req.done
  BY <1>2 DEF ChunkSize, Offset
<1>6. ASSUME NEW d \in PageData PROVE Copied(d) \in PageData
  <2>1. ASSUME NEW o \in Offset, req.off <= o, o < req.off + ChunkSize
        PROVE  req.buf[req.done + (o - req.off)] \in Value
    <3>1. req.done + (o - req.off) \in 0 .. req.size - 1
      BY <1>2, <1>5, <2>1 DEF Offset
    <3>. QED
      BY <1>1, <3>1 DEF Buffer
  <2>. QED
    BY <2>1 DEF Copied, PageData
<1>. DEFINE pg == IF req.off + ChunkSize = PageSize THEN req.page + 1 ELSE req.page
            of == IF req.off + ChunkSize = PageSize THEN 0 ELSE req.off + ChunkSize
<1>7. /\ Advance.page = pg /\ Advance.off = of /\ Advance.done = req.done + ChunkSize
      /\ Advance.buf = req.buf /\ Advance.size = req.size
  BY <1>1 DEF Advance, Request
<1>8. /\ pg \in 0 .. NPages /\ of \in Offset /\ req.done + ChunkSize \in 0 .. MaxAccess
      /\ req.done + ChunkSize <= req.size
  BY <1>2, <1>4, <1>5 DEF Page, Offset
<1>9. Advance \in Request
  BY <1>1, <1>8 DEF Advance, Request
<1>10. req.done + ChunkSize < req.size
         => InRam(pg, of, req.size - (req.done + ChunkSize))
  <2>. SUFFICES ASSUME req.done + ChunkSize < req.size
                PROVE  InRam(pg, of, req.size - (req.done + ChunkSize))
    OBVIOUS
  <2>1. req.off + ChunkSize = PageSize
    BY <1>2, <1>5
  <2>2. (req.page + 1) * PageSize = req.page * PageSize + PageSize
    BY <1>2
  <2>3. req.page * PageSize \in Nat /\ NPages * PageSize \in Nat
    BY <1>2
  <2>. QED
    BY <1>1, <1>2, <1>5, <2>1, <2>2, <2>3 DEF InRam, Offset
<1>. QED
  BY <1>4, <1>5, <1>6, <1>7, <1>8, <1>9, <1>10

\* mem_init establishes the invariant.
LEMMA PagedInitInv == PagedInit => PagedInv
<1>. SUFFICES ASSUME PagedInit PROVE PagedInv
  OBVIOUS
<1>1. PICK n \in [Frame -> Transferred] :
        /\ addr = [f \in Frame |-> IF n[f] = PageSize THEN f ELSE 0]
        /\ bytes = [f \in Frame |-> Transfer(n[f], swap[f], [o \in Offset |-> Zero])]
        /\ lost = {q \in {0} : \E f \in Frame : n[f] # PageSize}
  BY DEF PagedInit, mem_init
<1>2. /\ swap \in [Page -> PageData] /\ mem = swap
      /\ dirty = [f \in Frame |-> FALSE] /\ pos = [f \in Frame |-> f + 1]
      /\ req = Idle /\ phase = "up" /\ stored = 0
  BY DEF PagedInit, mem_init
<1>3. \A f \in Frame : /\ f \in Page /\ 0 \in Page
                       /\ n[f] \in 0 .. PageSize
                       /\ swap[f] \in PageData
  <2>. SUFFICES ASSUME NEW f \in Frame
                PROVE  /\ f \in Page /\ 0 \in Page
                       /\ n[f] \in 0 .. PageSize /\ swap[f] \in PageData
    OBVIOUS
  <2>1. f \in Page /\ 0 \in Page
    BY PagedAssumption DEF Frame, Page
  <2>2. n[f] \in Transferred
    OBVIOUS
  <2>. QED
    BY <1>2, <2>1, <2>2, TransferredType
<1>4. [o \in Offset |-> Zero] \in PageData
  BY PagedAssumption DEF PageData
<1>5. ASSUME NEW f \in Frame
      PROVE  /\ bytes[f] \in PageData
             /\ n[f] = PageSize => addr[f] = f /\ bytes[f] = swap[f]
             /\ n[f] # PageSize => addr[f] = 0 /\ 0 \in lost
  BY <1>1, <1>3, <1>4, TransferType
<1>6. PagedTypeOK
  <2>1. addr \in [Frame -> Page]
    BY <1>1, <1>3
  <2>2. bytes \in [Frame -> PageData]
    BY <1>1, <1>5
  <2>3. pos \in [Frame -> 1 .. NFrames] /\ dirty \in [Frame -> BOOLEAN]
    BY <1>2, PagedAssumption DEF Frame
  <2>4. lost \in SUBSET Page /\ stored \in 0 .. NFrames
    BY <1>1, <1>2, PagedAssumption DEF Page
  <2>. QED
    BY <1>2, <2>1, <2>2, <2>3, <2>4 DEF PagedTypeOK, RequestOK
<1>7. Coherent
  <2>1. \A f \in Frame : addr[f] \notin lost => addr[f] = f /\ bytes[f] = swap[f]
    BY <1>5
  <2>. QED
    BY <1>2, <2>1 DEF Coherent, BorneOnce, FrameRight, CleanRight, SwapRight
<1>8. StoredRight
  BY <1>2, PagedAssumption DEF StoredRight, Frame
<1>. QED
  BY <1>6, <1>7, <1>8 DEF PagedInv

\* A step that leaves the frames, swap and the histories alone is harmless if
\* it leaves a proper call in progress.
LEMMA FramesUnchanged ==
  ASSUME PagedInv, UNCHANGED <<frameVars, stored, mem, lost>>, RequestOK',
         phase = "up", phase' \in {"up", "destroy"}
  PROVE  PagedInv'
BY DEF PagedInv, PagedTypeOK, Coherent, BorneOnce, FrameRight, CleanRight, SwapRight,
       StoredRight, frameVars, View

\* A chunk of mem_read, mem_write or mem_cmp preserves the invariant, given
\* what it leaves in the frame (b, d) and in the flat memory (m).
LEMMA ChunkInv ==
  ASSUME PagedInv, phase = "up", req # Idle, req.done < req.size,
         NEW r \in _lookupPage(req.page), NEW d \in BOOLEAN, NEW b, NEW m,
         \/ d = r.dirty /\ b = r.bytes /\ m = mem[req.page]
         \/ d = TRUE /\ b = Copied(r.bytes) /\ m = Copied(mem[req.page]),
         UseFrame(r, d, b), mem' = [mem EXCEPT ![req.page] = m],
         RequestOK', UNCHANGED <<phase, stored>>
  PROVE  PagedInv'
<1>. DEFINE p == req.page
<1>1. /\ p \in Page
      /\ \A x \in PageData : Copied(x) \in PageData
  BY ChunkOK DEF PagedInv, PagedTypeOK
<1>2. Looked(p, r)
  BY <1>1, HitLooked, MissLooked DEF _lookupPage, PagedInv
<1>3. /\ r.bytes \in PageData /\ mem[p] \in PageData
      /\ lost' = lost \cup r.lost
  BY <1>1, <1>2 DEF Looked, UseFrame, PagedInv, PagedTypeOK
<1>4. b \in PageData /\ m \in PageData
  BY <1>1, <1>3
<1>5. p \notin lost' => b = m /\ (~d => b = r.swap[p])
  BY <1>2, <1>3 DEF Looked
<1>6. /\ Coherent'
      /\ addr' \in [Frame -> Page] /\ dirty' \in [Frame -> BOOLEAN]
      /\ bytes' \in [Frame -> PageData] /\ pos' \in [Frame -> 1 .. NFrames]
      /\ swap' \in [Page -> PageData] /\ mem' \in [Page -> PageData]
      /\ lost' \in SUBSET Page
  BY <1>1, <1>2, <1>4, <1>5, UseFrameCoherent, ZenonT(60) DEF PagedInv
<1>7. PagedTypeOK'
  BY <1>6 DEF PagedInv, PagedTypeOK
<1>8. StoredRight'
  BY PagedAssumption DEF PagedInv, StoredRight, Frame
<1>. QED
  BY <1>6, <1>7, <1>8 DEF PagedInv

\* Every step of the paging code preserves the invariant.
LEMMA PagedStepInv == PagedInv /\ [PagedNext]_pagedVars => PagedInv'
<1>. SUFFICES ASSUME PagedInv, [PagedNext]_pagedVars PROVE PagedInv'
  OBVIOUS
<1>. USE PagedAssumption
<1>1. ASSUME NEW op \in {"read", "write", "cmp"}, NEW p \in Page, NEW o \in Offset,
             NEW n \in 1 .. MaxAccess, NEW buf \in Buffer(n), Call(op, p, o, n, buf)
      PROVE  PagedInv'
  <2>1. req' = [op |-> op, page0 |-> p, off0 |-> o, page |-> p, off |-> o,
                size |-> n, done |-> 0, buf |-> buf, equal |-> TRUE]
    BY <1>1 DEF Call
  <2>2. req' \in Request
    BY <1>1, <2>1 DEF Request, Page
  <2>3. RequestOK'
    BY <1>1, <2>1, <2>2 DEF RequestOK, Call, InRam
  <2>. QED
    BY <1>1, <2>3, FramesUnchanged DEF Call
<1>2. CASE CallRead
  <2>1. PICK p \in Page, o \in Offset, n \in 1 .. MaxAccess :
          Call("read", p, o, n, [i \in 0 .. n - 1 |-> Zero])
    BY <1>2 DEF CallRead
  <2>2. [i \in 0 .. n - 1 |-> Zero] \in Buffer(n)
    BY DEF Buffer
  <2>. QED
    BY <1>1, <2>1, <2>2
<1>3. CASE CallWrite
  BY <1>1, <1>3 DEF CallWrite
<1>4. CASE CallCmp
  BY <1>1, <1>4 DEF CallCmp
<1>5. CASE mem_read
  <2>1. /\ req # Idle /\ req.done < req.size /\ phase = "up"
        /\ UNCHANGED <<phase, stored, mem>>
    BY <1>5 DEF mem_read, InLoop, Idle
  <2>2. PICK r \in _lookupPage(req.page) :
          /\ UseFrame(r, r.dirty, r.bytes)
          /\ req' = [Advance EXCEPT !.buf =
               [i \in 0 .. req.size - 1 |->
                  IF req.done <= i /\ i < req.done + ChunkSize
                  THEN r.bytes[req.off + (i - req.done)] ELSE @[i]]]
    BY <1>5 DEF mem_read
  <2>3. /\ RequestOK /\ req \in Request /\ req.buf \in Buffer(req.size) /\ req.page \in Page
    BY <2>1, ChunkOK DEF PagedInv, PagedTypeOK, RequestOK
  <2>4. Looked(req.page, r)
    BY <2>3, HitLooked, MissLooked DEF _lookupPage, PagedInv
  <2>5. r.dirty \in BOOLEAN /\ r.bytes \in PageData
    BY <2>4 DEF Looked
  <2>. DEFINE nb == [i \in 0 .. req.size - 1 |->
                       IF req.done <= i /\ i < req.done + ChunkSize
                       THEN r.bytes[req.off + (i - req.done)] ELSE req.buf[i]]
  <2>6. nb \in Buffer(req.size)
    <3>1. /\ req.off \in Nat /\ req.done \in Nat /\ req.size \in Nat
          /\ ChunkSize \in Nat /\ req.off + ChunkSize <= PageSize
      BY <2>1, <2>3, ChunkOK DEF Request, Offset
    <3>2. ASSUME NEW i \in 0 .. req.size - 1, req.done <= i, i < req.done + ChunkSize
          PROVE  r.bytes[req.off + (i - req.done)] \in Value
      <4>1. req.off + (i - req.done) \in Offset
        BY <3>1, <3>2 DEF Offset
      <4>. QED
        BY <2>5, <4>1 DEF PageData
    <3>. QED
      BY <2>3, <3>2 DEF Buffer
  <2>7. /\ Advance \in Request /\ Advance.buf = req.buf /\ Advance.size = req.size
        /\ Advance.done <= Advance.size
        /\ Advance.done < Advance.size
              => InRam(Advance.page, Advance.off, Advance.size - Advance.done)
    BY <2>1, <2>3, ChunkOK
  <2>8. req' = [Advance EXCEPT !.buf = nb]
    BY <2>2, <2>7
  <2>9. req.size \in 1 .. MaxAccess
    BY <2>3 DEF Request
  <2>10. /\ req' \in Request /\ req'.buf = nb /\ req'.size = req.size
         /\ req'.done = Advance.done /\ req'.page = Advance.page /\ req'.off = Advance.off
    <3>1. nb \in UNION {Buffer(n) : n \in 1 .. MaxAccess}
      BY <2>6, <2>9
    <3>. HIDE DEF nb
    <3>. QED
      BY <2>7, <2>8, <3>1 DEF Request
  <2>11. RequestOK'
    <3>. HIDE DEF nb
    <3>. QED
      BY <2>6, <2>7, <2>10 DEF RequestOK, InRam, Buffer
  <2>12. mem' = [mem EXCEPT ![req.page] = mem[req.page]]
    BY <2>1, <2>3 DEF PagedInv, PagedTypeOK
  <2>. QED
    BY <2>1, <2>2, <2>5, <2>11, <2>12, ChunkInv
<1>6. CASE mem_write
  <2>1. /\ req # Idle /\ req.done < req.size /\ phase = "up"
        /\ UNCHANGED <<phase, stored>> /\ req' = Advance
        /\ mem' = [mem EXCEPT ![req.page] = Copied(mem[req.page])]
    BY <1>6 DEF mem_write, InLoop, Idle
  <2>2. PICK r \in _lookupPage(req.page) : UseFrame(r, TRUE, Copied(r.bytes))
    BY <1>6 DEF mem_write
  <2>3. RequestOK /\ req.buf \in Buffer(req.size)
    BY <2>1 DEF PagedInv, PagedTypeOK, RequestOK
  <2>4. RequestOK'
    BY <2>1, <2>3, ChunkOK DEF RequestOK, InRam, Buffer
  <2>. QED
    BY <2>1, <2>2, <2>4, ChunkInv
<1>7. CASE mem_cmp
  <2>1. /\ req # Idle /\ req.done < req.size /\ phase = "up"
        /\ UNCHANGED <<phase, stored, mem>>
    BY <1>7 DEF mem_cmp, InLoop, Idle
  <2>2. PICK r \in _lookupPage(req.page) :
          /\ UseFrame(r, r.dirty, r.bytes)
          /\ req' = IF Copied(r.bytes) = r.bytes THEN Advance
                    ELSE [req EXCEPT !.equal = FALSE, !.done = req.size]
    BY <1>7 DEF mem_cmp
  <2>3. RequestOK /\ req \in Request /\ req.buf \in Buffer(req.size) /\ req.page \in Page
    BY <2>1, ChunkOK DEF PagedInv, PagedTypeOK, RequestOK
  <2>4. RequestOK'
    <3>1. CASE req' = Advance
      BY <2>1, <2>3, <3>1, ChunkOK DEF RequestOK, InRam, Buffer
    <3>2. CASE req' = [req EXCEPT !.equal = FALSE, !.done = req.size]
      <4>1. req' \in Request /\ req'.done = req.size /\ req'.size = req.size /\ req'.buf = req.buf
        <5>1. req.size \in 0 .. MaxAccess
          BY <2>3 DEF Request
        <5>. QED
          BY <2>3, <3>2, <5>1 DEF Request
      <4>2. req.size \in Nat
        BY <2>3 DEF Request
      <4>. QED
        BY <2>3, <4>1, <4>2 DEF RequestOK, Buffer
    <3>. QED
      BY <2>2, <3>1, <3>2
  <2>5. r.dirty \in BOOLEAN
    BY <2>3, HitLooked, MissLooked DEF _lookupPage, PagedInv, Looked
  <2>6. mem' = [mem EXCEPT ![req.page] = mem[req.page]]
    BY <2>1, <2>3 DEF PagedInv, PagedTypeOK
  <2>. QED
    BY <2>1, <2>2, <2>4, <2>5, <2>6, ChunkInv
<1>8. CASE Return
  <2>1. RequestOK'
    BY <1>8 DEF Return, RequestOK
  <2>. QED
    BY <1>8, <2>1, FramesUnchanged DEF Return
<1>9. CASE mem_destroy
  <2>1. RequestOK'
    BY <1>9 DEF mem_destroy, RequestOK, PagedInv, PagedTypeOK
  <2>. QED
    BY <1>9, <2>1, FramesUnchanged DEF mem_destroy
<1>10. CASE DestroyFrame
  <2>1. PICK n \in Transferred :
          /\ swap' = _storePage(addr[stored], bytes[stored], n)
          /\ lost' = IF n = PageSize THEN lost ELSE lost \cup {addr[stored]}
    BY <1>10 DEF DestroyFrame
  <2>2. /\ stored < NFrames /\ stored' = stored + 1 /\ phase = "destroy"
        /\ phase' = IF stored' = NFrames THEN "closed" ELSE phase
        /\ UNCHANGED <<addr, dirty, bytes, pos, req, mem>>
    BY <1>10 DEF DestroyFrame
  <2>. DEFINE q == addr[stored]
  <2>3. /\ stored \in Frame /\ q \in Page /\ bytes[stored] \in PageData
        /\ swap[q] \in PageData /\ n \in 0 .. PageSize
    BY <2>2, TransferredType DEF PagedInv, PagedTypeOK, Frame
  <2>4. /\ swap' \in [Page -> PageData]
        /\ \A x \in Page : x # q => swap'[x] = swap[x]
        /\ q \notin lost' => swap'[q] = bytes[stored]
        /\ lost \subseteq lost' /\ lost' \in SUBSET Page
    BY <2>1, <2>3, TransferType DEF _storePage, PagedInv, PagedTypeOK
  <2>5. PagedTypeOK'
    BY <2>2, <2>3, <2>4 DEF PagedInv, PagedTypeOK, RequestOK, Frame
  <2>6. Coherent'
    <3>1. BorneOnce' /\ FrameRight'
      BY <2>2, <2>4 DEF PagedInv, Coherent, BorneOnce, FrameRight
    <3>2. CleanRight'
      BY <2>2, <2>3, <2>4 DEF PagedInv, PagedTypeOK, Coherent, BorneOnce, CleanRight
    <3>3. SwapRight'
      BY <2>2, <2>3, <2>4 DEF PagedInv, Coherent, SwapRight
    <3>. QED
      BY <3>1, <3>2, <3>3 DEF Coherent
  <2>7. ASSUME NEW f \in Frame, f < stored', addr'[f] \notin lost'
        PROVE  swap'[addr'[f]] = mem'[addr'[f]]
    <3>1. CASE addr[f] = q
      BY <2>2, <2>3, <2>4, <2>7, <3>1 DEF PagedInv, Coherent, FrameRight
    <3>2. CASE addr[f] # q
      <4>1. f < stored
        BY <2>2, <2>3, <2>7, <3>2 DEF Frame
      <4>. QED
        BY <2>2, <2>4, <2>7, <3>2, <4>1 DEF PagedInv, PagedTypeOK, StoredRight
    <3>. QED
      BY <3>1, <3>2
  <2>8. StoredRight'
    BY <2>2, <2>7 DEF StoredRight
  <2>. QED
    BY <2>5, <2>6, <2>8 DEF PagedInv
<1>11. CASE UNCHANGED pagedVars
  BY <1>11 DEF pagedVars, PagedInv, PagedTypeOK, RequestOK, Coherent, BorneOnce, FrameRight,
               CleanRight, SwapRight, StoredRight
<1>. QED
  BY <1>2, <1>3, <1>4, <1>5, <1>6, <1>7, <1>8, <1>9, <1>10, <1>11 DEF PagedNext

\* The variables of the paging code keep their types, and a call in progress
\* never runs out of RAM or of its caller's buffer.
THEOREM PagedTypeCorrect == PagedSpec => []PagedTypeOK
<1>1. PagedInv => PagedTypeOK
  BY DEF PagedInv
<1>. QED
  BY <1>1, PagedInitInv, PagedStepInv, PTL DEF PagedSpec

\* A page that is not lost reads as the flat memory holds it.
LEMMA PagedInvContains == PagedInv => Containment
<1>. SUFFICES ASSUME PagedInv, NEW p \in Page \ lost PROVE View(p) = mem[p]
  BY DEF Containment
<1>1. CASE \E f \in Frame : addr[f] = p
  <2>1. PICK f \in Frame : addr[f] = p
    BY <1>1
  <2>2. \A g \in Frame : addr[g] = p => g = f
    BY <2>1 DEF PagedInv, Coherent, BorneOnce
  <2>3. Found(p, f)
    BY <2>1, <2>2, PagedAssumption DEF Found, PagedInv, PagedTypeOK
  <2>4. (CHOOSE g \in Frame : Found(p, g)) = f
    BY <2>2, <2>3 DEF Found
  <2>. QED
    BY <1>1, <2>1, <2>4 DEF View, PagedInv, Coherent, FrameRight
<1>2. CASE ~ \E f \in Frame : addr[f] = p
  BY <1>2 DEF View, PagedInv, Coherent, SwapRight
<1>. QED
  BY <1>1, <1>2

\* Whatever the guest reads and writes, whatever is evicted and whichever
\* transfers fail: a page that no failed transfer touched reads as it would
\* from a flat memory.
THEOREM PagedContainment == PagedSpec => []Containment
BY PagedInvContains, PagedInitInv, PagedStepInv, PTL DEF PagedSpec

\* When mem_destroy is done, swap holds every page no failed transfer touched.
THEOREM PagedDestroyFlushes == PagedSpec => []DestroyFlushes
<1>1. PagedInv => DestroyFlushes
  <2>. SUFFICES ASSUME PagedInv, phase = "closed", NEW p \in Page \ lost
                PROVE  swap[p] = mem[p]
    BY DEF DestroyFlushes
  <2>1. CASE \E f \in Frame : addr[f] = p
    BY <2>1, PagedAssumption DEF PagedInv, StoredRight, Frame
  <2>2. CASE ~ \E f \in Frame : addr[f] = p
    BY <2>2 DEF PagedInv, Coherent, SwapRight
  <2>. QED
    BY <2>1, <2>2
<1>. QED
  BY <1>1, PagedInitInv, PagedStepInv, PTL DEF PagedSpec

-----------------------------------------------------------------------------
(***************************************************************************)
(* AnswersRight says nothing of where a call stands in RAM, and nothing of *)
(* a comparison that is not over.  Its inductive form does: the bytes a    *)
(* call has behind it are right, a comparison that has left its loop early *)
(* met a difference, and the next byte is where page and offset say.       *)
(***************************************************************************)
RightBelow(n) ==
  \A i \in 0 .. n - 1 : PageOf(req, i) \notin lost => req.buf[i] = ByteIn(mem, req, i)

Located ==
  req.page >= req.page0 /\ req.off0 + req.done = (req.page - req.page0) * PageSize + req.off

Differs ==
  (\A i \in 0 .. req.size - 1 : PageOf(req, i) \notin lost)
    => \E i \in 0 .. req.size - 1 : req.buf[i] # ByteIn(mem, req, i)

AnswerInv ==
  req # Idle =>
    /\ req.equal = TRUE => Located
    /\ req.op # "cmp" => req.equal = TRUE
    /\ req.op # "write" /\ req.equal = TRUE => RightBelow(req.done)
    /\ req.equal # TRUE => req.done = req.size /\ Differs

\* A number is put together from a quotient and a remainder in one way only.
LEMMA Quotient ==
  ASSUME NEW P \in Nat \ {0}, NEW q \in Nat, NEW o \in 0 .. P - 1
  PROVE  (q * P + o) \div P = q /\ (q * P + o) % P = o
OBVIOUS

\* The bytes of the chunk at hand are bytes of the page that is looked up.
LEMMA ChunkBytes ==
  ASSUME RequestOK, req # Idle, req.done < req.size, Located,
         NEW i \in req.done .. req.done + ChunkSize - 1
  PROVE  /\ PageOf(req, i) = req.page
         /\ (req.off0 + i) % PageSize = req.off + (i - req.done)
         /\ req.off + (i - req.done) \in Offset
<1>. USE PagedAssumption
<1>1. /\ req.page0 \in Nat /\ req.off0 \in Nat /\ req.page \in Nat /\ req.off \in Nat
      /\ req.done \in Nat /\ req.size \in Nat
      /\ ChunkSize \in Nat /\ req.off + ChunkSize <= PageSize
  BY ChunkOK DEF RequestOK, Request, Page, Offset
<1>. DEFINE q == req.page - req.page0
            o == req.off + (i - req.done)
<1>2. q \in Nat /\ o \in 0 .. PageSize - 1
  BY <1>1 DEF Located
<1>3. req.off0 + i = q * PageSize + o
  <2>1. q * PageSize \in Nat
    BY <1>2
  <2>. QED
    BY <1>1, <2>1 DEF Located
<1>. HIDE DEF q, o
<1>4. (req.off0 + i) \div PageSize = q /\ (req.off0 + i) % PageSize = o
  <2>1. PageSize \in Nat \ {0}
    OBVIOUS
  <2>2. (q * PageSize + o) \div PageSize = q /\ (q * PageSize + o) % PageSize = o
    BY <1>2, <2>1, Quotient, Zenon
  <2>. QED
    BY <1>3, <2>2, Zenon
<1>. QED
  BY <1>1, <1>2, <1>4 DEF q, o, PageOf, Offset

\* After a chunk the call stands where its next byte is.
LEMMA AdvanceLocated ==
  ASSUME RequestOK, req # Idle, req.done < req.size, Located
  PROVE  /\ Advance.page >= Advance.page0
         /\ Advance.off0 + Advance.done
              = (Advance.page - Advance.page0) * PageSize + Advance.off
<1>. USE PagedAssumption
<1>1. /\ req.page0 \in Nat /\ req.off0 \in Nat /\ req.page \in Nat /\ req.off \in Nat
      /\ req.done \in Nat /\ req.size \in Nat /\ req \in Request
      /\ ChunkSize \in Nat /\ req.off + ChunkSize <= PageSize
  BY ChunkOK DEF RequestOK, Request, Page, Offset
<1>2. /\ Advance.page = IF req.off + ChunkSize = PageSize THEN req.page + 1 ELSE req.page
      /\ Advance.off = IF req.off + ChunkSize = PageSize THEN 0 ELSE req.off + ChunkSize
      /\ Advance.done = req.done + ChunkSize
      /\ Advance.page0 = req.page0 /\ Advance.off0 = req.off0
  BY <1>1 DEF Advance, Request
<1>. DEFINE q == req.page - req.page0
<1>3. q \in Nat /\ q * PageSize \in Nat /\ (q + 1) * PageSize = q * PageSize + PageSize
  BY <1>1 DEF Located
<1>4. CASE req.off + ChunkSize = PageSize
  <2>1. Advance.page - Advance.page0 = q + 1
    BY <1>1, <1>2, <1>4
  <2>2. (Advance.page - Advance.page0) * PageSize = q * PageSize + PageSize
    BY <1>3, <2>1
  <2>3. req.off0 + req.done = q * PageSize + req.off /\ req.page >= req.page0
    BY DEF Located
  <2>. HIDE DEF q
  <2>4. req.off0 + (req.done + ChunkSize) = (q * PageSize + PageSize) + 0
    BY <1>1, <1>3, <1>4, <2>3
  <2>5. /\ Advance.page = req.page + 1 /\ Advance.off = 0 /\ Advance.page0 = req.page0
        /\ Advance.off0 = req.off0 /\ Advance.done = req.done + ChunkSize
    BY <1>2, <1>4, Zenon
  <2>6. req.page + 1 >= req.page0
    BY <1>1, <2>3
  <2>. QED
    BY <2>2, <2>4, <2>5, <2>6, Zenon
<1>5. CASE req.off + ChunkSize # PageSize
  BY <1>1, <1>2, <1>3, <1>5 DEF Located
<1>. QED
  BY <1>4, <1>5

\* What a chunk of a call that is in its loop may rely on: the frame it uses
\* holds, unless the page is lost, the bytes of the flat memory.
LEMMA ChunkRight ==
  ASSUME PagedInv, req # Idle, req.done < req.size, Located,
         NEW r \in _lookupPage(req.page), NEW d, NEW b, UseFrame(r, d, b),
         NEW i \in req.done .. req.done + ChunkSize - 1, PageOf(req, i) \notin lost'
  PROVE  r.bytes[req.off + (i - req.done)] = ByteIn(mem, req, i)
<1>1. RequestOK /\ req.page \in Page
  BY ChunkOK DEF PagedInv, PagedTypeOK
<1>2. /\ PageOf(req, i) = req.page
      /\ (req.off0 + i) % PageSize = req.off + (i - req.done)
  BY <1>1, ChunkBytes
<1>3. Looked(req.page, r)
  BY <1>1, HitLooked, MissLooked DEF _lookupPage, PagedInv
<1>4. r.bytes = mem[req.page]
  BY <1>2, <1>3 DEF Looked, UseFrame
<1>. QED
  BY <1>2, <1>4 DEF ByteIn

\* The fields of a call that Advance keeps.
LEMMA AdvanceFields ==
  ASSUME RequestOK, req # Idle
  PROVE  /\ Advance.op = req.op /\ Advance.page0 = req.page0 /\ Advance.off0 = req.off0
         /\ Advance.size = req.size /\ Advance.buf = req.buf /\ Advance.equal = req.equal
         /\ Advance.done = req.done + ChunkSize
         /\ req.done \in Nat /\ req.size \in Nat /\ req.off \in Nat
         /\ DOMAIN Advance = DOMAIN req /\ req \in Request
BY DEF RequestOK, Request, Advance, Offset

\* A chunk of mem_read hands out what the flat memory holds.
LEMMA ReadAnswers == PagedInv /\ AnswerInv /\ mem_read => AnswerInv'
<1>. SUFFICES ASSUME PagedInv, AnswerInv, mem_read PROVE AnswerInv'
  OBVIOUS
<1>1. req # Idle /\ req.done < req.size /\ mem' = mem /\ req.op = "read"
  BY DEF mem_read, InLoop, Idle
<1>2. RequestOK /\ req.equal = TRUE /\ Located /\ RightBelow(req.done)
  BY <1>1 DEF AnswerInv, PagedInv, PagedTypeOK
<1>3. PICK r \in _lookupPage(req.page) :
        /\ UseFrame(r, r.dirty, r.bytes)
        /\ req' = [Advance EXCEPT !.buf =
             [i \in 0 .. req.size - 1 |->
                IF req.done <= i /\ i < req.done + ChunkSize
                THEN r.bytes[req.off + (i - req.done)] ELSE @[i]]]
  BY DEF mem_read
<1>4. lost \subseteq lost'
  BY <1>3 DEF UseFrame
<1>5. ChunkSize \in 1 .. req.size - req.done
  BY <1>1, <1>2, ChunkOK
<1>6. /\ req'.op = "read" /\ req'.page0 = req.page0 /\ req'.off0 = req.off0
      /\ req'.size = req.size /\ req'.equal = TRUE /\ req'.done = req.done + ChunkSize
      /\ req'.page = Advance.page /\ req'.off = Advance.off
  BY <1>1, <1>2, <1>3, AdvanceFields DEF Request
<1>7. req'.buf = [i \in 0 .. req.size - 1 |->
                    IF req.done <= i /\ i < req.done + ChunkSize
                    THEN r.bytes[req.off + (i - req.done)] ELSE req.buf[i]]
  BY <1>1, <1>2, <1>3, AdvanceFields DEF Request
<1>8. Located'
  <2>1. /\ Advance.page >= Advance.page0
        /\ Advance.off0 + Advance.done
             = (Advance.page - Advance.page0) * PageSize + Advance.off
    BY <1>1, <1>2, AdvanceLocated
  <2>2. /\ Advance.page0 = req'.page0 /\ Advance.off0 = req'.off0 /\ Advance.done = req'.done
        /\ Advance.page = req'.page /\ Advance.off = req'.off
    BY <1>1, <1>2, <1>6, AdvanceFields
  <2>. QED
    BY <2>1, <2>2 DEF Located
<1>9. \A i : PageOf(req', i) = PageOf(req, i) /\ ByteIn(mem', req', i) = ByteIn(mem, req, i)
  BY <1>1, <1>6 DEF PageOf, ByteIn
<1>10. ASSUME NEW i \in 0 .. req'.done - 1, PageOf(req, i) \notin lost'
       PROVE  req'.buf[i] = ByteIn(mem, req, i)
  <2>1. /\ req.done \in Nat /\ req.size \in Nat /\ ChunkSize \in Nat
        /\ i \in 0 .. req.size - 1 /\ i < req.done + ChunkSize
    BY <1>1, <1>2, <1>5, <1>6, AdvanceFields
  <2>2. CASE i < req.done
    <3>1. req'.buf[i] = req.buf[i]
      BY <1>7, <2>1, <2>2
    <3>2. i \in 0 .. req.done - 1
      BY <2>1, <2>2
    <3>. QED
      BY <1>2, <1>4, <1>10, <3>1, <3>2 DEF RightBelow
  <2>3. CASE req.done <= i
    <3>1. req'.buf[i] = r.bytes[req.off + (i - req.done)]
      BY <1>7, <2>1, <2>3
    <3>2. i \in req.done .. req.done + ChunkSize - 1
      BY <2>1, <2>3
    <3>. QED
      BY <1>1, <1>2, <1>3, <1>10, <3>1, <3>2, ChunkRight
  <2>. QED
    BY <2>1, <2>2, <2>3
<1>11. RightBelow(req.done)'
  BY <1>9, <1>10 DEF RightBelow
<1>. QED
  BY <1>6, <1>8, <1>11 DEF AnswerInv

\* A chunk of mem_cmp goes on while the bytes are equal, and stops at one that
\* differs.
LEMMA CmpAnswers == PagedInv /\ AnswerInv /\ mem_cmp => AnswerInv'
<1>. SUFFICES ASSUME PagedInv, AnswerInv, mem_cmp PROVE AnswerInv'
  OBVIOUS
<1>1. req # Idle /\ req.done < req.size /\ mem' = mem /\ req.op = "cmp"
  BY DEF mem_cmp, InLoop, Idle
<1>2. RequestOK /\ req.done \in Nat /\ req.size \in Nat /\ req \in Request
  BY <1>1, AdvanceFields DEF PagedInv, PagedTypeOK
<1>3. req.equal = TRUE /\ Located /\ RightBelow(req.done)
  <2>1. req.done # req.size
    BY <1>1, <1>2
  <2>2. req.equal = TRUE
    BY <1>1, <2>1, Zenon DEF AnswerInv
  <2>. QED
    BY <1>1, <2>2 DEF AnswerInv
<1>4. PICK r \in _lookupPage(req.page) :
        /\ UseFrame(r, r.dirty, r.bytes)
        /\ req' = IF Copied(r.bytes) = r.bytes THEN Advance
                  ELSE [req EXCEPT !.equal = FALSE, !.done = req.size]
  BY DEF mem_cmp
<1>5. lost \subseteq lost'
  BY <1>4 DEF UseFrame
<1>6. /\ ChunkSize \in 1 .. req.size - req.done /\ req.off + ChunkSize <= PageSize
      /\ req.off \in Nat /\ req.page \in Page
  BY <1>1, <1>2, ChunkOK, AdvanceFields
<1>7. r.bytes \in PageData
  BY <1>6, HitLooked, MissLooked DEF _lookupPage, PagedInv, Looked
<1>8. CASE Copied(r.bytes) = r.bytes
  <2>1. req' = Advance
    BY <1>4, <1>8
  <2>2. /\ req'.op = "cmp" /\ req'.page0 = req.page0 /\ req'.off0 = req.off0
        /\ req'.buf = req.buf /\ req'.equal = TRUE /\ req'.done = req.done + ChunkSize
    BY <1>1, <1>2, <1>3, <2>1, AdvanceFields
  <2>3. Located'
    BY <1>1, <1>2, <1>3, <2>1, AdvanceLocated DEF Located
  <2>4. \A i : PageOf(req', i) = PageOf(req, i) /\ ByteIn(mem', req', i) = ByteIn(mem, req, i)
    BY <1>1, <2>2 DEF PageOf, ByteIn
  <2>5. ASSUME NEW i \in 0 .. req'.done - 1, PageOf(req, i) \notin lost'
        PROVE  req.buf[i] = ByteIn(mem, req, i)
    <3>1. CASE i < req.done
      <4>1. i \in 0 .. req.done - 1
        BY <1>2, <3>1
      <4>. QED
        BY <1>3, <1>5, <2>5, <4>1 DEF RightBelow
    <3>2. CASE req.done <= i
      <4>1. i \in req.done .. req.done + ChunkSize - 1
        BY <1>2, <1>6, <2>2, <3>2
      <4>. DEFINE o == req.off + (i - req.done)
      <4>2. /\ o \in Offset /\ req.off <= o /\ o < req.off + ChunkSize
            /\ req.done + (o - req.off) = i
        BY <1>2, <1>6, <4>1, PagedAssumption DEF Offset
      <4>3. Copied(r.bytes)[o] = req.buf[req.done + (o - req.off)]
        BY <4>2 DEF Copied
      <4>4. req.buf[i] = r.bytes[o]
        BY <1>8, <4>2, <4>3
      <4>. QED
        BY <1>1, <1>2, <1>3, <1>4, <2>5, <4>1, <4>4, ChunkRight
    <3>. QED
      BY <1>2, <3>1, <3>2
  <2>6. RightBelow(req.done)'
    BY <2>2, <2>4, <2>5 DEF RightBelow
  <2>. QED
    BY <2>2, <2>3, <2>6 DEF AnswerInv
<1>9. CASE Copied(r.bytes) # r.bytes
  <2>1. /\ req'.op = "cmp" /\ req'.page0 = req.page0 /\ req'.off0 = req.off0
        /\ req'.buf = req.buf /\ req'.equal = FALSE /\ req'.done = req.size
        /\ req'.size = req.size
    BY <1>1, <1>2, <1>4, <1>9 DEF Request
  <2>2. \A i : PageOf(req', i) = PageOf(req, i) /\ ByteIn(mem', req', i) = ByteIn(mem, req, i)
    BY <1>1, <2>1 DEF PageOf, ByteIn
  <2>3. PICK o \in Offset : Copied(r.bytes)[o] # r.bytes[o]
    BY <1>7, <1>9 DEF Copied, PageData
  <2>4. req.off <= o /\ o < req.off + ChunkSize /\ req.buf[req.done + (o - req.off)] # r.bytes[o]
    BY <2>3 DEF Copied
  <2>. DEFINE i == req.done + (o - req.off)
  <2>5. /\ i \in req.done .. req.done + ChunkSize - 1 /\ i \in 0 .. req.size - 1
        /\ req.off + (i - req.done) = o
    BY <1>2, <1>6, <2>4, PagedAssumption DEF Offset
  <2>6. PageOf(req, i) \notin lost' => req.buf[i] # ByteIn(mem, req, i)
    <3>. HIDE DEF i
    <3>1. PageOf(req, i) \notin lost' =>
            r.bytes[req.off + (i - req.done)] = ByteIn(mem, req, i)
      BY <1>1, <1>2, <1>3, <1>4, <2>5, ChunkRight
    <3>. QED
      BY <2>4, <2>5, <3>1 DEF i
  <2>7. Differs'
    <3>. HIDE DEF i
    <3>. QED
      BY <2>1, <2>2, <2>5, <2>6 DEF Differs
  <2>. QED
    BY <2>1, <2>7 DEF AnswerInv
<1>. QED
  BY <1>8, <1>9

\* Every step keeps the answers right.
LEMMA AnswerStep == PagedInv /\ AnswerInv /\ [PagedNext]_pagedVars => AnswerInv'
<1>. SUFFICES ASSUME PagedInv, AnswerInv, [PagedNext]_pagedVars PROVE AnswerInv'
  OBVIOUS
<1>1. ASSUME NEW op, NEW p \in Page, NEW o \in Offset, NEW n, NEW buf, Call(op, p, o, n, buf)
      PROVE  AnswerInv'
  <2>1. /\ req'.page = p /\ req'.page0 = p /\ req'.off = o /\ req'.off0 = o
        /\ req'.done = 0 /\ req'.equal = TRUE
    BY <1>1 DEF Call
  <2>2. p \in Nat /\ o \in Nat /\ PageSize \in Nat
    BY PagedAssumption DEF Page, Offset
  <2>3. Located'
    BY <2>1, <2>2 DEF Located
  <2>4. RightBelow(req.done)'
    BY <2>1 DEF RightBelow
  <2>. QED
    BY <2>1, <2>3, <2>4 DEF AnswerInv
<1>2. CASE CallRead \/ CallWrite \/ CallCmp
  BY <1>1, <1>2 DEF CallRead, CallWrite, CallCmp
<1>3. CASE mem_read
  BY <1>3, ReadAnswers
<1>4. CASE mem_write
  <2>1. /\ req # Idle /\ req.done < req.size /\ req.op = "write" /\ req' = Advance
    BY <1>4 DEF mem_write, InLoop, Idle
  <2>2. RequestOK /\ req.equal = TRUE /\ Located
    BY <2>1 DEF AnswerInv, PagedInv, PagedTypeOK
  <2>3. req'.op = "write" /\ req'.equal = TRUE
    BY <2>1, <2>2, AdvanceFields
  <2>4. Located'
    BY <2>1, <2>2, AdvanceLocated DEF Located
  <2>. QED
    BY <2>3, <2>4 DEF AnswerInv
<1>5. CASE mem_cmp
  BY <1>5, CmpAnswers
<1>6. CASE Return
  BY <1>6 DEF Return, AnswerInv
<1>7. CASE mem_destroy \/ UNCHANGED pagedVars
  BY <1>7 DEF mem_destroy, pagedVars, AnswerInv, Located, RightBelow, Differs, PageOf, ByteIn
<1>8. CASE DestroyFrame
  <2>1. req' = req /\ mem' = mem /\ lost \subseteq lost'
    BY <1>8 DEF DestroyFrame
  <2>. QED
    BY <2>1 DEF AnswerInv, Located, RightBelow, Differs, PageOf, ByteIn
<1>. QED
  BY <1>2, <1>3, <1>4, <1>5, <1>6, <1>7, <1>8 DEF PagedNext

\* mem_read and mem_cmp answer as a flat memory would, of every page no failed
\* transfer touched, however many chunks the call takes and whatever its own
\* lookups evict.
THEOREM PagedAnswersRight == PagedSpec => []AnswersRight
<1>1. PagedInit => AnswerInv
  BY DEF PagedInit, mem_init, AnswerInv
<1>2. PagedInv /\ AnswerInv => AnswersRight
  <2>. SUFFICES ASSUME PagedInv, AnswerInv PROVE AnswersRight
    OBVIOUS
  <2>1. CASE req.op = "read"
    <3>1. req # Idle
      BY <2>1 DEF Idle
    <3>2. RightBelow(req.done)
      BY <2>1, <3>1 DEF AnswerInv
    <3>. QED
      BY <2>1, <3>2 DEF AnswersRight, RightBelow
  <2>2. CASE req.op = "cmp"
    <3>1. req # Idle /\ req.equal \in BOOLEAN
      BY <2>2 DEF Idle, PagedInv, PagedTypeOK, RequestOK, Request
    <3>2. CASE req.equal = TRUE
      BY <2>2, <3>1, <3>2 DEF AnswerInv, AnswersRight, RightBelow
    <3>3. CASE req.equal = FALSE
      BY <2>2, <3>1, <3>3 DEF AnswerInv, AnswersRight, Differs
    <3>. QED
      BY <3>1, <3>2, <3>3
  <2>. QED
    BY <2>1, <2>2 DEF AnswersRight
<1>. QED
  BY <1>1, <1>2, AnswerStep, PagedInitInv, PagedStepInv, PTL DEF PagedSpec
=============================================================================
