------------------------- MODULE PagedRefinesProofs -------------------------
(***************************************************************************)
(* With transfers that succeed the paged RAM of the DOS build implements   *)
(* the flat one of the other builds, for every number of frames and pages  *)
(* and every page size: the page frames, the LRU list, the dirty bits and  *)
(* the swap files cannot be told from one array of bytes.                  *)
(***************************************************************************)
EXTENDS PagedMemoryProofs, Integers

\* Where the call in progress starts, and which of the bytes from there on a
\* write has still to copy.
Base == req.page0 * PageSize + req.off0
Pending(a) == req.op = "write" /\ a - Base \in req.done .. req.size - 1

RamSize == NPages * PageSize

\* The flat contents of RAM, told from the history variable and not from the
\* frames and the swap files.
MemData == [a \in 0 .. RamSize - 1 |->
              IF Pending(a) THEN req.buf[a - Base] ELSE mem[a \div PageSize][a % PageSize]]

\* What is in the frames and in swap is what the flat memory holds.
Agree == FlatData = MemData

\* Nothing is lost, and the invariants of PagedMemoryProofs hold.
RefinesInv == PagedInv /\ AnswerInv /\ lost = {}

-----------------------------------------------------------------------------
\* A number is its quotient's multiple and its remainder.
LEMMA DivMod ==
  ASSUME NEW P \in Nat \ {0}, NEW x \in Nat
  PROVE  x \div P \in Nat /\ x % P \in 0 .. P - 1 /\ x = (x \div P) * P + (x % P)
OBVIOUS

\* A product is smaller than another only if its factor is.
LEMMA FactorLess ==
  ASSUME NEW P \in Nat \ {0}, NEW q \in Nat, NEW n \in Nat, q * P < n * P
  PROVE  q < n
<1>. SUFFICES ASSUME n <= q PROVE FALSE
  OBVIOUS
<1>1. PICK k \in Nat : q = n + k
  <2>1. q - n \in Nat /\ q = n + (q - n)
    OBVIOUS
  <2>. QED
    BY <2>1
<1>2. q * P = n * P + k * P /\ k * P \in Nat /\ n * P \in Nat
  BY <1>1
<1>. QED
  BY <1>2

\* Every address of RAM has a page and an offset.
LEMMA AddressSplit ==
  ASSUME NEW a \in 0 .. RamSize - 1
  PROVE  /\ a \div PageSize \in Page /\ a % PageSize \in Offset
         /\ a = (a \div PageSize) * PageSize + (a % PageSize)
<1>. USE PagedAssumption
<1>1. PageSize \in Nat \ {0} /\ a \in Nat
  OBVIOUS
<1>2. /\ a \div PageSize \in Nat /\ a % PageSize \in 0 .. PageSize - 1
      /\ a = (a \div PageSize) * PageSize + (a % PageSize)
  BY <1>1, DivMod
<1>. DEFINE q == a \div PageSize
            o == a % PageSize
<1>. HIDE DEF q, o
<1>3. q \in Nat /\ o \in 0 .. PageSize - 1 /\ a = q * PageSize + o
  BY <1>2 DEF q, o
<1>4. q * PageSize < NPages * PageSize
  <2>1. q * PageSize \in Nat /\ NPages * PageSize \in Nat
    BY <1>3
  <2>. QED
    BY <1>3, <2>1 DEF RamSize
<1>5. q < NPages
  BY <1>1, <1>3, <1>4, FactorLess
<1>. QED
  BY <1>2, <1>3, <1>5 DEF q, o, Page, Offset

\* The i-th byte of a call is at its address in the flat memory.
LEMMA ByteAddress ==
  ASSUME NEW r, r.page0 \in Nat, r.off0 \in Nat, NEW i \in Nat
  PROVE  /\ (r.page0 * PageSize + r.off0 + i) \div PageSize = PageOf(r, i)
         /\ (r.page0 * PageSize + r.off0 + i) % PageSize = (r.off0 + i) % PageSize
<1>. DEFINE x == r.off0 + i
            k == x \div PageSize
            o == x % PageSize
<1>1. PageSize \in Nat \ {0} /\ x \in Nat
  BY PagedAssumption
<1>. HIDE DEF x
<1>2. k \in Nat /\ o \in 0 .. PageSize - 1 /\ x = k * PageSize + o
  BY <1>1, DivMod
<1>. HIDE DEF k, o
<1>3. (r.page0 + k) * PageSize = r.page0 * PageSize + k * PageSize
      /\ r.page0 * PageSize \in Nat /\ k * PageSize \in Nat /\ r.page0 + k \in Nat
  BY <1>1, <1>2
<1>4. r.page0 * PageSize + r.off0 + i = (r.page0 + k) * PageSize + o
  BY <1>1, <1>2, <1>3 DEF x
<1>5. /\ ((r.page0 + k) * PageSize + o) \div PageSize = r.page0 + k
      /\ ((r.page0 + k) * PageSize + o) % PageSize = o
  BY <1>1, <1>2, <1>3, Quotient, Zenon
<1>. QED
  BY <1>4, <1>5, Zenon DEF PageOf, x, k, o

-----------------------------------------------------------------------------
\* No lookup loses a page when every transfer is a full one.
LEMMA LookupLosesNone ==
  ASSUME IOMayFail = FALSE, NEW p, NEW r \in _lookupPage(p)
  PROVE  r.lost = {}
<1>1. Transferred = {PageSize}
  BY DEF Transferred
<1>2. CASE r \in Hit(p)
  BY <1>2 DEF Hit
<1>3. CASE r \in Miss(p)
  <2>1. PICK f \in Frame : r = Evict(p, f, PageSize, PageSize)
    BY <1>1, <1>3 DEF Miss
  <2>2. r.lost = {q \in Page : \/ q = addr[f] /\ dirty[f] /\ PageSize < PageSize
                               \/ q \in {addr[f], p} /\ PageSize < PageSize}
    BY <2>1 DEF Evict
  <2>. QED
    BY <2>2, PagedAssumption
<1>. QED
  BY <1>2, <1>3 DEF _lookupPage

\* Nothing is ever lost when every transfer is a full one.
LEMMA NothingLost ==
  ASSUME IOMayFail = FALSE
  PROVE  /\ PagedInit => lost = {}
         /\ lost = {} /\ [PagedNext]_pagedVars => lost' = {}
<1>1. Transferred = {PageSize}
  BY DEF Transferred
<1>2. ASSUME PagedInit PROVE lost = {}
  BY <1>1, <1>2 DEF PagedInit, mem_init
<1>3. ASSUME lost = {}, [PagedNext]_pagedVars PROVE lost' = {}
  <2>1. CASE mem_read \/ mem_write \/ mem_cmp
    <3>1. PICK r \in _lookupPage(req.page) : lost' = lost \cup r.lost
      BY <2>1 DEF mem_read, mem_write, mem_cmp, UseFrame
    <3>. QED
      BY <1>3, <3>1, LookupLosesNone
  <2>2. CASE DestroyFrame
    BY <1>1, <1>3, <2>2 DEF DestroyFrame
  <2>3. CASE UNCHANGED lost
    BY <1>3, <2>3
  <2>. QED
    BY <1>3, <2>1, <2>2, <2>3
    DEF PagedNext, pagedVars, CallRead, CallWrite, CallCmp, Call, Return, mem_destroy
<1>. QED
  BY <1>2, <1>3

\* The invariant of the refinement.
LEMMA RefinesInvariant ==
  ASSUME IOMayFail = FALSE
  PROVE  /\ PagedInit => RefinesInv
         /\ RefinesInv /\ [PagedNext]_pagedVars => RefinesInv'
<1>1. ASSUME PagedInit PROVE RefinesInv
  <2>1. AnswerInv
    BY <1>1 DEF PagedInit, mem_init, AnswerInv
  <2>. QED
    BY <1>1, <2>1, PagedInitInv, NothingLost DEF RefinesInv
<1>2. ASSUME RefinesInv, [PagedNext]_pagedVars PROVE RefinesInv'
  BY <1>2, PagedStepInv, AnswerStep, NothingLost DEF RefinesInv
<1>. QED
  BY <1>1, <1>2

\* The frames and the swap files together hold the flat memory.
LEMMA FlatDataIsMemData == RefinesInv => FlatData = MemData
<1>. SUFFICES ASSUME RefinesInv PROVE FlatData = MemData
  OBVIOUS
<1>1. \A p \in Page : View(p) = mem[p]
  BY PagedInvContains DEF RefinesInv, Containment
<1>2. RequestOK
  BY DEF RefinesInv, PagedInv, PagedTypeOK
<1>3. ASSUME NEW a \in 0 .. RamSize - 1
      PROVE  Pending(a) <=> /\ req.op = "write" /\ a >= Base
                            /\ a - Base \in req.done .. req.size - 1
  <2>1. CASE req.op = "write"
    <3>1. Base \in Nat /\ req.done \in Nat /\ req.size \in Nat
      <4>1. /\ req.page0 \in Nat /\ req.off0 \in Nat /\ req.done \in Nat /\ req.size \in Nat
        BY <1>2, <2>1 DEF RequestOK, Request, Idle, Page, Offset
      <4>2. req.page0 * PageSize \in Nat
        BY <4>1, PagedAssumption
      <4>. QED
        BY <4>1, <4>2 DEF Base
    <3>. QED
      BY <3>1 DEF Pending
  <2>. QED
    BY <2>1 DEF Pending
<1>4. ASSUME NEW a \in 0 .. RamSize - 1
      PROVE  View(a \div PageSize)[a % PageSize] = mem[a \div PageSize][a % PageSize]
  BY <1>1, AddressSplit
<1>5. FlatData = [a \in 0 .. RamSize - 1 |->
                    IF /\ req.op = "write" /\ a >= Base
                       /\ a - Base \in req.done .. req.size - 1
                    THEN req.buf[a - Base] ELSE View(a \div PageSize)[a % PageSize]]
  BY DEF FlatData, Base, RamSize
<1>. QED
  BY <1>3, <1>4, <1>5 DEF MemData

-----------------------------------------------------------------------------
\* The call in progress has its next byte where page and offset say, and its
\* last one inside RAM.
LEMMA CallFits ==
  ASSUME RequestOK, req # Idle, Located
  PROVE  /\ Base \in Nat /\ RamSize \in Nat
         /\ req.page0 \in Nat /\ req.off0 \in Nat /\ req.page \in Nat /\ req.off \in Nat
         /\ req.done \in Nat /\ req.size \in 1 .. MaxAccess
         /\ Base + req.done = req.page * PageSize + req.off
         /\ req.done < req.size => Base + req.size <= RamSize
<1>. USE PagedAssumption
<1>1. /\ req.page0 \in Nat /\ req.off0 \in Nat /\ req.page \in Nat /\ req.off \in Nat
      /\ req.done \in Nat /\ req.size \in 1 .. MaxAccess
  BY DEF RequestOK, Request, Page, Offset
<1>. DEFINE q == req.page - req.page0
<1>2. q \in Nat /\ req.page = req.page0 + q /\ req.off0 + req.done = q * PageSize + req.off
  BY <1>1 DEF Located
<1>. HIDE DEF q
<1>3. /\ req.page * PageSize = req.page0 * PageSize + q * PageSize
      /\ req.page0 * PageSize \in Nat /\ q * PageSize \in Nat /\ NPages * PageSize \in Nat
  BY <1>1, <1>2
<1>4. Base \in Nat /\ Base + req.done = req.page * PageSize + req.off
  <2>. DEFINE A == req.page0 * PageSize
              B == q * PageSize
              G == req.page * PageSize
  <2>1. /\ G = A + B /\ A \in Nat /\ B \in Nat /\ Base = A + req.off0
        /\ req.off0 + req.done = B + req.off
    BY <1>2, <1>3 DEF Base
  <2>. HIDE DEF A, B, G
  <2>2. Base \in Nat /\ Base + req.done = G + req.off
    BY <1>1, <2>1
  <2>. QED
    BY <2>2 DEF G
<1>5. ASSUME req.done < req.size PROVE Base + req.size <= RamSize
  <2>1. req.page * PageSize + req.off + (req.size - req.done) <= NPages * PageSize
    BY <1>5 DEF RequestOK, InRam
  <2>2. req.page * PageSize \in Nat
    BY <1>1
  <2>. QED
    BY <1>1, <1>3, <1>4, <2>1, <2>2 DEF RamSize
<1>. QED
  BY <1>1, <1>3, <1>4, <1>5 DEF RamSize

\* The bytes of a call that does not write, in the flat memory.
LEMMA CallBytes ==
  ASSUME req.page0 \in Nat, req.off0 \in Nat, req.op # "write", req.size \in Nat,
         Base \in Nat, RamSize \in Nat, Base + req.size <= RamSize,
         NEW i \in 0 .. req.size - 1
  PROVE  MemData[Base + i] = ByteIn(mem, req, i)
<1>1. Base + i \in 0 .. RamSize - 1 /\ i \in Nat
  OBVIOUS
<1>2. ~ Pending(Base + i)
  BY DEF Pending
<1>3. MemData[Base + i] = mem[(Base + i) \div PageSize][(Base + i) % PageSize]
  BY <1>1, <1>2 DEF MemData
<1>4. /\ (Base + i) \div PageSize = PageOf(req, i)
      /\ (Base + i) % PageSize = (req.off0 + i) % PageSize
  BY <1>1, ByteAddress DEF Base
<1>. QED
  BY <1>3, <1>4, Zenon DEF ByteIn

\* A chunk of mem_write moves bytes from the caller's buffer into the frame:
\* the flat memory had them from the call on.
LEMMA WriteChunk == RefinesInv /\ mem_write => MemData' = MemData
<1>. SUFFICES ASSUME RefinesInv, mem_write PROVE MemData' = MemData
  OBVIOUS
<1>1. /\ req # Idle /\ req.op = "write" /\ req.done < req.size /\ req' = Advance
      /\ mem' = [mem EXCEPT ![req.page] = Copied(mem[req.page])]
  BY DEF mem_write, InLoop, Idle
<1>2. RequestOK /\ Located /\ mem \in [Page -> PageData]
  BY <1>1 DEF RefinesInv, PagedInv, PagedTypeOK, AnswerInv
<1>. DEFINE C == ChunkSize
<1>3. /\ req'.op = "write" /\ req'.page0 = req.page0 /\ req'.off0 = req.off0
      /\ req'.buf = req.buf /\ req'.size = req.size /\ req'.done = req.done + C
  BY <1>1, <1>2, AdvanceFields
<1>4. /\ C \in 1 .. req.size - req.done /\ req.page \in Page /\ req.off + C <= PageSize
  BY <1>1, <1>2, ChunkOK
<1>5. /\ Base \in Nat /\ RamSize \in Nat /\ req.page0 \in Nat /\ req.off0 \in Nat
      /\ req.page \in Nat /\ req.off \in Nat /\ req.done \in Nat /\ req.size \in Nat
      /\ Base + req.done = req.page * PageSize + req.off
  BY <1>1, <1>2, CallFits
<1>. HIDE DEF C
<1>6. Base' = Base /\ \A a : Pending(a)' <=> a - Base \in req.done + C .. req.size - 1
  BY <1>3 DEF Base, Pending
<1>7. \A a : Pending(a) <=> a - Base \in req.done .. req.size - 1
  BY <1>1 DEF Pending
<1>8. ASSUME NEW a \in 0 .. RamSize - 1
      PROVE  (IF Pending(a)' THEN req'.buf[a - Base'] ELSE mem'[a \div PageSize][a % PageSize])
               = IF Pending(a) THEN req.buf[a - Base] ELSE mem[a \div PageSize][a % PageSize]
  <2>. DEFINE i == a - Base
  <2>1. /\ a \div PageSize \in Page /\ a % PageSize \in Offset
        /\ a = (a \div PageSize) * PageSize + (a % PageSize)
    BY AddressSplit
  <2>2. i \in Int /\ a = Base + i
    BY <1>5
  <2>3. CASE i \in req.done + C .. req.size - 1
    <3>1. i \in req.done .. req.size - 1
      BY <1>4, <1>5, <2>2, <2>3
    <3>. QED
      BY <1>3, <1>6, <1>7, <2>3, <3>1
  <2>4. CASE i \in req.done .. req.done + C - 1
    <3>1. i \in req.done .. req.size - 1 /\ i \notin req.done + C .. req.size - 1 /\ i \in Nat
      BY <1>4, <1>5, <2>2, <2>4
    <3>2. /\ PageOf(req, i) = req.page
          /\ (req.off0 + i) % PageSize = req.off + (i - req.done)
          /\ req.off + (i - req.done) \in Offset
      BY <1>1, <1>2, <2>4, ChunkBytes DEF C
    <3>3. /\ a \div PageSize = PageOf(req, i)
          /\ a % PageSize = (req.off0 + i) % PageSize
      <4>. HIDE DEF i
      <4>1. a = req.page0 * PageSize + req.off0 + i
        BY <2>2 DEF Base
      <4>. QED
        BY <1>5, <3>1, <4>1, ByteAddress
    <3>. DEFINE o == req.off + (i - req.done)
    <3>4. /\ req.off <= o /\ o < req.off + C /\ req.done + (o - req.off) = i
      BY <1>4, <1>5, <2>2, <2>4
    <3>5. mem'[req.page][o] = req.buf[i]
      <4>1. mem'[req.page] = Copied(mem[req.page])
        BY <1>1, <1>2, <1>4
      <4>2. Copied(mem[req.page])[o] = req.buf[req.done + (o - req.off)]
        BY <3>2, <3>4 DEF Copied, C
      <4>. QED
        BY <3>4, <4>1, <4>2
    <3>. QED
      BY <1>3, <1>6, <1>7, <3>1, <3>2, <3>3, <3>5
  <2>5. CASE i \notin req.done .. req.size - 1
    <3>1. i \notin req.done + C .. req.size - 1 /\ i \notin req.done .. req.done + C - 1
      BY <1>4, <1>5, <2>2, <2>5
    <3>2. mem'[a \div PageSize][a % PageSize] = mem[a \div PageSize][a % PageSize]
      <4>1. CASE a \div PageSize # req.page
        BY <1>1, <1>2, <2>1, <4>1
      <4>2. CASE a \div PageSize = req.page
        <5>. DEFINE o == a % PageSize
        <5>1. o \in Offset /\ a = req.page * PageSize + o
          BY <2>1, <4>2
        <5>. HIDE DEF o, i
        <5>2. i = req.done + (o - req.off)
          <6>. DEFINE G == req.page * PageSize
          <6>1. G \in Nat /\ o \in Nat
            BY <1>5, <5>1, PagedAssumption DEF Offset
          <6>2. Base + req.done = G + req.off /\ Base + i = G + o
            BY <1>5, <2>2, <5>1
          <6>. HIDE DEF G
          <6>. QED
            BY <1>5, <2>2, <6>1, <6>2
        <5>3. ~(req.off <= o /\ o < req.off + C)
          BY <1>4, <1>5, <3>1, <5>1, <5>2, PagedAssumption DEF Offset
        <5>4. Copied(mem[req.page])[o] = mem[req.page][o]
          BY <5>1, <5>3 DEF Copied, C
        <5>5. mem'[req.page] = Copied(mem[req.page])
          BY <1>1, <1>2, <1>4
        <5>. QED
          BY <4>2, <5>4, <5>5 DEF o
      <4>. QED
        BY <4>1, <4>2
    <3>. QED
      BY <1>6, <1>7, <2>5, <3>1, <3>2
  <2>6. \/ i \in req.done + C .. req.size - 1 \/ i \in req.done .. req.done + C - 1
        \/ i \notin req.done .. req.size - 1
    BY <1>4, <1>5, <2>2
  <2>. QED
    BY <2>3, <2>4, <2>5, <2>6
<1>. QED
  BY <1>8 DEF MemData

-----------------------------------------------------------------------------
\* The length of a buffer is the one it was made with.
LEMMA BufferLen ==
  ASSUME NEW n \in 1 .. MaxAccess, NEW buf \in Buffer(n)
  PROVE  Flat!Len(buf) = n /\ buf \in Flat!Buffer /\ DOMAIN buf = 0 .. n - 1
<1>. USE PagedAssumption
<1>1. DOMAIN buf = 0 .. n - 1 /\ buf \in [0 .. n - 1 -> Value]
  BY DEF Buffer
<1>2. ASSUME NEW k \in 1 .. MaxAccess, 0 .. n - 1 = 0 .. k - 1 PROVE k = n
  <2>1. n - 1 \in 0 .. k - 1 /\ k - 1 \in 0 .. n - 1
    <3>1. n - 1 \in 0 .. n - 1 /\ k - 1 \in 0 .. k - 1
      OBVIOUS
    <3>. QED
      BY <1>2, <3>1
  <2>. QED
    BY <2>1
<1>3. Flat!Len(buf) = n
  BY <1>1, <1>2 DEF Flat!Len
<1>. QED
  BY <1>1, <1>3 DEF Flat!Buffer

\* The call of mem_write is where the flat memory changes.
LEMMA WriteCall ==
  ASSUME RefinesInv, CallWrite, FlatData = MemData, FlatData' = MemData'
  PROVE  \E a \in Flat!Address : \E buf \in Flat!Buffer : Flat!mem_write(a, buf)
<1>. USE PagedAssumption
<1>0. PICK p \in Page, o \in Offset, n \in 1 .. MaxAccess :
        \E buf \in Buffer(n) : Call("write", p, o, n, buf)
  BY DEF CallWrite
<1>1. PICK buf \in Buffer(n) : Call("write", p, o, n, buf)
  BY <1>0
<1>2. /\ req.op = "none" /\ mem' = mem
      /\ req'.op = "write" /\ req'.page0 = p /\ req'.off0 = o /\ req'.size = n
      /\ req'.done = 0 /\ req'.buf = buf
  BY <1>1 DEF Call, Idle
<1>. DEFINE a == p * PageSize + o
<1>3. a \in Nat /\ RamSize \in Nat /\ a + n <= RamSize /\ n \in Nat /\ n >= 1
  <2>1. p \in Nat /\ o \in Nat
    BY DEF Page, Offset
  <2>2. p * PageSize \in Nat /\ NPages * PageSize \in Nat
    BY <2>1
  <2>3. p * PageSize + o + n <= NPages * PageSize
    BY <1>1 DEF Call, InRam
  <2>. QED
    BY <2>1, <2>2, <2>3 DEF RamSize
<1>4. Base' = a
  BY <1>2 DEF Base
<1>. HIDE DEF a
<1>5. Flat!Len(buf) = n /\ buf \in Flat!Buffer /\ DOMAIN buf = 0 .. n - 1
  BY <1>1, BufferLen
<1>6. a \in Flat!Address /\ Flat!InRange(a, Flat!Len(buf))
  BY <1>3, <1>5 DEF Flat!Address, Flat!InRange, RamSize
<1>7. FlatRet = Flat!Idle /\ FlatRet' = FlatRet
  BY <1>2 DEF FlatRet, Idle, Flat!Idle
<1>8. ASSUME NEW x \in 0 .. RamSize - 1
      PROVE  /\ Pending(x)' <=> x >= a /\ x - a \in DOMAIN buf
             /\ ~ Pending(x)
  BY <1>2, <1>3, <1>4, <1>5 DEF Pending
<1>9. FlatData' = [x \in 0 .. RamSize - 1 |->
                     IF x >= a /\ x - a \in DOMAIN buf THEN buf[x - a] ELSE FlatData[x]]
  BY <1>2, <1>4, <1>8 DEF MemData
<1>10. Flat!mem_write(a, buf)
  BY <1>6, <1>7, <1>9 DEF Flat!mem_write, Flat!Address, RamSize
<1>. QED
  BY <1>5, <1>6, <1>10

\* The other steps leave the flat memory alone.
LEMMA DataKept ==
  ASSUME RefinesInv, [PagedNext]_pagedVars, ~ CallWrite
  PROVE  MemData' = MemData
<1>1. CASE mem_write
  BY <1>1, WriteChunk
<1>2. ASSUME mem' = mem, req.op # "write", req'.op # "write" PROVE MemData' = MemData
  BY <1>2 DEF MemData, Pending
<1>3. CASE CallRead \/ CallCmp
  <2>1. mem' = mem /\ req.op = "none" /\ req'.op \in {"read", "cmp"}
    BY <1>3 DEF CallRead, CallCmp, Call, Idle
  <2>. QED
    BY <1>2, <2>1
<1>4. CASE mem_read \/ mem_cmp
  <2>1. req # Idle /\ req.done < req.size /\ req.op \in {"read", "cmp"} /\ mem' = mem
    BY <1>4 DEF mem_read, mem_cmp, InLoop, Idle
  <2>2. RequestOK
    BY DEF RefinesInv, PagedInv, PagedTypeOK
  <2>3. req'.op = req.op
    BY <1>4, <2>1, <2>2, AdvanceFields DEF mem_read, mem_cmp, Request
  <2>. QED
    BY <1>2, <2>1, <2>3
<1>5. CASE Return
  <2>1. req.done = req.size /\ mem' = mem /\ req'.op = "none" /\ req # Idle
    BY <1>5 DEF Return, Idle
  <2>2. req.size \in Nat
    BY <2>1, AdvanceFields DEF RefinesInv, PagedInv, PagedTypeOK
  <2>3. req.done .. req.size - 1 = {}
    BY <2>1, <2>2
  <2>4. \A a : ~ Pending(a) /\ ~ Pending(a)'
    BY <2>1, <2>3 DEF Pending
  <2>. QED
    BY <2>1, <2>4 DEF MemData
<1>6. CASE mem' = mem /\ req' = req
  BY <1>6 DEF MemData, Pending, Base
<1>. QED
  BY <1>1, <1>3, <1>4, <1>5, <1>6 DEF PagedNext, pagedVars, mem_destroy, DestroyFrame

-----------------------------------------------------------------------------
\* A call has no answer while it is in its loop.
LEMMA NoAnswerYet ==
  ASSUME RequestOK, req # Idle, req.done < req.size
  PROVE  FlatRet = Flat!Idle
<1>1. req.done # req.size
  BY AdvanceFields
<1>. QED
  BY <1>1 DEF FlatRet, Idle, Flat!Idle

\* What a call of mem_read or mem_cmp that ends its loop has behind it: it lay
\* in RAM, and its bytes in the flat memory are the ones ByteIn names.
LEMMA LoopEnds ==
  ASSUME RefinesInv, RefinesInv', mem_read \/ mem_cmp, FlatData = MemData
  PROVE  /\ FlatRet = Flat!Idle
         /\ Base \in Flat!Address /\ Flat!InRange(Base, req.size) /\ Base' = Base
         /\ req.size \in 1 .. MaxAccess /\ req'.size = req.size /\ req'.op = req.op
         /\ req' # Idle
         /\ Flat!Bytes(Base, req.size) = [i \in 0 .. req.size - 1 |-> ByteIn(mem', req', i)]
<1>1. req # Idle /\ req.done < req.size /\ req.op \in {"read", "cmp"} /\ mem' = mem
  BY DEF mem_read, mem_cmp, InLoop, Idle
<1>2. RequestOK /\ AnswerInv
  BY DEF RefinesInv, PagedInv, PagedTypeOK
<1>3. /\ req'.op = req.op /\ req'.size = req.size /\ req'.page0 = req.page0
      /\ req'.off0 = req.off0
  BY <1>1, <1>2, AdvanceFields DEF mem_read, mem_cmp, Request
<1>4. Located
  <2>1. req.done # req.size
    BY <1>1, <1>2, AdvanceFields
  <2>2. req.equal = TRUE
    BY <1>1, <1>2, <2>1, Zenon DEF AnswerInv
  <2>. QED
    BY <1>1, <1>2, <2>2, Zenon DEF AnswerInv
<1>5. /\ Base \in Nat /\ RamSize \in Nat /\ req.page0 \in Nat /\ req.off0 \in Nat
      /\ req.size \in 1 .. MaxAccess /\ Base + req.size <= RamSize
  BY <1>1, <1>2, <1>4, CallFits
<1>6. Base \in Flat!Address /\ Flat!InRange(Base, req.size)
  BY <1>5, PagedAssumption DEF Flat!Address, Flat!InRange, RamSize
<1>7. ASSUME NEW i \in 0 .. req.size - 1 PROVE FlatData[Base + i] = ByteIn(mem', req', i)
  <2>1. req.op # "write" /\ req.size \in Nat
    BY <1>1, <1>5
  <2>2. MemData[Base + i] = ByteIn(mem, req, i)
    BY <1>5, <2>1, CallBytes
  <2>. QED
    BY <1>1, <1>3, <2>2 DEF ByteIn, PageOf
<1>8. Flat!Bytes(Base, req.size) = [i \in 0 .. req.size - 1 |-> ByteIn(mem', req', i)]
  BY <1>7 DEF Flat!Bytes
<1>9. Base' = Base /\ req' # Idle
  BY <1>1, <1>3 DEF Base, Idle
<1>. QED
  BY <1>1, <1>2, <1>3, <1>5, <1>6, <1>8, <1>9, NoAnswerYet

\* The last chunk of mem_read is the flat mem_read, the others are nothing.
LEMMA ReadAnswer ==
  ASSUME RefinesInv, RefinesInv', mem_read, FlatData = MemData, FlatData' = FlatData
  PROVE  \/ FlatRet' = FlatRet
         \/ \E a \in Flat!Address : \E n \in 1 .. MaxAccess : Flat!mem_read(a, n)
<1>1. /\ FlatRet = Flat!Idle
      /\ Base \in Flat!Address /\ Flat!InRange(Base, req.size) /\ Base' = Base
      /\ req.size \in 1 .. MaxAccess /\ req'.size = req.size /\ req'.op = req.op
      /\ req' # Idle
      /\ Flat!Bytes(Base, req.size) = [i \in 0 .. req.size - 1 |-> ByteIn(mem', req', i)]
  BY LoopEnds
<1>2. req.op = "read"
  BY DEF mem_read, InLoop
<1>3. CASE req'.done # req'.size
  BY <1>1, <1>3 DEF FlatRet, Idle, Flat!Idle
<1>4. CASE req'.done = req'.size
  <2>1. FlatRet' = [op |-> "read", addr |-> Base, buf |-> req'.buf]
    BY <1>1, <1>2, <1>4 DEF FlatRet, Base
  <2>2. \A i \in 0 .. req.size - 1 : req'.buf[i] = ByteIn(mem', req', i)
    BY <1>1, <1>2, <1>4 DEF RefinesInv, AnswerInv, RightBelow
  <2>3. req'.buf \in [0 .. req.size - 1 -> Value]
    BY <1>1 DEF RefinesInv, PagedInv, PagedTypeOK, RequestOK, Buffer
  <2>4. req'.buf = Flat!Bytes(Base, req.size)
    BY <1>1, <2>2, <2>3
  <2>5. Flat!mem_read(Base, req.size)
    BY <1>1, <2>1, <2>4 DEF Flat!mem_read
  <2>. QED
    BY <1>1, <2>5
<1>. QED
  BY <1>3, <1>4

\* The last chunk of mem_cmp is the flat mem_cmp, the others are nothing.
LEMMA CmpAnswer ==
  ASSUME RefinesInv, RefinesInv', mem_cmp, FlatData = MemData, FlatData' = FlatData
  PROVE  \/ FlatRet' = FlatRet
         \/ \E a \in Flat!Address : \E buf \in Flat!Buffer : Flat!mem_cmp(a, buf)
<1>1. /\ FlatRet = Flat!Idle
      /\ Base \in Flat!Address /\ Flat!InRange(Base, req.size) /\ Base' = Base
      /\ req.size \in 1 .. MaxAccess /\ req'.size = req.size /\ req'.op = req.op
      /\ req' # Idle
      /\ Flat!Bytes(Base, req.size) = [i \in 0 .. req.size - 1 |-> ByteIn(mem', req', i)]
  BY LoopEnds
<1>2. req.op = "cmp"
  BY DEF mem_cmp, InLoop
<1>3. CASE req'.done # req'.size
  BY <1>1, <1>2, <1>3 DEF FlatRet, Idle, Flat!Idle
<1>4. CASE req'.done = req'.size
  <2>. DEFINE buf == req'.buf
  <2>1. FlatRet' = [op |-> "cmp", addr |-> Base, buf |-> buf, equal |-> req'.equal]
    BY <1>1, <1>2, <1>4 DEF FlatRet, Base
  <2>2. buf \in Buffer(req.size) /\ req'.equal \in BOOLEAN
    BY <1>1 DEF RefinesInv, PagedInv, PagedTypeOK, RequestOK, Request, Buffer
  <2>3. /\ Flat!Len(buf) = req.size /\ buf \in Flat!Buffer
        /\ buf \in [0 .. req.size - 1 -> Value]
    BY <1>1, <2>2, BufferLen DEF Buffer
  <2>. DEFINE B == Flat!Bytes(Base, req.size)
  <2>4. req'.equal = (B = buf)
    <3>1. CASE req'.equal = TRUE
      <4>1. \A i \in 0 .. req.size - 1 : buf[i] = ByteIn(mem', req', i)
        BY <1>1, <1>2, <1>4, <3>1 DEF RefinesInv, AnswerInv, RightBelow
      <4>2. B = buf
        BY <1>1, <2>3, <4>1
      <4>. QED
        BY <3>1, <4>2, Zenon
    <3>2. CASE req'.equal = FALSE
      <4>1. \E i \in 0 .. req.size - 1 : buf[i] # ByteIn(mem', req', i)
        BY <1>1, <1>2, <1>4, <3>2 DEF RefinesInv, AnswerInv, Differs
      <4>2. B # buf
        BY <1>1, <2>3, <4>1
      <4>. QED
        BY <3>2, <4>2, Zenon
    <3>. QED
      BY <2>2, <3>1, <3>2
  <2>. HIDE DEF buf, B
  <2>5. Flat!mem_cmp(Base, buf)
    <3>1. FlatRet' = [op |-> "cmp", addr |-> Base, buf |-> buf, equal |-> (B = buf)]
      BY <2>1, <2>4, Zenon
    <3>2. B = Flat!Bytes(Base, Flat!Len(buf))
      BY <2>3 DEF B
    <3>3. FlatRet' = [op |-> "cmp", addr |-> Base, buf |-> buf,
                      equal |-> Flat!Bytes(Base, Flat!Len(buf)) = buf]
      BY <3>1, <3>2, Zenon
    <3>. QED
      BY <1>1, <2>3, <3>3, Zenon DEF Flat!mem_cmp
  <2>. QED
    BY <1>1, <2>3, <2>5
<1>. QED
  BY <1>3, <1>4

-----------------------------------------------------------------------------
\* Every step of the paged memory is a step of the flat one, or nothing.
LEMMA StepRefines ==
  ASSUME RefinesInv, RefinesInv', [PagedNext]_pagedVars,
         FlatData = MemData, FlatData' = MemData'
  PROVE  [Flat!FlatNext]_(Flat!flatVars)
<1>1. CASE CallWrite
  BY <1>1, WriteCall DEF Flat!FlatNext
<1>2. CASE ~ CallWrite
  <2>1. FlatData' = FlatData
    BY <1>2, DataKept
  <2>2. CASE mem_read
    BY <2>1, <2>2, ReadAnswer DEF Flat!FlatNext, Flat!flatVars
  <2>3. CASE mem_cmp
    BY <2>1, <2>3, CmpAnswer DEF Flat!FlatNext, Flat!flatVars
  <2>4. CASE CallRead \/ CallCmp
    <3>1. /\ req.op = "none" /\ req'.op \in {"read", "cmp"} /\ req'.done = 0
          /\ req'.size \in 1 .. MaxAccess
      BY <2>4 DEF CallRead, CallCmp, Call, Idle
    <3>2. req'.done # req'.size
      BY <3>1, PagedAssumption
    <3>3. FlatRet' = FlatRet
      BY <3>1, <3>2 DEF FlatRet, Idle
    <3>. QED
      BY <2>1, <3>3 DEF Flat!flatVars
  <2>5. CASE mem_write
    <3>1. req.op = "write" /\ req # Idle
      BY <2>5 DEF mem_write, InLoop, Idle
    <3>2. req'.op = "write"
      BY <2>5, <3>1, AdvanceFields DEF mem_write, RefinesInv, PagedInv, PagedTypeOK
    <3>3. FlatRet' = FlatRet
      BY <3>1, <3>2 DEF FlatRet
    <3>. QED
      BY <2>1, <3>3 DEF Flat!flatVars
  <2>6. CASE Return
    <3>1. FlatRet' = Flat!Idle
      BY <2>6 DEF Return, FlatRet, Idle, Flat!Idle
    <3>2. CASE FlatRet = Flat!Idle
      BY <2>1, <3>1, <3>2 DEF Flat!flatVars
    <3>3. CASE FlatRet # Flat!Idle
      BY <2>1, <3>1, <3>3 DEF Flat!FlatNext, Flat!Return
    <3>. QED
      BY <3>2, <3>3
  <2>7. CASE req' = req
    <3>1. FlatRet' = FlatRet
      BY <2>7 DEF FlatRet
    <3>. QED
      BY <2>1, <3>1 DEF Flat!flatVars
  <2>. QED
    BY <1>2, <2>2, <2>3, <2>4, <2>5, <2>6, <2>7
    DEF PagedNext, pagedVars, mem_destroy, DestroyFrame
<1>. QED
  BY <1>1, <1>2

\* The memory mem_init leaves is a flat memory in its initial state.
LEMMA InitRefines ==
  ASSUME PagedInit, RefinesInv, FlatData = MemData
  PROVE  Flat!FlatInit
<1>1. req = Idle /\ mem \in [Page -> PageData]
  BY DEF PagedInit, mem_init, RefinesInv, PagedInv, PagedTypeOK
<1>2. FlatRet = Flat!Idle /\ \A a : ~ Pending(a)
  BY <1>1 DEF FlatRet, Idle, Flat!Idle, Pending
<1>3. ASSUME NEW a \in 0 .. RamSize - 1 PROVE mem[a \div PageSize][a % PageSize] \in Value
  BY <1>1, AddressSplit DEF PageData
<1>4. MemData \in [0 .. RamSize - 1 -> Value]
  BY <1>2, <1>3 DEF MemData
<1>. QED
  BY <1>2, <1>4 DEF Flat!FlatInit, Flat!Address, RamSize

\* With transfers that succeed, the frames, the LRU list, the dirty bits and
\* the swap files together behave as the one array of bytes that RAM is in the
\* other build.
THEOREM PagedImplementsFlat == IOMayFail = FALSE => (PagedSpec => ImplementsFlat)
<1>. SUFFICES ASSUME IOMayFail = FALSE PROVE PagedSpec => ImplementsFlat
  OBVIOUS
<1>1. PagedInit => RefinesInv
  BY RefinesInvariant
<1>2. RefinesInv /\ [PagedNext]_pagedVars => RefinesInv'
  BY RefinesInvariant
<1>3. RefinesInv => Agree
  BY FlatDataIsMemData DEF Agree
<1>4. PagedInit /\ RefinesInv /\ Agree => Flat!FlatInit
  BY InitRefines DEF Agree
<1>5. RefinesInv /\ RefinesInv' /\ Agree /\ Agree' /\ [PagedNext]_pagedVars
        => [Flat!FlatNext]_(Flat!flatVars)
  BY StepRefines DEF Agree
<1>. QED
  BY <1>1, <1>2, <1>3, <1>4, <1>5, PTL DEF PagedSpec, ImplementsFlat, Flat!FlatSpec
=============================================================================
