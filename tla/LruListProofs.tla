--------------------------- MODULE LruListProofs ---------------------------
(***************************************************************************)
(* The LRU list stays threaded, and its walk finds what is on it, for any  *)
(* number of frames.                                                       *)
(***************************************************************************)
EXTENDS LruList, TLAPS

LruInv == LruTypeOK /\ Threaded /\ NoFrameMissed

\* mem_init links the frames into one list.
LEMMA LruInitInv == LruInit => LruInv
<1>. SUFFICES ASSUME LruInit PROVE LruInv
  OBVIOUS
<1>. USE LruAssumption DEF Frame
<1>1. LruTypeOK
  BY DEF LruInit, LruTypeOK
<1>2. NoFrameMissed
  BY DEF LruInit, NoFrameMissed
<1>3. Threaded
  <2>1. \A f \in Frame : age[f] = f + 1
    BY DEF LruInit
  <2>2. \A f \in Frame : IF f < NFrames - 1 THEN next[f] = f + 1 ELSE next[f] = NULL
    BY DEF LruInit
  <2>3. \A f \in Frame : IF f > 0 THEN prev[f] = f - 1 ELSE prev[f] = NULL
    BY DEF LruInit
  <2>4. ASSUME NEW f \in Frame
        PROVE  /\ IF age[f] = NFrames THEN next[f] = NULL
                  ELSE next[f] \in Frame /\ age[next[f]] = age[f] + 1
               /\ IF age[f] = 1 THEN prev[f] = NULL
                  ELSE prev[f] \in Frame /\ age[prev[f]] + 1 = age[f]
    <3>1. CASE f = 0
      BY <2>1, <2>2, <2>3, <3>1
    <3>2. CASE f > 0 /\ f < NFrames - 1
      BY <2>1, <2>2, <2>3, <3>2
    <3>3. CASE f > 0 /\ f = NFrames - 1
      BY <2>1, <2>2, <2>3, <3>3
    <3>. QED
      BY <3>1, <3>2, <3>3
  <2>5. \A f, g \in Frame : age[f] = age[g] => f = g
    BY <2>1
  <2>6. age[lruListHead] = 1
    BY <2>1 DEF LruInit
  <2>. QED
    BY <2>4, <2>5, <2>6 DEF Threaded
<1>. QED
  BY <1>1, <1>2, <1>3 DEF LruInv

\* Moving any frame but the head to the front, as _swapLruHead does, keeps
\* the list threaded.
LEMMA SwapLruHeadThreads ==
  ASSUME LruTypeOK, Threaded, NEW f \in Frame, f # lruListHead,
         _swapLruHead(f), Used(f)
  PROVE  /\ next' \in [Frame -> Frame \cup {NULL}]
         /\ prev' \in [Frame -> Frame \cup {NULL}]
         /\ lruListHead' \in Frame
         /\ age' \in [Frame -> 1 .. NFrames]
         /\ Threaded'
<1>. USE LruAssumption DEF Frame
<1>1. /\ age[f] \in 2 .. NFrames /\ prev[f] \in Frame /\ age[prev[f]] + 1 = age[f]
      /\ prev[f] # f /\ lruListHead \in Frame /\ age[lruListHead] = 1
  BY SMTT(60) DEF LruTypeOK, Threaded
<1>2. \A g \in Frame :
        /\ age[g] \in 1 .. NFrames
        /\ age'[g] = IF g = f THEN 1 ELSE IF age[g] < age[f] THEN age[g] + 1 ELSE age[g]
        /\ age[g] = age[f] => g = f
  BY DEF Used, LruTypeOK, Threaded
<1>3. age' \in [Frame -> 1 .. NFrames]
  BY <1>1, <1>2, SMTT(60) DEF Used
<1>4. /\ next' \in [Frame -> Frame \cup {NULL}]
      /\ prev' \in [Frame -> Frame \cup {NULL}]
      /\ lruListHead' = f
  BY <1>1 DEF _swapLruHead, LruTypeOK
<1>5. ASSUME NEW g \in Frame, NEW h \in Frame, age'[g] = age'[h]
      PROVE  g = h
  <2>1. age[g] = age[h] => g = h
    BY DEF Threaded
  <2>2. CASE g = f \/ h = f
    BY <1>1, <1>2, <1>5, <2>2
  <2>3. CASE g # f /\ h # f
    BY <1>1, <1>2, <1>5, <2>1, <2>3
  <2>. QED
    BY <2>2, <2>3
<1>6. ASSUME NEW g \in Frame
      PROVE  IF age'[g] = NFrames THEN next'[g] = NULL
             ELSE next'[g] \in Frame /\ age'[next'[g]] = age'[g] + 1
  <2>1. IF age[g] = NFrames THEN next[g] = NULL
        ELSE next[g] \in Frame /\ age[next[g]] = age[g] + 1
    BY DEF Threaded
  <2>2. CASE g = f
    <3>1. next'[g] = lruListHead
      BY <1>1, <2>2 DEF _swapLruHead, LruTypeOK
    <3>. QED
      BY <1>1, <1>2, <2>2, <3>1
  <2>3. CASE g = prev[f]
    <3>1. next'[g] = next[f]
      BY <1>1, <2>3 DEF _swapLruHead, LruTypeOK
    <3>2. IF age[f] = NFrames THEN next[f] = NULL
          ELSE next[f] \in Frame /\ age[next[f]] = age[f] + 1
      BY DEF Threaded
    <3>. QED
      BY <1>1, <1>2, <2>3, <3>1, <3>2
  <2>4. CASE g # f /\ g # prev[f]
    <3>1. next'[g] = next[g]
      BY <1>1, <2>4 DEF _swapLruHead, LruTypeOK
    <3>2. age[g] + 1 # age[f]
      <4>1. age[g] = age[prev[f]] => g = prev[f]
        BY <1>1 DEF Threaded
      <4>. QED
        BY <1>1, <1>2, <2>4, <4>1
    <3>. QED
      BY <1>1, <1>2, <2>1, <2>4, <3>1, <3>2, SMTT(60)
  <2>. QED
    BY <2>2, <2>3, <2>4
<1>7. ASSUME NEW g \in Frame
      PROVE  IF age'[g] = 1 THEN prev'[g] = NULL
             ELSE prev'[g] \in Frame /\ age'[prev'[g]] + 1 = age'[g]
  <2>1. IF age[g] = 1 THEN prev[g] = NULL
        ELSE prev[g] \in Frame /\ age[prev[g]] + 1 = age[g]
    BY DEF Threaded
  <2>2. IF age[f] = NFrames THEN next[f] = NULL
        ELSE next[f] \in Frame /\ age[next[f]] = age[f] + 1
    BY DEF Threaded
  <2>3. CASE g = f
    <3>1. prev'[g] = NULL
      BY <1>1, <2>2, <2>3 DEF _swapLruHead, LruTypeOK
    <3>. QED
      BY <1>2, <2>3, <3>1
  <2>4. CASE g = lruListHead
    <3>1. prev'[g] = f
      BY <1>1, <2>2, <2>4 DEF _swapLruHead, LruTypeOK
    <3>. QED
      BY <1>1, <1>2, <2>4, <3>1
  <2>5. CASE g = next[f] /\ g # f /\ g # lruListHead
    <3>1. prev'[g] = prev[f]
      BY <1>1, <2>2, <2>5 DEF _swapLruHead, LruTypeOK
    <3>2. age[g] = age[f] + 1
      BY <2>2, <2>5
    <3>. QED
      BY <1>1, <1>2, <2>5, <3>1, <3>2
  <2>6. CASE g # next[f] /\ g # f /\ g # lruListHead
    <3>1. prev'[g] = prev[g]
      BY <1>1, <2>2, <2>6 DEF _swapLruHead, LruTypeOK
    <3>2. age[g] # age[f] + 1
      <4>1. age[f] # NFrames => (age[g] = age[next[f]] => g = next[f])
        BY <2>2 DEF Threaded
      <4>. QED
        BY <1>1, <1>2, <2>2, <2>6, <4>1
    <3>3. age[g] # 1
      BY <1>1, <2>6 DEF Threaded
    <3>. QED
      BY <1>1, <1>2, <2>1, <2>6, <3>1, <3>2, <3>3
  <2>. QED
    BY <2>3, <2>4, <2>5, <2>6
<1>. QED
  BY <1>2, <1>3, <1>4, <1>5, <1>6, <1>7 DEF Threaded

\* Each step of a lookup preserves the invariant.
LEMMA LruStepInv == LruInv /\ [LruNext]_lruVars => LruInv'
<1>. SUFFICES ASSUME LruInv, [LruNext]_lruVars PROVE LruInv'
  OBVIOUS
<1>. USE LruAssumption DEF LruInv
<1>1. CASE Lookup
  BY <1>1 DEF Lookup, LruTypeOK, Threaded, NoFrameMissed, listVars, Frame
<1>2. CASE LookupHit
  <2>1. CASE page = lruListHead
    <3>1. age' = age
      BY <1>2, <2>1 DEF LookupHit, Used, LruTypeOK, Threaded, Frame
    <3>. QED
      BY <1>2, <2>1, <3>1 DEF LookupHit, LruTypeOK, Threaded, NoFrameMissed, listVars
  <2>2. CASE page # lruListHead
    <3>1. page \in Frame /\ _swapLruHead(page) /\ Used(page)
      BY <1>2, <2>2 DEF LookupHit, LruTypeOK
    <3>2. page' = NULL /\ want' = NULL
      BY <1>2 DEF LookupHit
    <3>. QED
      BY <2>2, <3>1, <3>2, SwapLruHeadThreads DEF LruTypeOK, NoFrameMissed
  <2>. QED
    BY <2>1, <2>2
<1>3. CASE LookupNext
  <2>1. /\ age[page] # NFrames /\ age[next[page]] = age[page] + 1
        /\ next[page] \in Frame
    BY <1>3 DEF LookupNext, LruTypeOK, Threaded, Frame
  <2>2. want # NULL => age[page] < age[want]
    BY <1>3, SMTT(60) DEF LookupNext, LruTypeOK, Threaded, NoFrameMissed, Frame
  <2>. QED
    BY <1>3, <2>1, <2>2, SMTT(60) DEF LookupNext, LruTypeOK, Threaded, NoFrameMissed, listVars, Frame
<1>4. CASE LookupMiss
  <2>1. /\ page \in Frame /\ _swapLruHead(page) /\ Used(page)
        /\ page' = NULL /\ want' = NULL
    BY <1>4 DEF LookupMiss, LruTypeOK
  <2>2. page # lruListHead
    BY <1>4 DEF LookupMiss, LruTypeOK, Threaded, Frame
  <2>. QED
    BY <2>1, <2>2, SwapLruHeadThreads DEF LruTypeOK, NoFrameMissed
<1>5. CASE UNCHANGED lruVars
  BY <1>5 DEF lruVars, LruTypeOK, Threaded, NoFrameMissed
<1>. QED
  BY <1>1, <1>2, <1>3, <1>4, <1>5 DEF LruNext

\* Whatever frames _lookupPage hits and evicts, in whatever order, next and
\* prev keep threading all of them in order of last use.
THEOREM LruListThreaded == LruSpec => []Threaded
<1>1. LruInv => Threaded
  BY DEF LruInv
<1>. QED
  BY <1>1, LruInitInv, LruStepInv, PTL DEF LruSpec

\* The walk of _lookupPage never passes by the frame it looks for, so that a page
\* is never in two frames.
THEOREM LruWalkMissesNone == LruSpec => []NoFrameMissed
<1>1. LruInv => NoFrameMissed
  BY DEF LruInv
<1>. QED
  BY <1>1, LruInitInv, LruStepInv, PTL DEF LruSpec

\* _lookupPage only ever evicts the least recently used frame, and only when
\* no frame bears the address.
THEOREM LruEvictsOldest == LruSpec => EvictsLru
<1>1. LruInv /\ [LruNext]_lruVars
        => [LookupMiss => want = NULL /\ age[page] = NFrames]_lruVars
  <2>. SUFFICES ASSUME LruInv, LookupMiss PROVE want = NULL /\ age[page] = NFrames
    OBVIOUS
  <2>. QED
    BY LruAssumption DEF LruInv, LookupMiss, LruTypeOK, Threaded, NoFrameMissed, Frame
<1>. QED
  BY <1>1, LruInitInv, LruStepInv, PTL DEF LruSpec, EvictsLru
=============================================================================
