--------------------------- MODULE ConsoleProofs ---------------------------
(***************************************************************************)
(* The console input path, for every size of the buffer, set of characters *)
(* and number of interrupts: the ring buffer is a queue, the PLIC's claim  *)
(* registers are current, and neither an interrupt that is due nor one for *)
(* a waiting character is lost on its way.                                 *)
(***************************************************************************)
EXTENDS Console, TLAPS

\* The fields of the machine that the argument is about
Fields ==
  {"mode", "trap", "trapDelegate", "mip", "mie", "mideleg", "mstatus",
   "pending", "priority", "contexts", "buf", "rdIdx", "wrIdx", "len", "ier", "dlab"}

Shape(s) == Fields \subseteq DOMAIN s

SameHart(s, t) ==
  /\ t.mode = s.mode /\ t.trap = s.trap /\ t.trapDelegate = s.trapDelegate
  /\ t.mie = s.mie /\ t.mideleg = s.mideleg /\ t.mstatus = s.mstatus

SamePlic(s, t) == t.pending = s.pending /\ t.priority = s.priority /\ t.contexts = s.contexts

SameUart(s, t) ==
  /\ t.buf = s.buf /\ t.rdIdx = s.rdIdx /\ t.wrIdx = s.wrIdx /\ t.len = s.len
  /\ t.ier = s.ier /\ t.dlab = s.dlab

\* The PLIC: the UART's is the only interrupt that is ever pending.
ContextRecord ==
  [enable : SUBSET Source, threshold : Nat, claim : Source \cup {0},
   pendingClaims : SUBSET (Source \cup {0})]

PlicOK(s) ==
  /\ s.pending \subseteq {NS16550A_IRQ}
  /\ s.priority \in [Source -> Nat]
  /\ s.contexts \in [Context -> ContextRecord]

\* What ClaimCurrent says, of any machine
Current(s, c) ==
  s.contexts[c].claim =
    IF /\ NS16550A_IRQ \in s.pending \cap s.contexts[c].enable
       /\ NS16550A_IRQ \notin s.contexts[c].pendingClaims
       /\ s.priority[NS16550A_IRQ] > s.contexts[c].threshold
    THEN NS16550A_IRQ ELSE 0

\* The hart has been told of whatever there is to claim.
Raised(s, c) == s.contexts[c].claim # 0 => ContextCause(c) \in s.mip

-----------------------------------------------------------------------------
\* The best interrupt is the UART's, if that is pending with a priority.
LEMMA BestIsUart ==
  ASSUME NEW s, PlicOK(s)
  PROVE  Best(s) = IF NS16550A_IRQ \in s.pending /\ s.priority[NS16550A_IRQ] > 0 THEN NS16550A_IRQ ELSE 0
<1>. DEFINE P == {n \in s.pending \cap Source : s.priority[n] > 0}
<1>1. P = IF NS16550A_IRQ \in s.pending /\ s.priority[NS16550A_IRQ] > 0 THEN {NS16550A_IRQ} ELSE {}
  BY PlicAssumption DEF PlicOK, Source, NS16550A_IRQ
<1>. QED
  BY <1>1 DEF Best

\* Deliver sets the claim of one context and the interrupt it raises, and
\* nothing else.
Delivered(s, c, n, t) ==
  /\ Shape(t) /\ SameHart(s, t) /\ SameUart(s, t)
  /\ t.pending = s.pending /\ t.priority = s.priority
  /\ t.contexts = [s.contexts EXCEPT ![c].claim = IF Due(s, c, n) THEN n ELSE 0]
  /\ t.mip = IF Due(s, c, n) THEN s.mip \cup {ContextCause(c)} ELSE s.mip \ {ContextCause(c)}

\* Deliver does just that.
LEMMA DeliverEffect ==
  ASSUME NEW s, Shape(s), NEW c, NEW n PROVE Delivered(s, c, n, Deliver(s, c, n))
<1>1. CASE Due(s, c, n)
  BY <1>1 DEF Delivered, Deliver, rv_setInterrupt, _pendingIRQ, Shape, Fields, SameHart, SameUart
<1>2. CASE ~Due(s, c, n)
  BY <1>2 DEF Delivered, Deliver, rv_clearInterrupt, Shape, Fields, SameHart, SameUart
<1>. QED
  BY <1>1, <1>2

\* _processInterrupts brings both contexts up to date: their claims are current,
\* and the hart is told of what there is to claim.
Processed(s, t) ==
  /\ Shape(t) /\ SameHart(s, t) /\ SameUart(s, t) /\ PlicOK(t)
  /\ t.pending = s.pending /\ t.priority = s.priority
  /\ \A c \in Context : Current(t, c) /\ Raised(t, c)

\* _processInterrupts does just that.
LEMMA ProcessEffect ==
  ASSUME NEW s, Shape(s), PlicOK(s) PROVE Processed(s, _processInterrupts(s))
<1>. DEFINE n == Best(s)
            q == Deliver(s, 0, n)
            t == Deliver(q, 1, n)
            due(c) == IF Due(s, c, n) THEN n ELSE 0
<1>1. n = IF NS16550A_IRQ \in s.pending /\ s.priority[NS16550A_IRQ] > 0 THEN NS16550A_IRQ ELSE 0
  BY BestIsUart
<1>2. n \in Source \cup {0} /\ NS16550A_IRQ \in Source
  BY <1>1, PlicAssumption DEF Source, NS16550A_IRQ
<1>3. Delivered(s, 0, n, q)
  BY DeliverEffect
<1>4. Delivered(q, 1, n, t)
  <2>1. Shape(q)
    BY <1>3 DEF Delivered
  <2>. QED
    BY <2>1, DeliverEffect
<1>5. _processInterrupts(s) = t
  BY DEF _processInterrupts
<1>. HIDE DEF n, q, t
<1>6. /\ q.contexts = [s.contexts EXCEPT ![0].claim = due(0)]
      /\ PlicOK(q)
  BY <1>2, <1>3 DEF Delivered, PlicOK, Context, ContextRecord
<1>7. Due(q, 1, n) <=> Due(s, 1, n)
  BY <1>3, <1>6 DEF Delivered, Due, PlicOK, Context, ContextRecord
<1>8. /\ t.contexts = [q.contexts EXCEPT ![1].claim = due(1)]
      /\ PlicOK(t)
  BY <1>2, <1>4, <1>6, <1>7, SMTT(60) DEF Delivered, PlicOK, Context, ContextRecord
<1>9. ASSUME NEW c \in Context
      PROVE  /\ t.contexts[c].claim = due(c)
             /\ t.contexts[c].enable = s.contexts[c].enable
             /\ t.contexts[c].threshold = s.contexts[c].threshold
             /\ t.contexts[c].pendingClaims = s.contexts[c].pendingClaims
  BY <1>6, <1>8 DEF PlicOK, Context, ContextRecord
<1>10. t.pending = s.pending /\ t.priority = s.priority /\ Shape(t) /\ SameHart(s, t) /\ SameUart(s, t)
  BY <1>3, <1>4 DEF Delivered, SameHart, SameUart
<1>11. ASSUME NEW c \in Context PROVE Current(t, c)
  <2>1. s.contexts[c].threshold \in Nat /\ s.priority[NS16550A_IRQ] \in Nat
    BY <1>2 DEF PlicOK, ContextRecord
  <2>2. Due(s, c, n) <=> /\ NS16550A_IRQ \in s.pending \cap s.contexts[c].enable
                         /\ NS16550A_IRQ \notin s.contexts[c].pendingClaims
                         /\ s.priority[NS16550A_IRQ] > s.contexts[c].threshold
    BY <1>1, <2>1 DEF Due, NS16550A_IRQ
  <2>3. Due(s, c, n) => n = NS16550A_IRQ
    BY <1>1 DEF Due
  <2>. QED
    BY <1>9, <1>10, <2>2, <2>3 DEF Current
<1>12. ASSUME NEW c \in Context PROVE Raised(t, c)
  BY <1>3, <1>4, <1>7, <1>9 DEF Delivered, Raised, Context, ContextCause, MEI, SEI
<1>. QED
  BY <1>5, <1>8, <1>10, <1>11, <1>12 DEF Processed

\* What _irq does: it signals the PLIC or leaves everything as it is.
Signalled(s, t) ==
  /\ Shape(t) /\ SameHart(s, t) /\ SameUart(s, t) /\ PlicOK(t)
  /\ s.pending \subseteq t.pending
  /\ "DR" \in s.ier /\ s.len > 0 => NS16550A_IRQ \in t.pending
  /\ \A c \in Context : Current(s, c) => Current(t, c)
  /\ \A c \in Context : Raised(t, c) \/ (t.mip = s.mip /\ t.contexts = s.contexts)

\* _irq does just that, and an event for the PLIC sets the interrupt pending.
LEMMA IrqEffect ==
  ASSUME NEW s, Shape(s), PlicOK(s) PROVE Signalled(s, _irq(s))
<1>. DEFINE due == ("DR" \in s.ier /\ s.len > 0) \/ "THRE" \in s.ier
            q == [s EXCEPT !.pending = @ \cup {NS16550A_IRQ}]
<1>1. CASE due
  <2>1. NS16550A_IRQ \in Source
    BY PlicAssumption DEF Source, NS16550A_IRQ
  <2>2. _irq(s) = _processInterrupts(q)
    BY <1>1, <2>1 DEF _irq, plic_interrupt
  <2>3. /\ Shape(q) /\ PlicOK(q) /\ SameHart(s, q) /\ SameUart(s, q)
        /\ q.pending = s.pending \cup {NS16550A_IRQ}
    BY DEF Shape, Fields, PlicOK, SameHart, SameUart
  <2>. HIDE DEF q
  <2>4. Processed(q, _irq(s))
    BY <2>2, <2>3, ProcessEffect
  <2>. QED
    BY <2>3, <2>4 DEF Processed, Signalled, SameHart, SameUart
<1>2. CASE ~due
  BY <1>2 DEF _irq, Signalled, SameHart, SameUart
<1>. QED
  BY <1>1, <1>2

-----------------------------------------------------------------------------
\* The guest's mode, and what it has made of the hart.  The interrupt that is
\* taken is the external one, it goes to the guest, and the handler returns to
\* the guest.
HartOK ==
  /\ ctx \in Context
  /\ m.mode = GuestMode
  /\ m.mstatus \in Mstatus /\ ~m.mstatus.TSR
  /\ m.mie \subseteq {ExtInt}
  /\ m.mideleg = IF ctx = 1 THEN S_RW_MASK ELSE {}
  /\ m.trap = (drv = "trap")
  /\ drv = "trap" => m.trapDelegate = (ctx = 1)
  /\ drv \notin {"none", "trap"} => IF ctx = 1 THEN m.mstatus.SPP = S ELSE m.mstatus.MPP = M

\* The UART.  The divisor latch is on only with interrupts off, so never in
\* the handler, where it would hide the receiver holding register; and the
\* handler reads that only when there is a character.
UartOK ==
  /\ m.buf \in [0 .. NS16550A_BUF_SIZE - 1 -> Char \cup {NUL}]
  /\ m.rdIdx \in 0 .. NS16550A_BUF_SIZE - 1 /\ m.wrIdx \in 0 .. NS16550A_BUF_SIZE - 1
  /\ m.len \in 0 .. NS16550A_BUF_SIZE
  /\ m.ier \subseteq {"DR", "THRE"} /\ m.dlab \in BOOLEAN
  /\ m.dlab => drv = "none" /\ ~Enabled
  /\ drv = "rhr" => m.len > 0
  /\ queue \in Seq(Char)

DriverOK ==
  /\ drv \in {"none", "trap", "claim", "isr", "lsr", "rhr", "thr", "complete", "ret"}
  /\ id \in Source \cup {0}

ConsoleInv ==
  /\ Shape(m) /\ PlicOK(m) /\ HartOK /\ UartOK /\ DriverOK
  /\ RingIsFifo /\ ClaimCurrent /\ DeliveryNotLost /\ UnreadSignalled

\* The type invariant is part of it.
LEMMA ConsoleInvType == ConsoleInv => ConsoleTypeOK
<1>. SUFFICES ASSUME ConsoleInv PROVE ConsoleTypeOK
  OBVIOUS
<1>1. m.pending \subseteq Source
  BY PlicAssumption DEF ConsoleInv, PlicOK, Source, NS16550A_IRQ
<1>2. m.priority \in [Source -> Nat] /\ m.contexts \in [Context -> ContextRecord]
  BY DEF ConsoleInv, PlicOK
<1>. QED
  BY <1>1, <1>2 DEF ConsoleInv, UartOK, DriverOK, ConsoleTypeOK, ContextRecord

\* It holds of the machine that main sets up.
LEMMA ConsoleInitInv == ConsoleInit => ConsoleInv
<1>. SUFFICES ASSUME ConsoleInit PROVE ConsoleInv
  OBVIOUS
<1>1. /\ m.mode = GuestMode /\ m.trap = FALSE /\ m.mip = {} /\ m.mie = {}
      /\ m.mideleg = IF ctx = 1 THEN S_RW_MASK ELSE {}
      /\ m.mstatus = [MIE |-> FALSE, MPIE |-> FALSE, MPP |-> U, SIE |-> FALSE,
                      SPIE |-> FALSE, SPP |-> U, TSR |-> FALSE, TW |-> FALSE]
      /\ m.pending = {} /\ m.priority = [n \in Source |-> 0]
      /\ m.contexts = plic_init.contexts
      /\ m.buf = [k \in 0 .. NS16550A_BUF_SIZE - 1 |-> NUL] /\ m.rdIdx = 0 /\ m.wrIdx = 0 /\ m.len = 0
      /\ m.ier = {} /\ m.dlab = FALSE
  BY DEF ConsoleInit, rv_reset, plic_init, ns16550a_init
<1>2. Shape(m)
  BY DEF ConsoleInit, rv_reset, plic_init, ns16550a_init, Shape, Fields
<1>3. ctx \in Context /\ drv = "none" /\ id = 0 /\ queue = <<>>
  BY DEF ConsoleInit
<1>4. PlicOK(m) /\ ClaimCurrent
  BY <1>1 DEF PlicOK, ContextRecord, plic_init, ClaimCurrent
<1>5. HartOK
  <2>1. m.mstatus \in Mstatus /\ ~m.mstatus.TSR
    BY <1>1 DEF Mstatus, Modes
  <2>2. m.trap = (drv = "trap")
    BY <1>1, <1>3
  <2>. QED
    BY <1>1, <1>3, <2>1, <2>2 DEF HartOK
<1>6. UartOK
  <2>1. 0 \in 0 .. NS16550A_BUF_SIZE - 1 /\ 0 \in 0 .. NS16550A_BUF_SIZE
    BY UartAssumption
  <2>2. m.buf \in [0 .. NS16550A_BUF_SIZE - 1 -> Char \cup {NUL}]
    BY <1>1
  <2>3. queue \in Seq(Char)
    BY <1>3
  <2>4. m.dlab \in BOOLEAN /\ ~m.dlab
    BY <1>1
  <2>. QED
    BY <1>1, <1>3, <2>1, <2>2, <2>3, <2>4 DEF UartOK
<1>7. RingIsFifo
  <2>1. Len(queue) = 0 /\ (0 + 0) % NS16550A_BUF_SIZE = 0 /\ 1 .. 0 = {}
    BY <1>3, UartAssumption
  <2>. QED
    BY <1>1, <2>1 DEF RingIsFifo
<1>. QED
  BY <1>1, <1>2, <1>3, <1>4, <1>5, <1>6, <1>7
     DEF ConsoleInv, DriverOK, DeliveryNotLost, UnreadSignalled, plic_init

-----------------------------------------------------------------------------
\* The ring buffer, of any machine s that holds the characters q
RingOK(s) ==
  /\ s.buf \in [0 .. NS16550A_BUF_SIZE - 1 -> Char \cup {NUL}]
  /\ s.rdIdx \in 0 .. NS16550A_BUF_SIZE - 1 /\ s.wrIdx \in 0 .. NS16550A_BUF_SIZE - 1
  /\ s.len \in 0 .. NS16550A_BUF_SIZE

Fifo(s, q) ==
  /\ s.len = Len(q)
  /\ s.wrIdx = (s.rdIdx + s.len) % NS16550A_BUF_SIZE
  /\ \A k \in 1 .. s.len : s.buf[(s.rdIdx + k - 1) % NS16550A_BUF_SIZE] = q[k]

\* An index less than two rounds into a ring of B
LEMMA WrapOnce ==
  ASSUME NEW B \in Nat \ {0}, NEW x \in 0 .. 2 * B - 1
  PROVE  /\ x % B = IF x < B THEN x ELSE x - B
         /\ x % B \in 0 .. B - 1
OBVIOUS

\* Indices may be added before or after they are wrapped.
LEMMA WrapAdd ==
  ASSUME NEW B \in Nat \ {0}, NEW x \in 0 .. 2 * B - 1, NEW k \in 0 .. 2 * B - 1, x + k \in 0 .. 2 * B - 1
  PROVE  ((x % B) + k) % B = (x + k) % B
<1>. DEFINE y == x % B
            u == y + k
            v == x + k
<1>1. y \in 0 .. B - 1 /\ y = IF x < B THEN x ELSE x - B
  BY WrapOnce
<1>. HIDE DEF y
<1>2. u \in 0 .. 2 * B - 1 /\ v \in 0 .. 2 * B - 1 /\ u = IF x < B THEN v ELSE v - B
  BY <1>1
<1>. HIDE DEF u, v
<1>3. u % B = IF u < B THEN u ELSE u - B
  BY <1>2, WrapOnce
<1>4. v % B = IF v < B THEN v ELSE v - B
  BY <1>2, WrapOnce
<1>5. u % B = v % B
  <2>1. v >= x
    BY DEF v
  <2>. QED
    BY <1>2, <1>3, <1>4, <2>1
<1>. QED
  BY <1>5 DEF u, v, y

\* Indices less than a round apart do not meet.
LEMMA WrapApart ==
  ASSUME NEW B \in Nat \ {0}, NEW x \in 0 .. 2 * B - 1, NEW y \in 0 .. 2 * B - 1, x < y, y < x + B
  PROVE  x % B # y % B
<1>1. x % B = IF x < B THEN x ELSE x - B
  BY WrapOnce
<1>2. y % B = IF y < B THEN y ELSE y - B
  BY WrapOnce
<1>. QED
  BY <1>1, <1>2

\* Pushing a character into a buffer that is not full appends it to the queue:
\* it overwrites none of the characters that wait.
LEMMA PushIsAppend ==
  ASSUME NEW s, Shape(s), RingOK(s), NEW q \in Seq(Char), Fifo(s, q), NEW ch \in Char,
         s.len < NS16550A_BUF_SIZE, NEW t,
         t.buf = [s.buf EXCEPT ![s.wrIdx] = ch], t.wrIdx = _incBufIdx(s.wrIdx),
         t.len = s.len + 1, t.rdIdx = s.rdIdx
  PROVE  RingOK(t) /\ Fifo(t, Append(q, ch)) /\ Append(q, ch) \in Seq(Char)
<1>. DEFINE B == NS16550A_BUF_SIZE
            rd == s.rdIdx
            wr == s.wrIdx
            n == s.len
<1>1. B \in Nat \ {0} /\ rd \in 0 .. B - 1 /\ wr \in 0 .. B - 1 /\ n \in 0 .. B - 1 /\ n = Len(q)
  BY UartAssumption DEF RingOK, Fifo
<1>2. wr = (rd + n) % B
  BY DEF Fifo
<1>3. Append(q, ch) \in Seq(Char) /\ Len(Append(q, ch)) = n + 1
      /\ Append(q, ch)[n + 1] = ch /\ \A k \in 1 .. n : Append(q, ch)[k] = q[k]
  BY <1>1
<1>4. t.wrIdx = (wr + 1) % B
  BY DEF _incBufIdx
<1>5. \A k \in 1 .. n : s.buf[(rd + k - 1) % B] = q[k]
  BY DEF Fifo
<1>. HIDE DEF B, rd, wr, n
<1>6. rd + n \in 0 .. 2 * B - 1 /\ 1 \in 0 .. 2 * B - 1 /\ rd + n + 1 \in 0 .. 2 * B - 1
  BY <1>1
<1>7. (wr + 1) % B = (rd + n + 1) % B /\ (wr + 1) % B \in 0 .. B - 1
  <2>1. (((rd + n) % B) + 1) % B = (rd + n + 1) % B
    BY <1>1, <1>6, WrapAdd, Zenon
  <2>2. (wr + 1) % B \in 0 .. B - 1
    BY <1>1
  <2>. QED
    BY <1>2, <2>1, <2>2
<1>8. ASSUME NEW k \in 1 .. n PROVE (rd + k - 1) % B # wr /\ (rd + k - 1) % B \in 0 .. B - 1
  <2>1. rd + k - 1 \in 0 .. 2 * B - 1 /\ rd + k - 1 < rd + n /\ rd + n < rd + k - 1 + B
    BY <1>1
  <2>2. (rd + k - 1) % B # (rd + n) % B
    BY <1>1, <1>6, <2>1, WrapApart, Zenon
  <2>3. (rd + k - 1) % B \in 0 .. B - 1
    BY <1>1, <2>1
  <2>. QED
    BY <1>2, <2>2, <2>3
<1>9. t.buf = [s.buf EXCEPT ![wr] = ch] /\ s.buf \in [0 .. B - 1 -> Char \cup {NUL}]
  BY DEF RingOK, wr, B
<1>10. ASSUME NEW k \in 1 .. n + 1 PROVE t.buf[(rd + k - 1) % B] = Append(q, ch)[k]
  <2>1. CASE k = n + 1
    <3>1. rd + k - 1 = rd + n
      BY <1>1, <2>1
    <3>2. (rd + k - 1) % B = wr
      BY <1>2, <3>1
    <3>. QED
      BY <1>1, <1>3, <1>9, <2>1, <3>2
  <2>2. CASE k # n + 1
    <3>1. k \in 1 .. n
      BY <1>1, <2>2
    <3>. QED
      BY <1>3, <1>5, <1>8, <1>9, <3>1
  <2>. QED
    BY <2>1, <2>2
<1>11. t.len = n + 1 /\ t.rdIdx = rd
  BY DEF n, rd
<1>12. RingOK(t)
  <2>1. t.len \in 0 .. B
    BY <1>1, <1>11
  <2>2. t.buf \in [0 .. B - 1 -> Char \cup {NUL}]
    BY <1>1, <1>9
  <2>. QED
    BY <1>1, <1>4, <1>7, <1>11, <2>1, <2>2 DEF RingOK, B
<1>13. Fifo(t, Append(q, ch))
  <2>1. t.wrIdx = (t.rdIdx + t.len) % B
    <3>1. rd + (n + 1) = rd + n + 1
      BY <1>1
    <3>. QED
      BY <1>4, <1>7, <1>11, <3>1
  <2>. QED
    BY <1>3, <1>10, <1>11, <2>1 DEF Fifo, B
<1>. QED
  BY <1>3, <1>12, <1>13

\* Taking a character from a buffer that is not empty is taking the queue's head.
LEMMA PopIsTail ==
  ASSUME NEW s, Shape(s), RingOK(s), NEW q \in Seq(Char), Fifo(s, q), s.len > 0, NEW t,
         t.buf = s.buf, t.wrIdx = s.wrIdx, t.len = s.len - 1, t.rdIdx = _incBufIdx(s.rdIdx)
  PROVE  RingOK(t) /\ Fifo(t, Tail(q)) /\ Tail(q) \in Seq(Char)
<1>. DEFINE B == NS16550A_BUF_SIZE
            rd == s.rdIdx
            n == s.len
            nx == (rd + 1) % B
<1>1. B \in Nat \ {0} /\ rd \in 0 .. B - 1 /\ n \in 1 .. B /\ n = Len(q)
  BY UartAssumption DEF RingOK, Fifo
<1>2. Tail(q) \in Seq(Char) /\ Len(Tail(q)) = n - 1 /\ \A k \in 1 .. n - 1 : Tail(q)[k] = q[k + 1]
  <2>1. q # <<>>
    BY <1>1
  <2>. QED
    BY <1>1, <2>1
<1>3. t.rdIdx = nx
  BY DEF _incBufIdx
<1>4. \A k \in 1 .. n : s.buf[(rd + k - 1) % B] = q[k]
  BY DEF Fifo
<1>5. s.wrIdx = (rd + n) % B
  BY DEF Fifo
<1>. HIDE DEF B, rd, n, nx
<1>6. nx \in 0 .. B - 1
  BY <1>1 DEF nx
<1>7. ASSUME NEW k \in 0 .. n - 1 PROVE (nx + k) % B = (rd + 1 + k) % B
  <2>1. rd + 1 \in 0 .. 2 * B - 1 /\ k \in 0 .. 2 * B - 1 /\ rd + 1 + k \in 0 .. 2 * B - 1
    BY <1>1
  <2>. QED
    BY <1>1, <2>1, WrapAdd, Zenon DEF nx
<1>8. t.len = n - 1
  BY DEF n
<1>9. RingOK(t)
  <2>1. nx \in 0 .. B - 1 /\ n - 1 \in 0 .. B
    BY <1>1, <1>6
  <2>. QED
    BY <1>3, <1>8, <2>1 DEF RingOK, B
<1>10. t.wrIdx = (t.rdIdx + t.len) % B
  <2>1. n - 1 \in 0 .. n - 1 /\ rd + 1 + (n - 1) = rd + n
    BY <1>1
  <2>2. (nx + (n - 1)) % B = (rd + 1 + (n - 1)) % B
    BY <1>7, <2>1
  <2>. QED
    BY <1>3, <1>5, <1>8, <2>1, <2>2
<1>11. ASSUME NEW k \in 1 .. n - 1 PROVE t.buf[(nx + k - 1) % B] = Tail(q)[k]
  <2>1. /\ k - 1 \in 0 .. n - 1 /\ nx + k - 1 = nx + (k - 1) /\ k + 1 \in 1 .. n
        /\ rd + 1 + (k - 1) = rd + (k + 1) - 1
    BY <1>1, <1>6
  <2>2. (nx + k - 1) % B = (rd + (k + 1) - 1) % B
    BY <1>7, <2>1
  <2>. QED
    BY <1>2, <1>4, <2>1, <2>2
<1>12. Fifo(t, Tail(q))
  BY <1>2, <1>3, <1>8, <1>10, <1>11 DEF Fifo, B
<1>. QED
  BY <1>2, <1>9, <1>12

-----------------------------------------------------------------------------
InHandler(d) == d \in {"claim", "isr", "lsr", "rhr", "thr", "complete", "ret"}

\* A step that leaves the hart alone, and neither enters nor leaves the handler
LEMMA HartKept ==
  ASSUME HartOK, SameHart(m, m'), ctx' = ctx, drv' = drv \/ (InHandler(drv) /\ InHandler(drv'))
  PROVE  HartOK'
BY DEF HartOK, SameHart, GuestMode, ExtInt, InHandler

\* A step that leaves the UART and the queue alone
LEMMA UartKept ==
  ASSUME UartOK, RingIsFifo, SameUart(m, m'), m'.mstatus = m.mstatus, ctx' = ctx, queue' = queue,
         m.dlab => drv' = "none", drv' = "rhr" => m.len > 0
  PROVE  UartOK' /\ RingIsFifo'
<1>1. UartOK'
  BY DEF UartOK, SameUart, Enabled
<1>2. RingIsFifo'
  BY DEF RingIsFifo, SameUart
<1>. QED
  BY <1>1, <1>2

\* A store to the PLIC: it changes s, and reprocesses.
LEMMA PlicStep ==
  ASSUME ConsoleInv, NEW s, Shape(s), PlicOK(s), SameHart(m, s), SameUart(m, s), s.pending = m.pending,
         m' = _processInterrupts(s), UNCHANGED <<id, queue, ctx>>,
         drv' = drv \/ (drv = "complete" /\ drv' = "claim")
  PROVE  ConsoleInv'
<1>1. Processed(s, m')
  BY ProcessEffect
<1>2. Shape(m)' /\ PlicOK(m)' /\ SameHart(m, m') /\ SameUart(m, m') /\ m'.pending = m.pending
  BY <1>1 DEF Processed, SameHart, SameUart
<1>3. HartOK'
  BY <1>2, HartKept DEF ConsoleInv, InHandler
<1>4. UartOK' /\ RingIsFifo'
  BY <1>2, UartKept DEF ConsoleInv, UartOK, SameHart
<1>5. ClaimCurrent'
  BY <1>1 DEF Processed, Current, ClaimCurrent
<1>6. DeliveryNotLost'
  BY <1>1 DEF Processed, Raised, DeliveryNotLost, ExtInt, ConsoleInv, HartOK
<1>7. UnreadSignalled' /\ DriverOK'
  BY <1>2 DEF ConsoleInv, DriverOK, UnreadSignalled, SameUart
<1>. QED
  BY <1>2, <1>3, <1>4, <1>5, <1>6, <1>7 DEF ConsoleInv

\* A step that leaves the PLIC alone and neither clears an interrupt nor moves
\* the driver on
LEMMA PlicKept ==
  ASSUME ConsoleInv, Shape(m'), SamePlic(m, m'), SameUart(m, m'), m'.mip = m.mip,
         UNCHANGED <<id, queue, ctx, drv>>
  PROVE  Shape(m)' /\ PlicOK(m)' /\ ClaimCurrent' /\ DeliveryNotLost' /\ UnreadSignalled' /\ DriverOK'
BY DEF ConsoleInv, SamePlic, SameUart, PlicOK, ClaimCurrent, DeliveryNotLost, UnreadSignalled, DriverOK,
       ExtInt

\* What _writeMstatus does with an mstatus of the guest's
LEMMA MstatusEffect ==
  ASSUME NEW s, Shape(s), NEW val \in Mstatus
  PROVE  LET t == _writeMstatus(s, val) IN
         /\ Shape(t) /\ SamePlic(s, t) /\ SameUart(s, t) /\ t.mip = s.mip
         /\ t.mode = s.mode /\ t.trap = s.trap /\ t.trapDelegate = s.trapDelegate
         /\ t.mie = s.mie /\ t.mideleg = s.mideleg
         /\ t.mstatus = val
<1>1. [val EXCEPT !.MPP = IF @ \in {U, S} THEN @ ELSE M] = val
  BY DEF Mstatus, Modes
<1>. QED
  BY <1>1 DEF _writeMstatus, _pendingIRQ, Shape, Fields, SamePlic, SameUart

\* The guest turns its interrupts on, with the divisor latch off, or off.
LEMMA GuestSetsIE ==
  ASSUME ConsoleInv, NEW on \in BOOLEAN, on => ~m.dlab, drv = "none",
         m' = _writeMstatus(m, SetIE(on)), UNCHANGED <<drv, id, queue, ctx>>
  PROVE  ConsoleInv'
<1>1. SetIE(on) \in Mstatus /\ ~SetIE(on).TSR
  BY DEF SetIE, ConsoleInv, HartOK, Mstatus
<1>2. IF ctx = 1 THEN SetIE(on).SIE = on ELSE SetIE(on).MIE = on
  BY DEF SetIE, ConsoleInv, HartOK, Mstatus
<1>3. /\ Shape(m') /\ SamePlic(m, m') /\ SameUart(m, m') /\ m'.mip = m.mip
      /\ m'.mode = m.mode /\ m'.trap = m.trap /\ m'.trapDelegate = m.trapDelegate
      /\ m'.mie = m.mie /\ m'.mideleg = m.mideleg
      /\ m'.mstatus = SetIE(on)
  BY <1>1, MstatusEffect DEF ConsoleInv
<1>4. HartOK'
  BY <1>1, <1>3 DEF ConsoleInv, HartOK, GuestMode, ExtInt
<1>5. UartOK'
  BY <1>2, <1>3 DEF ConsoleInv, UartOK, SameUart, Enabled
<1>6. RingIsFifo'
  BY <1>3 DEF ConsoleInv, RingIsFifo, SameUart
<1>. QED
  BY <1>3, <1>4, <1>5, <1>6, PlicKept DEF ConsoleInv

\* The guest writes its external interrupt to mie.
LEMMA GuestWritesMie ==
  ASSUME ConsoleInv, m' = _writeMie(m, {ExtInt}), UNCHANGED <<drv, id, queue, ctx>>
  PROVE  ConsoleInv'
<1>1. /\ Shape(m') /\ SamePlic(m, m') /\ SameUart(m, m') /\ m'.mip = m.mip
      /\ m'.mode = m.mode /\ m'.trap = m.trap /\ m'.trapDelegate = m.trapDelegate
      /\ m'.mstatus = m.mstatus /\ m'.mideleg = m.mideleg
      /\ m'.mie = (m.mie \ M_RW_MASK) \cup ({ExtInt} \cap M_RW_MASK)
  BY DEF ConsoleInv, _writeMie, _pendingIRQ, Shape, Fields, SamePlic, SameUart
<1>2. HartOK'
  BY <1>1 DEF ConsoleInv, HartOK, GuestMode, ExtInt
<1>. QED
  BY <1>1, <1>2, UartKept, PlicKept DEF ConsoleInv, UartOK

\* A store to the interrupt enable register signals what is due.
LEMMA IerStep ==
  ASSUME ConsoleInv, NEW v \in SUBSET {"DR", "THRE"}, m' = UartWrite(m, "IER", v),
         UNCHANGED <<id, queue, ctx>>, drv' = drv \/ (drv = "thr" /\ drv' = "isr")
  PROVE  ConsoleInv'
<1>1. CASE m.dlab
  <2>1. m' = m /\ drv' = drv
    BY <1>1 DEF UartWrite, ConsoleInv, UartOK
  <2>. QED
    BY <2>1, SMTT(60) DEF ConsoleInv, HartOK, UartOK, DriverOK, RingIsFifo, ClaimCurrent, DeliveryNotLost,
                UnreadSignalled, GuestMode, ExtInt, Enabled
<1>2. CASE ~m.dlab
  <2>. DEFINE s == [m EXCEPT !.ier = v]
  <2>1. m' = _irq(s)
    BY <1>2 DEF UartWrite
  <2>2. /\ Shape(s) /\ PlicOK(s) /\ SameHart(m, s) /\ SamePlic(m, s) /\ s.mip = m.mip
        /\ s.buf = m.buf /\ s.rdIdx = m.rdIdx /\ s.wrIdx = m.wrIdx /\ s.len = m.len /\ s.dlab = m.dlab
        /\ s.ier = v
    BY DEF ConsoleInv, Shape, Fields, SameHart, SamePlic, PlicOK
  <2>. HIDE DEF s
  <2>3. Signalled(s, m')
    BY <2>1, <2>2, IrqEffect
  <2>4. SameHart(m, m') /\ Shape(m)' /\ PlicOK(m)'
    BY <2>2, <2>3 DEF Signalled, SameHart
  <2>5. HartOK'
    BY <2>4, HartKept DEF ConsoleInv, InHandler
  <2>6. /\ m'.buf = m.buf /\ m'.rdIdx = m.rdIdx /\ m'.wrIdx = m.wrIdx /\ m'.len = m.len
        /\ m'.ier = v /\ m'.dlab = m.dlab /\ m'.mstatus = m.mstatus
    BY <2>2, <2>3, <2>4 DEF Signalled, SameUart, SameHart
  <2>7. UartOK' /\ RingIsFifo'
    <3>1. UartOK'
      BY <1>2, <2>6 DEF ConsoleInv, UartOK
    <3>2. RingIsFifo'
      BY <2>6 DEF ConsoleInv, RingIsFifo
    <3>. QED
      BY <3>1, <3>2
  <2>8. ClaimCurrent'
    BY <2>2, <2>3 DEF ConsoleInv, ClaimCurrent, Current, SamePlic, Signalled
  <2>9. DeliveryNotLost'
    BY <2>2, <2>3 DEF ConsoleInv, HartOK, DeliveryNotLost, Raised, ExtInt, SamePlic, Signalled
  <2>10. UnreadSignalled' /\ DriverOK'
    BY <2>2, <2>3, <2>6 DEF ConsoleInv, UnreadSignalled, DriverOK, Signalled
  <2>. QED
    BY <2>4, <2>5, <2>7, <2>8, <2>9, <2>10 DEF ConsoleInv
<1>. QED
  BY <1>1, <1>2

\* The divisor latch is turned on with interrupts off, and off at any time.
LEMMA LcrStep ==
  ASSUME ConsoleInv, NEW v \in BOOLEAN, v => ~Enabled, m' = UartWrite(m, "LCR", v), drv = "none",
         UNCHANGED <<drv, id, queue, ctx>>
  PROVE  ConsoleInv'
<1>1. /\ Shape(m') /\ SameHart(m, m') /\ SamePlic(m, m') /\ m'.mip = m.mip
      /\ m'.buf = m.buf /\ m'.rdIdx = m.rdIdx /\ m'.wrIdx = m.wrIdx /\ m'.len = m.len
      /\ m'.ier = m.ier /\ m'.dlab = v
  BY DEF UartWrite, ConsoleInv, Shape, Fields, SameHart, SamePlic
<1>2. HartOK'
  BY <1>1, HartKept DEF ConsoleInv
<1>3. UartOK'
  BY <1>1 DEF ConsoleInv, UartOK, Enabled, SameHart
<1>4. RingIsFifo'
  BY <1>1 DEF ConsoleInv, RingIsFifo
<1>5. PlicOK(m)' /\ ClaimCurrent' /\ DeliveryNotLost' /\ UnreadSignalled' /\ DriverOK'
  BY <1>1 DEF ConsoleInv, SamePlic, PlicOK, ClaimCurrent, DeliveryNotLost, UnreadSignalled, DriverOK, ExtInt
<1>. QED
  BY <1>1, <1>2, <1>3, <1>4, <1>5 DEF ConsoleInv

\* A character is typed.
LEMMA GetchStep == ASSUME ConsoleInv, ui_getch PROVE ConsoleInv'
<1>1. PICK ch \in Char : /\ m' = ns16550_push(m, ch)
                         /\ queue' = IF Len(queue) < NS16550A_BUF_SIZE THEN Append(queue, ch) ELSE queue
  BY DEF ui_getch
<1>2. UNCHANGED <<drv, id, ctx>>
  BY DEF ui_getch
<1>3. m.len = Len(queue) /\ m.len \in Nat /\ NS16550A_BUF_SIZE \in Nat
  BY UartAssumption DEF ConsoleInv, RingIsFifo, UartOK
<1>4. CASE m.len >= NS16550A_BUF_SIZE
  <2>1. m' = m /\ queue' = queue
    BY <1>1, <1>3, <1>4 DEF ns16550_push
  <2>. QED
    BY <1>2, <2>1 DEF ConsoleInv, HartOK, UartOK, DriverOK, RingIsFifo, ClaimCurrent, DeliveryNotLost,
                      UnreadSignalled, GuestMode, ExtInt, Enabled
<1>5. CASE m.len < NS16550A_BUF_SIZE
  <2>. DEFINE s == [m EXCEPT !.buf[m.wrIdx] = ch, !.wrIdx = _incBufIdx(@), !.len = @ + 1]
  <2>1. m' = _irq(s) /\ queue' = Append(queue, ch)
    BY <1>1, <1>3, <1>5 DEF ns16550_push
  <2>2. /\ Shape(s) /\ PlicOK(s) /\ SameHart(m, s) /\ SamePlic(m, s) /\ s.mip = m.mip
        /\ s.buf = [m.buf EXCEPT ![m.wrIdx] = ch] /\ s.wrIdx = _incBufIdx(m.wrIdx)
        /\ s.len = m.len + 1 /\ s.rdIdx = m.rdIdx /\ s.ier = m.ier /\ s.dlab = m.dlab
    BY DEF ConsoleInv, Shape, Fields, SameHart, SamePlic, PlicOK
  <2>. HIDE DEF s
  <2>3. Signalled(s, m')
    BY <2>1, <2>2, IrqEffect
  <2>4. SameHart(m, m') /\ Shape(m)' /\ PlicOK(m)' /\ SameUart(s, m')
    BY <2>2, <2>3 DEF Signalled, SameHart
  <2>5. HartOK'
    BY <1>2, <2>4, HartKept DEF ConsoleInv
  <2>6. RingOK(m) /\ Fifo(m, queue) /\ queue \in Seq(Char) /\ Shape(m)
    BY DEF ConsoleInv, UartOK, RingIsFifo, RingOK, Fifo
  <2>7. RingOK(m') /\ Fifo(m', queue') /\ queue' \in Seq(Char)
    BY <1>5, <2>1, <2>2, <2>4, <2>6, PushIsAppend DEF SameUart
  <2>8. UartOK'
    <3>1. m'.ier = m.ier /\ m'.dlab = m.dlab /\ m'.mstatus = m.mstatus /\ m'.len = m.len + 1
      BY <2>2, <2>4 DEF SameUart, SameHart
    <3>. QED
      BY <1>2, <1>3, <2>7, <3>1 DEF ConsoleInv, UartOK, RingOK, Enabled
  <2>9. RingIsFifo'
    BY <2>7 DEF Fifo, RingIsFifo
  <2>10. ClaimCurrent'
    BY <2>2, <2>3 DEF ConsoleInv, ClaimCurrent, Current, SamePlic, Signalled
  <2>11. DeliveryNotLost'
    BY <1>2, <2>2, <2>3 DEF ConsoleInv, HartOK, DeliveryNotLost, Raised, ExtInt, SamePlic, Signalled
  <2>12. UnreadSignalled' /\ DriverOK'
    <3>1. "DR" \in m'.ier => NS16550A_IRQ \in m'.pending
      BY <1>3, <2>2, <2>3 DEF Signalled, SameUart
    <3>. QED
      BY <1>2, <3>1 DEF ConsoleInv, UnreadSignalled, DriverOK
  <2>. QED
    BY <2>4, <2>5, <2>8, <2>9, <2>10, <2>11, <2>12 DEF ConsoleInv
<1>. QED
  BY <1>3, <1>4, <1>5

-----------------------------------------------------------------------------
\* What the hart does when it takes an interrupt: it notes the trap, to the
\* mode that is to handle it, and clears the interrupt.
Interrupted(s, d, t) ==
  /\ Shape(t) /\ SamePlic(s, t) /\ SameUart(s, t)
  /\ t.mode = s.mode /\ t.mie = s.mie /\ t.mideleg = s.mideleg /\ t.mstatus = s.mstatus
  /\ t.trap = TRUE /\ t.trapDelegate = d

\* _interrupt does just that.
LEMMA InterruptEffect ==
  ASSUME NEW s, Shape(s), NEW n, NEW d \in BOOLEAN PROVE Interrupted(s, d, _interrupt(s, n, d))
BY DEF Interrupted, _interrupt, rv_clearInterrupt, Shape, Fields, SamePlic, SameUart

\* Of the supervisor's vectors the external interrupt is the first.
LEMMA FirstSEI == First(SVectors, {SEI}) = SEI
<1>. DEFINE I == {i \in DOMAIN SVectors : SVectors[i] \in {SEI}}
<1>1. I = {1}
  BY DEF SVectors, SEI, SSI, STI, LCOFI
<1>2. (CHOOSE i \in I : \A j \in I : i <= j) = 1
  BY <1>1
<1>. QED
  BY <1>2 DEF First, SVectors

\* An interrupt is taken only with the guest's interrupts enabled, and goes to
\* the guest.
LEMMA TakeEffect ==
  ASSUME ConsoleInv, Take
  PROVE  Interrupted(m, ctx = 1, m') /\ Enabled
<1>1. /\ drv = "none" /\ m' = _processPendingInterrupts(m) /\ m'.trap
  BY DEF Take
<1>2. ~m.trap /\ Shape(m) /\ m.mode = GuestMode /\ m.mie \subseteq {ExtInt} /\ ctx \in {0, 1}
  BY <1>1 DEF ConsoleInv, HartOK, Context
<1>3. CASE ctx = 0
  <2>1. m.mode = M /\ m.mie \subseteq {MEI}
    BY <1>2, <1>3 DEF GuestMode, ExtInt, ContextCause
  <2>2. m.mstatus.MIE
    BY <1>1, <1>2, <2>1 DEF _processPendingInterrupts
  <2>3. SReady(m) = {}
    BY <2>1 DEF SReady, S_RW_MASK, MEI, SSI, STI, SEI, LCOFI
  <2>. DEFINE ready == m.mip \cap m.mie \cap {MEI, MSI, MTI}
              n == First(MVectors, ready)
  <2>4. m' = _interrupt(m, n, FALSE)
    <3>1. ready # {}
      <4>. SUFFICES ASSUME ready = {} PROVE FALSE
        OBVIOUS
      <4>1. _processPendingMInterrupts(m) = m
        BY DEF _processPendingMInterrupts
      <4>2. m' = m
        BY <1>1, <1>2, <2>2, <2>3, <4>1 DEF _processPendingInterrupts, _processPendingSInterrupts
      <4>. QED
        BY <1>1, <1>2, <4>2
    <3>2. _processPendingMInterrupts(m) = _interrupt(m, n, FALSE)
      BY <3>1 DEF _processPendingMInterrupts
    <3>3. _interrupt(m, n, FALSE).trap
      BY <1>2, InterruptEffect DEF Interrupted
    <3>. QED
      BY <1>1, <2>2, <3>2, <3>3 DEF _processPendingInterrupts
  <2>. HIDE DEF n
  <2>5. (ctx = 1) = FALSE /\ Enabled
    BY <1>3, <2>2 DEF Enabled
  <2>. QED
    BY <1>2, <2>4, <2>5, InterruptEffect
<1>4. CASE ctx = 1
  <2>1. m.mode = S /\ m.mie \subseteq {SEI} /\ m.mideleg = S_RW_MASK
    BY <1>2, <1>4 DEF GuestMode, ExtInt, ContextCause, ConsoleInv, HartOK
  <2>2. _processPendingMInterrupts(m) = m
    <3>1. m.mip \cap m.mie \cap {MEI, MSI, MTI} = {}
      BY <2>1 DEF SEI, MEI, MSI, MTI
    <3>. QED
      BY <3>1 DEF _processPendingMInterrupts
  <2>3. m' = _processPendingSInterrupts(m)
    BY <1>1, <1>2, <2>1, <2>2 DEF _processPendingInterrupts, S, M
  <2>4. SReady(m) # {}
    BY <1>1, <1>2, <2>3 DEF _processPendingSInterrupts
  <2>5. SReady(m) = {SEI} /\ m.mstatus.SIE
    BY <2>1, <2>4 DEF SReady, S, M
  <2>6. m' = _interrupt(m, SEI, TRUE)
    <3>1. (SEI \in m.mideleg) = TRUE
      BY <2>1 DEF S_RW_MASK
    <3>. QED
      BY <2>3, <2>5, <3>1, FirstSEI DEF _processPendingSInterrupts
  <2>7. (ctx = 1) = TRUE /\ Enabled
    BY <1>4, <2>5 DEF Enabled
  <2>. QED
    BY <1>2, <2>6, <2>7, InterruptEffect
<1>. QED
  BY <1>2, <1>3, <1>4

\* Taking the interrupt keeps the invariant: the divisor latch is off.
LEMMA TakeStep == ASSUME ConsoleInv, Take PROVE ConsoleInv'
<1>1. drv' = "trap" /\ drv = "none" /\ UNCHANGED <<id, queue, ctx>>
  BY DEF Take
<1>2. HartOK'
  BY <1>1, TakeEffect DEF Interrupted, ConsoleInv, HartOK, GuestMode, ExtInt
<1>3. UartOK' /\ RingIsFifo'
  BY <1>1, TakeEffect, UartKept DEF Interrupted, ConsoleInv, UartOK
<1>4. PlicOK(m)' /\ ClaimCurrent' /\ DeliveryNotLost' /\ UnreadSignalled' /\ DriverOK'
  BY <1>1, TakeEffect, ZenonT(60) DEF Interrupted, ConsoleInv, SamePlic, SameUart, PlicOK, ClaimCurrent, DeliveryNotLost,
                          UnreadSignalled, DriverOK
<1>. QED
  BY <1>2, <1>3, <1>4, TakeEffect DEF Interrupted, ConsoleInv

-----------------------------------------------------------------------------
\* _doTrap enters the guest's handler, and saves the guest's mode.
LEMMA DoTrapStep == ASSUME ConsoleInv, DoTrap PROVE ConsoleInv'
<1>1. /\ drv = "trap" /\ drv' = "claim" /\ UNCHANGED <<id, queue, ctx>>
      /\ m' = IF m.trapDelegate THEN TrapToS(m) ELSE TrapToM(m)
  BY DEF DoTrap
<1>2. m.trapDelegate = (ctx = 1) /\ ctx \in {0, 1} /\ m.mode = GuestMode /\ m.mstatus \in Mstatus
  BY <1>1 DEF ConsoleInv, HartOK, Context
<1>3. Shape(m') /\ SamePlic(m, m') /\ SameUart(m, m') /\ m'.mip = m.mip /\ m'.mie = m.mie
      /\ m'.mideleg = m.mideleg /\ m'.trap = FALSE
  BY <1>1 DEF TrapToS, TrapToM, ConsoleInv, Shape, Fields, SamePlic, SameUart
<1>4. /\ m'.mode = GuestMode /\ m'.mstatus \in Mstatus /\ m'.mstatus.TSR = m.mstatus.TSR
      /\ IF ctx = 1 THEN m'.mstatus.SPP = S ELSE m'.mstatus.MPP = M
  <2>1. CASE ctx = 1
    <3>1. m' = TrapToS(m) /\ m.mode = 1
      BY <1>1, <1>2, <2>1 DEF GuestMode, S
    <3>2. m.mode % 2 = S
      BY <3>1 DEF S
    <3>. QED
      BY <1>2, <2>1, <3>1, <3>2, ZenonT(60) DEF TrapToS, ConsoleInv, Shape, Fields, Mstatus, GuestMode, U, S
  <2>2. CASE ctx = 0
    <3>1. ctx # 1 /\ GuestMode = M
      BY <2>2 DEF GuestMode
    <3>2. ~m.trapDelegate /\ m.mode = M
      BY <1>2, <3>1
    <3>3. m' = TrapToM(m)
      BY <1>1, <3>2
    <3>4. m'.mode = M /\ m'.mstatus \in Mstatus /\ m'.mstatus.TSR = m.mstatus.TSR /\ m'.mstatus.MPP = M
      BY <1>2, <3>2, <3>3, ZenonT(60) DEF TrapToM, ConsoleInv, Shape, Fields, Mstatus, Modes
    <3>. QED
      BY <3>1, <3>4
  <2>. QED
    BY <1>2, <2>1, <2>2
<1>5. HartOK'
  <2>1. m'.trap = (drv' = "trap")
    BY <1>1, <1>3
  <2>. QED
    BY <1>1, <1>3, <1>4, <2>1 DEF ConsoleInv, HartOK, GuestMode, ExtInt
<1>6. UartOK' /\ RingIsFifo'
  <2>1. ~m.dlab
    BY <1>1 DEF ConsoleInv, UartOK
  <2>2. UartOK'
    BY <1>1, <1>3, <2>1 DEF ConsoleInv, UartOK, SameUart
  <2>3. RingIsFifo'
    BY <1>1, <1>3 DEF ConsoleInv, RingIsFifo, SameUart
  <2>. QED
    BY <2>2, <2>3
<1>7. PlicOK(m)' /\ ClaimCurrent' /\ DeliveryNotLost' /\ UnreadSignalled' /\ DriverOK'
  BY <1>1, <1>3 DEF ConsoleInv, SamePlic, SameUart, PlicOK, ClaimCurrent, DeliveryNotLost, UnreadSignalled,
                    DriverOK
<1>. QED
  BY <1>3, <1>5, <1>6, <1>7 DEF ConsoleInv

\* Reading claim: what it returns is no longer pending and goes into service, and
\* the driver returns from the handler only if there is nothing more.
LEMMA ClaimStep == ASSUME ConsoleInv, Claim PROVE ConsoleInv'
<1>. DEFINE n == m.contexts[ctx].claim
            s == [m EXCEPT !.contexts[ctx].pendingClaims = @ \cup {n}, !.pending = @ \ {n}]
<1>1. /\ drv = "claim" /\ id' = n /\ UNCHANGED <<queue, ctx>>
      /\ drv' = IF n = 0 THEN "ret" ELSE "isr"
  BY DEF Claim
<1>2. m' = _processInterrupts(s)
  BY DEF Claim, PlicRead, _claimInterrupts
<1>3. ctx \in Context /\ n \in Source \cup {0}
  BY DEF ConsoleInv, HartOK, PlicOK, ContextRecord
<1>4. /\ Shape(s) /\ SameHart(m, s) /\ SameUart(m, s) /\ s.pending = m.pending \ {n}
      /\ s.priority = m.priority
      /\ s.contexts = [m.contexts EXCEPT ![ctx].pendingClaims = @ \cup {n}]
  BY DEF ConsoleInv, Shape, Fields, SameHart, SameUart
<1>. HIDE DEF s, n
<1>5. PlicOK(s)
  BY <1>3, <1>4 DEF ConsoleInv, PlicOK, ContextRecord
<1>6. Processed(s, m')
  BY <1>2, <1>4, <1>5, ProcessEffect
<1>7. Shape(m)' /\ PlicOK(m)' /\ SameHart(m, m') /\ SameUart(m, m') /\ m'.pending = m.pending \ {n}
  BY <1>4, <1>6 DEF Processed, SameHart, SameUart
<1>8. HartOK'
  BY <1>1, <1>7, HartKept DEF ConsoleInv, InHandler
<1>9. UartOK' /\ RingIsFifo'
  BY <1>1, <1>7, UartKept DEF ConsoleInv, UartOK, SameHart
<1>10. ClaimCurrent'
  BY <1>6 DEF Processed, Current, ClaimCurrent
<1>11. DeliveryNotLost'
  BY <1>1, <1>3, <1>6 DEF Processed, Raised, DeliveryNotLost, ExtInt
<1>12. UnreadSignalled'
  BY <1>1, <1>7 DEF ConsoleInv, UnreadSignalled, SameUart, NS16550A_IRQ
<1>13. DriverOK'
  BY <1>1, <1>3 DEF DriverOK
<1>. QED
  BY <1>7, <1>8, <1>9, <1>10, <1>11, <1>12, <1>13 DEF ConsoleInv

\* The driver looks at the status registers.
LEMMA ReadStatusStep == ASSUME ConsoleInv, ReadISR \/ ReadLSR PROVE ConsoleInv'
<1>1. UNCHANGED <<m, id, queue, ctx>> /\ drv \in {"isr", "lsr"}
  BY DEF ReadISR, ReadLSR
<1>2. /\ drv' \in {"isr", "complete", "lsr", "rhr", "thr"}
      /\ drv' = "complete" => m.len = 0 \/ "DR" \notin m.ier
      /\ drv' = "rhr" => m.len > 0
  <2>1. m.len \in Nat
    BY DEF ConsoleInv, UartOK
  <2>. QED
    BY <2>1 DEF ReadISR, ReadLSR, ISR, LSR
<1>3. HartOK'
  BY <1>1, <1>2, HartKept DEF ConsoleInv, InHandler, SameHart
<1>4. UartOK' /\ RingIsFifo'
  BY <1>1, <1>2, UartKept DEF ConsoleInv, UartOK, SameUart
<1>5. UnreadSignalled'
  BY <1>1, <1>2 DEF ConsoleInv, UnreadSignalled, UartOK
<1>. QED
  BY <1>1, <1>2, <1>3, <1>4, <1>5 DEF ConsoleInv, PlicOK, ClaimCurrent, DeliveryNotLost, DriverOK

\* The driver takes the character at the head of the queue.
LEMMA ReadRHRStep == ASSUME ConsoleInv, ReadRHR PROVE ConsoleInv'
<1>1. /\ drv = "rhr" /\ drv' = "lsr" /\ UNCHANGED <<id, ctx>> /\ queue' = Tail(queue)
      /\ m' = UartRead(m, "RHR")
  BY DEF ReadRHR
<1>2. ~m.dlab /\ m.len > 0 /\ m.len \in Nat
  BY <1>1 DEF ConsoleInv, UartOK
<1>3. m' = [m EXCEPT !.rdIdx = _incBufIdx(@), !.len = @ - 1]
  BY <1>1, <1>2 DEF UartRead, _popChar
<1>4. /\ Shape(m') /\ SameHart(m, m') /\ SamePlic(m, m') /\ m'.mip = m.mip
      /\ m'.buf = m.buf /\ m'.rdIdx = _incBufIdx(m.rdIdx) /\ m'.wrIdx = m.wrIdx /\ m'.len = m.len - 1
      /\ m'.ier = m.ier /\ m'.dlab = m.dlab
  BY <1>3 DEF ConsoleInv, Shape, Fields, SameHart, SamePlic
<1>5. RingOK(m) /\ Fifo(m, queue) /\ queue \in Seq(Char) /\ Shape(m)
  BY DEF ConsoleInv, UartOK, RingIsFifo, RingOK, Fifo
<1>6. RingOK(m') /\ Fifo(m', queue') /\ queue' \in Seq(Char)
  BY <1>1, <1>2, <1>4, <1>5, PopIsTail
<1>7. UartOK' /\ RingIsFifo'
  BY <1>1, <1>2, <1>4, <1>6 DEF ConsoleInv, UartOK, RingOK, RingIsFifo, Fifo
<1>8. HartOK'
  BY <1>1, <1>4, HartKept DEF ConsoleInv, InHandler
<1>9. PlicOK(m)' /\ ClaimCurrent' /\ DeliveryNotLost' /\ UnreadSignalled' /\ DriverOK'
  BY <1>1, <1>4 DEF ConsoleInv, SamePlic, PlicOK, ClaimCurrent, DeliveryNotLost, UnreadSignalled, DriverOK
<1>. QED
  BY <1>4, <1>7, <1>8, <1>9 DEF ConsoleInv

\* The return from the handler is to the guest.
LEMMA RetStep == ASSUME ConsoleInv, Ret PROVE ConsoleInv'
<1>1. /\ drv = "ret" /\ drv' = "none" /\ UNCHANGED <<id, queue, ctx>> /\ m' = _xret(m, GuestMode, 1)
  BY DEF Ret
<1>2. /\ ctx \in {0, 1} /\ m.mode = GuestMode /\ m.mstatus \in Mstatus /\ ~m.mstatus.TSR
      /\ IF ctx = 1 THEN m.mstatus.SPP = S ELSE m.mstatus.MPP = M
  BY <1>1 DEF ConsoleInv, HartOK, Context
<1>3. m' = IF ctx = 1
           THEN [m EXCEPT !.mstatus.SIE = m.mstatus.SPIE, !.mstatus.SPIE = TRUE,
                          !.mode = m.mstatus.SPP, !.mstatus.SPP = U,
                          !.pc = (m.sepc - 1) % NPC]
           ELSE [m EXCEPT !.mstatus.MIE = m.mstatus.MPIE, !.mstatus.MPIE = TRUE,
                          !.mode = m.mstatus.MPP, !.mstatus.MPP = U,
                          !.pc = (m.mepc - 1) % NPC]
  BY <1>1, <1>2 DEF _xret, GuestMode, S, M
<1>4. Shape(m') /\ SamePlic(m, m') /\ SameUart(m, m') /\ m'.mip = m.mip /\ m'.mie = m.mie
      /\ m'.mideleg = m.mideleg /\ m'.trap = m.trap
  BY <1>3 DEF ConsoleInv, Shape, Fields, SamePlic, SameUart
<1>5. m'.mode = GuestMode /\ m'.mstatus \in Mstatus /\ ~m'.mstatus.TSR
  BY <1>2, <1>3, ZenonT(60) DEF ConsoleInv, Shape, Fields, Mstatus, Modes, GuestMode
<1>6. HartOK'
  <2>1. m'.trap = (drv' = "trap")
    BY <1>1, <1>4 DEF ConsoleInv, HartOK
  <2>. QED
    BY <1>1, <1>4, <1>5, <2>1 DEF ConsoleInv, HartOK, GuestMode, ExtInt
<1>7. UartOK' /\ RingIsFifo'
  <2>1. ~m.dlab
    BY <1>1 DEF ConsoleInv, UartOK
  <2>2. UartOK'
    BY <1>1, <1>4, <2>1 DEF ConsoleInv, UartOK, SameUart
  <2>3. RingIsFifo'
    BY <1>1, <1>4 DEF ConsoleInv, RingIsFifo, SameUart
  <2>. QED
    BY <2>2, <2>3
<1>8. PlicOK(m)' /\ ClaimCurrent' /\ DeliveryNotLost' /\ UnreadSignalled' /\ DriverOK'
  BY <1>1, <1>4 DEF ConsoleInv, SamePlic, SameUart, PlicOK, ClaimCurrent, DeliveryNotLost, UnreadSignalled,
                    DriverOK, ExtInt
<1>. QED
  BY <1>4, <1>6, <1>7, <1>8 DEF ConsoleInv

-----------------------------------------------------------------------------
\* A store to a register of the PLIC, in terms of PlicStep
LEMMA PlicWriteStep ==
  ASSUME ConsoleInv, UNCHANGED <<id, queue, ctx>>, drv' = drv \/ (drv = "complete" /\ drv' = "claim"),
         \/ \E v \in SUBSET {NS16550A_IRQ} : m' = PlicWrite(m, ctx, "enable", v)
         \/ \E v \in Nat : m' = PlicWrite(m, ctx, "threshold", v)
         \/ \E v \in Nat : m' = PlicWrite(m, ctx, "priority", v)
         \/ m' = PlicWrite(m, ctx, "claim", id)
  PROVE  ConsoleInv'
<1>1. Shape(m) /\ PlicOK(m) /\ ctx \in Context /\ NS16550A_IRQ \in Source
  BY PlicAssumption DEF ConsoleInv, HartOK, Source, NS16550A_IRQ
<1>2. ASSUME NEW v \in SUBSET {NS16550A_IRQ}, m' = PlicWrite(m, ctx, "enable", v) PROVE ConsoleInv'
  <2>. DEFINE s == [m EXCEPT !.contexts[ctx].enable = v]
  <2>1. m' = _processInterrupts(s)
    BY <1>2 DEF PlicWrite
  <2>2. /\ Shape(s) /\ SameHart(m, s) /\ SameUart(m, s) /\ s.pending = m.pending /\ s.priority = m.priority
        /\ s.contexts = [m.contexts EXCEPT ![ctx].enable = v]
    BY <1>1 DEF Shape, Fields, SameHart, SameUart
  <2>. HIDE DEF s
  <2>3. PlicOK(s)
    BY <1>1, <2>2 DEF PlicOK, ContextRecord
  <2>. QED
    BY <2>1, <2>2, <2>3, PlicStep
<1>3. ASSUME NEW v \in Nat, m' = PlicWrite(m, ctx, "threshold", v) PROVE ConsoleInv'
  <2>. DEFINE s == [m EXCEPT !.contexts[ctx].threshold = v]
  <2>1. m' = _processInterrupts(s)
    BY <1>3 DEF PlicWrite
  <2>2. /\ Shape(s) /\ SameHart(m, s) /\ SameUart(m, s) /\ s.pending = m.pending /\ s.priority = m.priority
        /\ s.contexts = [m.contexts EXCEPT ![ctx].threshold = v]
    BY <1>1 DEF Shape, Fields, SameHart, SameUart
  <2>. HIDE DEF s
  <2>3. PlicOK(s)
    BY <1>1, <2>2 DEF PlicOK, ContextRecord
  <2>. QED
    BY <2>1, <2>2, <2>3, PlicStep
<1>4. ASSUME NEW v \in Nat, m' = PlicWrite(m, ctx, "priority", v) PROVE ConsoleInv'
  <2>. DEFINE s == [m EXCEPT !.priority[1] = v]
  <2>1. m' = _processInterrupts(s)
    BY <1>4 DEF PlicWrite
  <2>2. /\ Shape(s) /\ SameHart(m, s) /\ SameUart(m, s) /\ s.pending = m.pending /\ s.contexts = m.contexts
        /\ s.priority = [m.priority EXCEPT ![1] = v]
    BY <1>1 DEF Shape, Fields, SameHart, SameUart
  <2>. HIDE DEF s
  <2>3. PlicOK(s)
    BY <1>1, <2>2 DEF PlicOK
  <2>. QED
    BY <2>1, <2>2, <2>3, PlicStep
<1>5. ASSUME m' = PlicWrite(m, ctx, "claim", id) PROVE ConsoleInv'
  <2>. DEFINE s == IF id \in m.contexts[ctx].enable
                   THEN [m EXCEPT !.contexts[ctx].pendingClaims = @ \ {id}] ELSE m
  <2>1. m' = _processInterrupts(s)
    BY <1>5 DEF PlicWrite, _completeInterrupts
  <2>2. /\ Shape(s) /\ SameHart(m, s) /\ SameUart(m, s) /\ s.pending = m.pending /\ s.priority = m.priority
        /\ \/ s.contexts = m.contexts
           \/ s.contexts = [m.contexts EXCEPT ![ctx].pendingClaims = @ \ {id}]
    BY <1>1 DEF Shape, Fields, SameHart, SameUart
  <2>. HIDE DEF s
  <2>3. PlicOK(s)
    BY <1>1, <2>2 DEF PlicOK, ContextRecord
  <2>. QED
    BY <2>1, <2>2, <2>3, PlicStep
<1>. QED
  BY <1>2, <1>3, <1>4, <1>5

\* Every step keeps the invariant.
LEMMA ConsoleStepInv == ConsoleInv /\ [ConsoleNext]_consoleVars => ConsoleInv'
<1>. SUFFICES ASSUME ConsoleInv, [ConsoleNext]_consoleVars PROVE ConsoleInv'
  OBVIOUS
<1>1. CASE ui_getch
  BY <1>1, GetchStep
<1>2. CASE GuestEnables \/ GuestDisables
  BY <1>2, GuestSetsIE DEF GuestEnables, GuestDisables, Mainline
<1>3. CASE GuestConfigures
  <2>1. UNCHANGED <<drv, id, queue, ctx>> /\ drv = "none"
    BY <1>3 DEF GuestConfigures, Mainline
  <2>2. m.ier \subseteq {"DR", "THRE"}
    BY DEF ConsoleInv, UartOK
  <2>3. CASE m' = _writeMie(m, {ExtInt})
    BY <2>1, <2>3, GuestWritesMie
  <2>4. CASE m' = PlicWrite(m, ctx, "enable", {NS16550A_IRQ})
    BY <2>1, <2>4, PlicWriteStep
  <2>5. CASE m' = PlicWrite(m, ctx, "priority", 1)
    BY <2>1, <2>5, PlicWriteStep
  <2>6. CASE m' = UartWrite(m, "IER", m.ier \cup {"DR"})
    <3>1. m.ier \cup {"DR"} \in SUBSET {"DR", "THRE"}
      BY <2>2
    <3>. QED
      BY <2>1, <2>6, <3>1, IerStep
  <2>7. CASE m' = UartWrite(m, "IER", m.ier \cup {"THRE"})
    <3>1. m.ier \cup {"THRE"} \in SUBSET {"DR", "THRE"}
      BY <2>2
    <3>. QED
      BY <2>1, <2>7, <3>1, IerStep
  <2>8. CASE ~Enabled /\ m' = UartWrite(m, "LCR", TRUE)
    BY <2>1, <2>8, LcrStep
  <2>. QED
    BY <1>3, <2>3, <2>4, <2>5, <2>6, <2>7, <2>8 DEF GuestConfigures
<1>4. CASE GuestClearsDlab
  BY <1>4, LcrStep DEF GuestClearsDlab, Mainline
<1>5. CASE GuestReconfigures
  <2>1. UNCHANGED <<drv, id, queue, ctx>>
    BY <1>5 DEF GuestReconfigures
  <2>2. CASE m' = PlicWrite(m, ctx, "enable", {})
    BY <2>1, <2>2, PlicWriteStep
  <2>3. CASE \E t \in {0, 1} : m' = PlicWrite(m, ctx, "threshold", t)
    <3>1. PICK t \in Nat : m' = PlicWrite(m, ctx, "threshold", t)
      BY <2>3
    <3>. QED
      BY <2>1, <3>1, PlicWriteStep
  <2>4. CASE m' = PlicWrite(m, ctx, "priority", 0)
    BY <2>1, <2>4, PlicWriteStep
  <2>5. CASE m' = UartWrite(m, "IER", {})
    BY <2>1, <2>5, IerStep
  <2>. QED
    BY <1>5, <2>2, <2>3, <2>4, <2>5 DEF GuestReconfigures
<1>6. CASE Take
  BY <1>6, TakeStep
<1>7. CASE DoTrap
  BY <1>7, DoTrapStep
<1>8. CASE Claim
  BY <1>8, ClaimStep
<1>9. CASE ReadISR \/ ReadLSR
  BY <1>9, ReadStatusStep
<1>10. CASE ReadRHR
  BY <1>10, ReadRHRStep
<1>11. CASE WriteTHR
  <2>1. drv = "thr" /\ drv' = "isr" /\ UNCHANGED <<id, queue, ctx>>
    BY <1>11 DEF WriteTHR
  <2>2. CASE m' = UartWrite(m, "THR", 0)
    <3>1. m' = m
      BY <2>2 DEF UartWrite
    <3>2. HartOK'
      BY <2>1, <3>1, HartKept DEF ConsoleInv, InHandler, SameHart
    <3>3. UartOK' /\ RingIsFifo'
      BY <2>1, <3>1, UartKept DEF ConsoleInv, UartOK, SameUart
    <3>. QED
      BY <2>1, <3>1, <3>2, <3>3 DEF ConsoleInv, PlicOK, ClaimCurrent, DeliveryNotLost, DriverOK,
                                    UnreadSignalled
  <2>3. CASE m' = UartWrite(m, "IER", m.ier \ {"THRE"})
    <3>1. m.ier \ {"THRE"} \in SUBSET {"DR", "THRE"}
      BY DEF ConsoleInv, UartOK
    <3>. QED
      BY <2>1, <2>3, <3>1, IerStep
  <2>. QED
    BY <1>11, <2>2, <2>3 DEF WriteTHR
<1>12. CASE Complete
  BY <1>12, PlicWriteStep DEF Complete
<1>13. CASE Ret
  BY <1>13, RetStep
<1>14. CASE UNCHANGED consoleVars
  BY <1>14 DEF consoleVars, ConsoleInv, HartOK, UartOK, DriverOK, RingIsFifo, ClaimCurrent, DeliveryNotLost,
               UnreadSignalled, GuestMode, ExtInt, Enabled
<1>. QED
  BY <1>1, <1>2, <1>3, <1>4, <1>5, <1>6, <1>7, <1>8, <1>9, <1>10, <1>11, <1>12, <1>13, <1>14
     DEF ConsoleNext, Handler

\* The invariant, of every behaviour of guest, devices and keyboard.
LEMMA ConsoleInvariant == ConsoleSpec => []ConsoleInv
BY ConsoleInitInv, ConsoleStepInv, PTL DEF ConsoleSpec

\* The state of the hart's devices and of the driver stays well formed.
THEOREM ConsoleTyped == ConsoleSpec => []ConsoleTypeOK
BY ConsoleInvariant, ConsoleInvType, PTL

\* For every buffer size: the UART's ring buffer is the queue of the characters
\* typed and not read, whatever pushes and reads have wrapped its indices.
THEOREM RingBufferIsQueue == ConsoleSpec => []RingIsFifo
<1>1. ConsoleInv => RingIsFifo
  BY DEF ConsoleInv
<1>. QED
  BY <1>1, ConsoleInvariant, PTL

\* The PLIC's claim registers are never stale.
THEOREM ClaimsAreCurrent == ConsoleSpec => []ClaimCurrent
<1>1. ConsoleInv => ClaimCurrent
  BY DEF ConsoleInv
<1>. QED
  BY <1>1, ConsoleInvariant, PTL

\* An interrupt that can be claimed is pending at the hart, or the handler has
\* yet to claim it.
THEOREM InterruptsDelivered == ConsoleSpec => []DeliveryNotLost
<1>1. ConsoleInv => DeliveryNotLost
  BY DEF ConsoleInv
<1>. QED
  BY <1>1, ConsoleInvariant, PTL

\* While characters wait the UART's interrupt is pending, or the driver has yet
\* to look.
THEOREM CharactersSignalled == ConsoleSpec => []UnreadSignalled
<1>1. ConsoleInv => UnreadSignalled
  BY DEF ConsoleInv
<1>. QED
  BY <1>1, ConsoleInvariant, PTL
=============================================================================
