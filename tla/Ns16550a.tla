------------------------------ MODULE Ns16550a ------------------------------
(***************************************************************************)
(* dev/ns16550a.c: the UART.  Characters typed at the console wait in a    *)
(* ring buffer; transmission is immediate.  The interrupt is signalled to  *)
(* the PLIC as an event, when a character arrives and when the guest       *)
(* writes the interrupt enable register, and never withdrawn.  ier is the  *)
(* set of its flags and lcr's divisor latch bit is dlab.                   *)
(***************************************************************************)
EXTENDS Plic, Sequences

CONSTANTS NS16550A_BUF_SIZE,
          Char         \* the characters typed

NUL == 0

ASSUME UartAssumption ==
  /\ NS16550A_BUF_SIZE \in Nat \ {0}
  /\ NUL \notin Char

NS16550A_IRQ == 1

ns16550a_init ==
  [buf |-> [k \in 0 .. NS16550A_BUF_SIZE - 1 |-> NUL], rdIdx |-> 0, wrIdx |-> 0, len |-> 0,
   ier |-> {}, dlab |-> FALSE]

-----------------------------------------------------------------------------
_irq(m) ==
  IF ("DR" \in m.ier /\ m.len > 0) \/ "THRE" \in m.ier
  THEN plic_interrupt(m, NS16550A_IRQ) ELSE m

_incBufIdx(k) == (k + 1) % NS16550A_BUF_SIZE

\* What _popChar returns, and what it does.
PoppedChar(m) == IF m.len = 0 THEN NUL ELSE m.buf[m.rdIdx]

\* Mutant: the read index does not wrap with the buffer.
Mutant_popChar(m) ==
  IF m.len = 0 THEN m
  ELSE [m EXCEPT !.rdIdx = IF @ = NS16550A_BUF_SIZE - 1 THEN @ ELSE @ + 1, !.len = @ - 1]

_popChar(m) ==
  IF m.len = 0 THEN m ELSE [m EXCEPT !.rdIdx = _incBufIdx(@), !.len = @ - 1]

\* The interrupt status and the line status register
ISR(m) == IF m.len > 0 /\ "DR" \in m.ier THEN "RDR" ELSE IF "THRE" \in m.ier THEN "THRE" ELSE "NO"
LSR(m) == {"TXE", "THRE"} \cup (IF m.len > 0 THEN {"DR"} ELSE {})

\* _cbRead: only a read of the receiver holding register has an effect
UartRead(m, reg) == IF reg = "RHR" /\ ~m.dlab THEN _popChar(m) ELSE m

\* Mutant: enabling an interrupt does not raise one that is due.
MutantUartWrite(m, reg, val) ==
  CASE reg = "THR" -> m
    [] reg = "IER" -> IF m.dlab THEN m ELSE [m EXCEPT !.ier = val]
    [] reg = "LCR" -> [m EXCEPT !.dlab = val]

\* _cbWrite; the characters written to THR go to the screen at once
UartWrite(m, reg, val) ==
  CASE reg = "THR" -> m
    [] reg = "IER" -> IF m.dlab THEN m ELSE _irq([m EXCEPT !.ier = val])
    [] reg = "LCR" -> [m EXCEPT !.dlab = val]

\* Mutant: the full buffer is not noticed.
Mutant_ns16550_push(m, ch) ==
  _irq([m EXCEPT !.buf[m.wrIdx] = ch, !.wrIdx = _incBufIdx(@), !.len = @ + 1])

\* The character is dropped when the buffer is full; ui_getch ignores that.
ns16550_push(m, ch) ==
  IF m.len >= NS16550A_BUF_SIZE THEN m
  ELSE _irq([m EXCEPT !.buf[m.wrIdx] = ch, !.wrIdx = _incBufIdx(@), !.len = @ + 1])
=============================================================================
