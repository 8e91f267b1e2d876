------------------------------ MODULE Console ------------------------------
(***************************************************************************)
(* The console input path: ui_getch pushes typed characters into the UART, *)
(* the UART signals the PLIC, the PLIC raises the hart's external          *)
(* interrupt, and the guest's driver claims it, drains the UART and        *)
(* completes it.  The guest is not part of the repository: its driver is   *)
(* the loop that Linux's sifive-plic and 8250 drivers run, one action for  *)
(* each of its accesses to a device, so that keys arrive between any two.  *)
(***************************************************************************)
EXTENDS Ns16550a

VARIABLES m,         \* the machine: hart, PLIC and UART
          ctx,       \* the PLIC context of the guest: 1 for a kernel on the SBI, 0 without
          drv,       \* the driver's next access, "none" outside the interrupt handler
          id,        \* the interrupt number the driver has claimed
          queue,     \* history: the characters accepted and not yet read
          justRead   \* history: the last step took a character out of the UART

consoleVars == <<m, ctx, drv, id, queue, justRead>>

GuestMode == IF ctx = 1 THEN S ELSE M
ExtInt == ContextCause(ctx)
Enabled == IF ctx = 1 THEN m.mstatus.SIE ELSE m.mstatus.MIE

ConsoleInit ==
  /\ ctx \in Context
  /\ LET hart == [rv_reset(GuestMode) EXCEPT !.mideleg = IF ctx = 1 THEN S_RW_MASK ELSE {}]
     IN m = [f \in DOMAIN hart \cup DOMAIN plic_init \cup DOMAIN ns16550a_init |->
               IF f \in DOMAIN hart THEN hart[f]
               ELSE IF f \in DOMAIN plic_init THEN plic_init[f] ELSE ns16550a_init[f]]
  /\ drv = "none"
  /\ id = 0
  /\ queue = <<>>
  /\ justRead = FALSE

-----------------------------------------------------------------------------
\* main's loop polls the console between two instructions of the guest.
ui_getch ==
  /\ \E ch \in Char :
       /\ m' = ns16550_push(m, ch)
       /\ queue' = IF Len(queue) < NS16550A_BUF_SIZE THEN Append(queue, ch) ELSE queue
  /\ justRead' = FALSE
  /\ UNCHANGED <<drv, id, ctx>>

\* Outside the handler the guest turns interrupts on and off, sets up its
\* devices, in any order, and reprograms the UART's divisor with interrupts off.
\* An interrupt that is due goes before its next instruction.
Mainline == drv = "none" /\ ~(m.irq /\ _processPendingInterrupts(m).trap)

SetIE(on) == IF ctx = 1 THEN [m.mstatus EXCEPT !.SIE = on] ELSE [m.mstatus EXCEPT !.MIE = on]

GuestEnables ==
  /\ Mainline /\ ~Enabled /\ ~m.dlab
  /\ m' = _writeMstatus(m, SetIE(TRUE))
  /\ justRead' = FALSE
  /\ UNCHANGED <<drv, id, queue, ctx>>

GuestDisables ==
  /\ Mainline /\ Enabled
  /\ m' = _writeMstatus(m, SetIE(FALSE))
  /\ justRead' = FALSE
  /\ UNCHANGED <<drv, id, queue, ctx>>

GuestConfigures ==
  /\ Mainline
  /\ \/ ExtInt \notin m.mie /\ m' = _writeMie(m, {ExtInt})
     \/ NS16550A_IRQ \notin m.contexts[ctx].enable /\ m' = PlicWrite(m, ctx, "enable", {NS16550A_IRQ})
     \/ m.priority[NS16550A_IRQ] = 0 /\ m' = PlicWrite(m, ctx, "priority", 1)
     \/ "DR" \notin m.ier /\ ~m.dlab /\ m' = UartWrite(m, "IER", m.ier \cup {"DR"})
     \/ "THRE" \notin m.ier /\ ~m.dlab /\ m' = UartWrite(m, "IER", m.ier \cup {"THRE"})
     \/ ~Enabled /\ ~m.dlab /\ m' = UartWrite(m, "LCR", TRUE)
  /\ justRead' = FALSE
  /\ UNCHANGED <<drv, id, queue, ctx>>

GuestClearsDlab ==
  /\ Mainline /\ m.dlab
  /\ m' = UartWrite(m, "LCR", FALSE)
  /\ justRead' = FALSE
  /\ UNCHANGED <<drv, id, queue, ctx>>

GuestReconfigures ==
  /\ Mainline
  /\ \/ m' = PlicWrite(m, ctx, "enable", {})
     \/ \E t \in {0, 1} : m' = PlicWrite(m, ctx, "threshold", t)
     \/ m' = PlicWrite(m, ctx, "priority", 0)
     \/ ~m.dlab /\ m' = UartWrite(m, "IER", {})
  /\ justRead' = FALSE
  /\ UNCHANGED <<drv, id, queue, ctx>>

\* rv_run notices the interrupt and returns; the next rv_run does the trap.
Take ==
  /\ drv = "none" /\ m.irq
  /\ m' = _processPendingInterrupts(m)
  /\ m'.trap
  /\ drv' = "trap"
  /\ justRead' = FALSE
  /\ UNCHANGED <<id, queue, ctx>>

DoTrap ==
  /\ drv = "trap"
  /\ m' = IF m.trapDelegate THEN TrapToS(m) ELSE TrapToM(m)
  /\ drv' = "claim"
  /\ justRead' = FALSE
  /\ UNCHANGED <<id, queue, ctx>>

\* while((id = claim) != 0) ...
Claim ==
  /\ drv = "claim"
  /\ id' = m.contexts[ctx].claim
  /\ m' = PlicRead(m, ctx, "claim")
  /\ drv' = IF id' = 0 THEN "ret" ELSE "isr"
  /\ justRead' = FALSE
  /\ UNCHANGED <<queue, ctx>>

ReadISR ==
  /\ drv = "isr"
  /\ drv' = IF ISR(m) = "NO" THEN "complete" ELSE "lsr"
  /\ justRead' = FALSE
  /\ UNCHANGED <<m, id, queue, ctx>>

\* The line status decides; transmission ends sooner or later.
ReadLSR ==
  /\ drv = "lsr"
  /\ drv' = IF "DR" \in LSR(m) THEN "rhr" ELSE IF "THRE" \in m.ier THEN "thr" ELSE "isr"
  /\ justRead' = FALSE
  /\ UNCHANGED <<m, id, queue, ctx>>

ReadRHR ==
  /\ drv = "rhr"
  /\ m' = UartRead(m, "RHR")
  /\ queue' = Tail(queue)
  /\ justRead' = TRUE
  /\ drv' = "lsr"
  /\ UNCHANGED <<id, ctx>>

WriteTHR ==
  /\ drv = "thr"
  /\ \/ m' = UartWrite(m, "THR", 0)
     \/ m' = UartWrite(m, "IER", m.ier \ {"THRE"})
  /\ drv' = "isr"
  /\ justRead' = FALSE
  /\ UNCHANGED <<id, queue, ctx>>

Complete ==
  /\ drv = "complete"
  /\ m' = PlicWrite(m, ctx, "claim", id)
  /\ drv' = "claim"
  /\ justRead' = FALSE
  /\ UNCHANGED <<id, queue, ctx>>

Ret ==
  /\ drv = "ret"
  /\ m' = _xret(m, GuestMode, 1)
  /\ drv' = "none"
  /\ justRead' = FALSE
  /\ UNCHANGED <<id, queue, ctx>>

Handler == DoTrap \/ Claim \/ ReadISR \/ ReadLSR \/ ReadRHR \/ WriteTHR \/ Complete \/ Ret

ConsoleNext ==
  \/ ui_getch \/ GuestEnables \/ GuestDisables \/ GuestConfigures \/ GuestClearsDlab
  \/ GuestReconfigures \/ Take \/ Handler

ConsoleSpec == ConsoleInit /\ [][ConsoleNext]_consoleVars

\* rv_run is called for ever, so an interrupt is taken and the handler runs on;
\* the guest does not keep its interrupts off or the divisor latch on for ever,
\* and has only so much to transmit.
FairConsole ==
  /\ ConsoleSpec
  /\ WF_consoleVars(Handler)
  /\ WF_consoleVars(GuestClearsDlab)
  /\ SF_consoleVars(GuestEnables)
  /\ WF_consoleVars(Take)
  /\ SF_consoleVars(WriteTHR /\ "THRE" \notin m'.ier)

-----------------------------------------------------------------------------
ConsoleTypeOK ==
  /\ m.pending \subseteq Source /\ m.priority \in [Source -> Nat]
  /\ \A c \in Context : /\ m.contexts[c].enable \subseteq Source
                        /\ m.contexts[c].claim \in Source \cup {0}
                        /\ m.contexts[c].pendingClaims \subseteq Source \cup {0}
  /\ m.rdIdx \in 0 .. NS16550A_BUF_SIZE - 1 /\ m.wrIdx \in 0 .. NS16550A_BUF_SIZE - 1
  /\ m.len \in 0 .. NS16550A_BUF_SIZE
  /\ m.ier \subseteq {"DR", "THRE"} /\ m.dlab \in BOOLEAN
  /\ drv \in {"none", "trap", "claim", "isr", "lsr", "rhr", "thr", "complete", "ret"}
  /\ id \in Source \cup {0}

\* The ring buffer is a first-in-first-out queue: from rdIdx on it holds the
\* characters ui_getch pushed and the driver has not read, in their order,
\* across the wrap of both indices and with the buffer full or empty.
RingIsFifo ==
  /\ m.len = Len(queue)
  /\ m.wrIdx = (m.rdIdx + m.len) % NS16550A_BUF_SIZE
  /\ \A k \in 1 .. m.len : m.buf[(m.rdIdx + k - 1) % NS16550A_BUF_SIZE] = queue[k]

\* The claim registers are never stale: after every store to the PLIC, claim,
\* completion and UART event, a context's claim is the UART's interrupt if and
\* only if that interrupt is pending, enabled, above the threshold and not in
\* service there.
ClaimCurrent ==
  \A c \in Context :
    m.contexts[c].claim =
      IF /\ NS16550A_IRQ \in m.pending \cap m.contexts[c].enable
         /\ NS16550A_IRQ \notin m.contexts[c].pendingClaims
         /\ m.priority[NS16550A_IRQ] > m.contexts[c].threshold
      THEN NS16550A_IRQ ELSE 0

\* The hart clears an interrupt's mip bit as it takes it, and the PLIC sets it
\* on events only: even so, whenever there is something to claim the
\* interrupt is pending at the hart or the handler has still to read claim.
DeliveryNotLost == m.contexts[ctx].claim # 0 => ExtInt \in m.mip \/ drv \notin {"none", "ret"}

\* The UART's interrupt is an event, not a level: even so, while characters
\* wait and the driver has asked to be told, the interrupt is pending in the
\* PLIC, or the driver is in service and has still to look at the UART.
UnreadSignalled ==
  (m.len > 0 /\ "DR" \in m.ier) =>
    NS16550A_IRQ \in m.pending \/ drv \in {"isr", "lsr", "rhr", "thr"}

\* The guest has set up all that an interrupt for a character depends on.
SetUp ==
  /\ "DR" \in m.ier /\ ExtInt \in m.mie
  /\ NS16550A_IRQ \in m.contexts[ctx].enable
  /\ m.priority[NS16550A_IRQ] > m.contexts[ctx].threshold

\* Every character typed is read, in the end, by a guest that keeps its
\* interrupts set up: whatever the order of set-up, keys, claims and
\* completions, no character waits for the next key.
KeysRead == (queue # <<>> /\ SetUp) ~> (justRead \/ ~SetUp)
=============================================================================
