------------------------------- MODULE RvHart -------------------------------
(***************************************************************************)
(* The trap and interrupt logic of the hart: cpu/rv_internal.h, the CSRs   *)
(* of cpu/rv_csr.h, and rv.c up to _doTrap.                                *)
(*                                                                         *)
(* The C functions mutate *self and call each other, so each is an         *)
(* operator from the machine's record to the machine's record.  The record *)
(* has further fields for the devices (Aclint, Plic, Ns16550a), which the  *)
(* operators here leave alone.  The bit fields mip, mie, mideleg and       *)
(* medeleg are the sets of their bit numbers; mstatus is one field per     *)
(* flag.  The program counter counts instructions, modulo NPC.             *)
(***************************************************************************)
EXTENDS Integers, Sequences

CONSTANT NPC   \* bound: how many instruction addresses are told apart

ASSUME NPCAssumption == NPC \in Nat /\ NPC >= 2

\* RV_PrivMode
U == 0
S == 1
M == 3
Modes == {U, S, M}

\* RV_IrqCause
SSI == 1
MSI == 3
STI == 5
MTI == 7
SEI == 9
MEI == 11
LCOFI == 13
Irqs == {SSI, MSI, STI, MTI, SEI, MEI, LCOFI}

\* The RV_TrapCause values the emulator raises, and TRAP_DOUBLE_TRAP.
INST_ALLIGN == 0
INST_AF == 1
INST_ILL == 2
BREAKPOINT == 3
LD_AF == 5
ST_ALLIGN == 6
ST_AF == 7
CALL_U == 8
CALL_S == 9
CALL_M == 11
DOUBLE_TRAP == 16
Traps == {INST_ALLIGN, INST_AF, INST_ILL, BREAKPOINT, LD_AF, ST_ALLIGN, ST_AF, CALL_U, CALL_S, CALL_M}

\* MIE_RW_MASK and MIP_RW_MASK; SIE_RW_MASK, SIP_RW_MASK and MIDELEG_RW_MASK;
\* MEDELEG_RW_MASK: TRAP_CALL_M is not in it
M_RW_MASK == Irqs
S_RW_MASK == {SSI, STI, SEI, LCOFI}
MEDELEG_RW_MASK == Traps \ {CALL_M}

\* trapCause: CPU_SIGN_BIT tells interrupts from exceptions
Cause(isIrq, n) == [irq |-> isIrq, n |-> n]
Causes == [irq : BOOLEAN, n : Irqs \cup Traps]

\* mstatus: the flags that bear on traps
Mstatus == [MIE : BOOLEAN, MPIE : BOOLEAN, MPP : Modes,
            SIE : BOOLEAN, SPIE : BOOLEAN, SPP : {U, S}, TSR : BOOLEAN, TW : BOOLEAN]

-----------------------------------------------------------------------------
_pendingIRQ(m) == [m EXCEPT !.irq = TRUE, !.wfi = FALSE]

\* Mutant: the hart is not told to look.
Mutant_rv_setInterrupt(m, n) == [m EXCEPT !.mip = @ \cup {n}]

rv_setInterrupt(m, n) == _pendingIRQ([m EXCEPT !.mip = @ \cup {n}])

rv_clearInterrupt(m, n) == [m EXCEPT !.mip = @ \ {n}]

_interrupt(m, n, delegate) ==
  rv_clearInterrupt([m EXCEPT !.trap = TRUE, !.trapCause = Cause(TRUE, n),
                              !.trapDelegate = delegate], n)

_trap(m, n) ==
  [m EXCEPT !.trap = TRUE, !.trapCause = Cause(FALSE, n),
            !.trapDelegate = /\ n \notin {CALL_M, DOUBLE_TRAP}
                             /\ m.mode <= S
                             /\ n \in m.medeleg]

\* rv_reset, as rv_init and main leave the hart: memset to zero before
rv_reset(mode) ==
  [mode |-> mode, pc |-> 0, trap |-> FALSE, trapCause |-> Cause(FALSE, 0),
   trapDelegate |-> FALSE, irq |-> FALSE, wfi |-> FALSE,
   mip |-> {}, mie |-> {}, mideleg |-> {}, medeleg |-> {},
   mstatus |-> [MIE |-> FALSE, MPIE |-> FALSE, MPP |-> U, SIE |-> FALSE,
                SPIE |-> FALSE, SPP |-> U, TSR |-> FALSE, TW |-> FALSE],
   mcause |-> Cause(FALSE, 0), scause |-> Cause(FALSE, 0), mepc |-> 0, sepc |-> 0,
   mcounteren |-> {}, scounteren |-> {}]

-----------------------------------------------------------------------------
\* The first of the vectors that is in the set ready.
First(vectors, ready) ==
  LET I == {i \in DOMAIN vectors : vectors[i] \in ready}
  IN vectors[CHOOSE i \in I : \A j \in I : i <= j]

MVectors == <<MEI, MSI, MTI>>
SVectors == <<SEI, SSI, STI, LCOFI>>

_processPendingMInterrupts(m) ==
  LET ready == m.mip \cap m.mie \cap {MEI, MSI, MTI}
  IN IF ready = {} THEN m ELSE _interrupt(m, First(MVectors, ready), FALSE)

\* An interrupt that is not delegated is always taken here; a delegated one
\* below supervisor mode, in it if SIE, and in machine mode if not SIE.
SReady(m) ==
  {n \in m.mip \cap m.mie \cap S_RW_MASK :
     \/ n \notin m.mideleg
     \/ m.mode < S
     \/ m.mode = S /\ m.mstatus.SIE
     \/ m.mode = M /\ ~m.mstatus.SIE}

\* Mutant: every interrupt goes to machine mode.
Mutant_processPendingSInterrupts(m) ==
  IF SReady(m) = {} THEN m ELSE _interrupt(m, First(SVectors, SReady(m)), FALSE)

_processPendingSInterrupts(m) ==
  LET n == First(SVectors, SReady(m))
  IN IF SReady(m) = {} THEN m ELSE _interrupt(m, n, n \in m.mideleg)

_processPendingInterrupts(m) ==
  IF m.mode = M /\ ~m.mstatus.MIE THEN m
  ELSE LET afterM == _processPendingMInterrupts(m)
       IN IF afterM.trap THEN afterM ELSE _processPendingSInterrupts(afterM)

-----------------------------------------------------------------------------
\* The part of _doTrap that switches mode; the trap vectors are address 0.
TrapToM(m) ==
  [m EXCEPT !.trap = FALSE, !.wfi = FALSE, !.mcause = m.trapCause,
            !.mstatus.MPIE = m.mstatus.MIE, !.mstatus.MIE = FALSE, !.mstatus.MPP = m.mode,
            !.mode = M, !.mepc = m.pc]

\* Mutant: the interrupt enable is cleared before it is saved.
MutantTrapToS(m) ==
  [m EXCEPT !.trap = FALSE, !.wfi = FALSE, !.scause = m.trapCause,
            !.mstatus.SPIE = FALSE, !.mstatus.SIE = FALSE, !.mstatus.SPP = m.mode % 2,
            !.mode = S, !.sepc = m.pc]

\* MSTATUS_SPP keeps the low bit of the mode only
TrapToS(m) ==
  [m EXCEPT !.trap = FALSE, !.wfi = FALSE, !.scause = m.trapCause,
            !.mstatus.SPIE = m.mstatus.SIE, !.mstatus.SIE = FALSE, !.mstatus.SPP = m.mode % 2,
            !.mode = S, !.sepc = m.pc]

_xret(m, mode, instSize) ==
  IF m.mode < mode \/ (m.mode = S /\ mode = S /\ m.mstatus.TSR) THEN _trap(m, INST_ILL)
  ELSE IF mode = S
  THEN [m EXCEPT !.mstatus.SIE = m.mstatus.SPIE, !.mstatus.SPIE = TRUE,
                 !.mode = m.mstatus.SPP, !.mstatus.SPP = U,
                 !.pc = (m.sepc - instSize) % NPC]
  ELSE [m EXCEPT !.mstatus.MIE = m.mstatus.MPIE, !.mstatus.MPIE = TRUE,
                 !.mode = m.mstatus.MPP, !.mstatus.MPP = U,
                 !.pc = (m.mepc - instSize) % NPC]

-----------------------------------------------------------------------------
\* Mutant: the reserved mode 2 is kept in MPP.
Mutant_writeMstatus(m, val) ==
  LET noticed == IF <<val.MIE, val.SIE>> = <<m.mstatus.MIE, m.mstatus.SIE>>
                 THEN m ELSE _pendingIRQ(m)
  IN [noticed EXCEPT !.mstatus = val]

\* _writeMstatus: the reserved mode 2 in MPP reads back as machine mode
_writeMstatus(m, val) ==
  LET noticed == IF <<val.MIE, val.SIE>> = <<m.mstatus.MIE, m.mstatus.SIE>>
                 THEN m ELSE _pendingIRQ(m)
  IN [noticed EXCEPT !.mstatus = [val EXCEPT !.MPP = IF @ \in {U, S} THEN @ ELSE M]]

_writeMie(m, val) ==
  LET new == (m.mie \ M_RW_MASK) \cup (val \cap M_RW_MASK)
  IN [(IF new = m.mie THEN m ELSE _pendingIRQ(m)) EXCEPT !.mie = new]

_writeMip(m, val) ==
  LET new == (m.mip \ M_RW_MASK) \cup (val \cap M_RW_MASK)
  IN [(IF new = m.mip THEN m ELSE _pendingIRQ(m)) EXCEPT !.mip = new]

-----------------------------------------------------------------------------
\* The CSRs.  Of the Plain ones nothing here depends on what they hold, and
\* writing one of the ReadOnly ones, or one that does not exist, is illegal.
Plain == {"STVEC", "SENVCFG", "SSCRATCH", "STVAL", "MTVEC", "MENVCFG", "MSCRATCH", "MTVAL", "MISA"}
ReadOnly == {"SCAUSE", "SATP", "MCAUSE", "MHARTID"}

\* The counters, and their bits in mcounteren and scounteren
CounterBit == [CYCLE |-> "CY", TIME |-> "TM", INSTRET |-> "IR"]
COUNTEREN_WR_MASK == {"CY", "TM", "IR"}

_checkPrfCounterAccess(m, mask) ==
  /\ m.mode < M => mask \in m.mcounteren
  /\ m.mode < S => mask \in m.scounteren

\* The lowest mode that may access a CSR: bits 8 and 9 of its number.
CsrMode(csr) ==
  IF csr \in DOMAIN CounterBit THEN U
  ELSE IF csr \in {"SSTATUS", "SIE", "SIP", "STVEC", "SENVCFG", "SSCRATCH", "STVAL", "SEPC", "SCAUSE",
                   "SATP", "SCOUNTEREN"} THEN S ELSE M

\* Mutant: the kernel writes all bits of mie and mip through sie and sip.
MutantSMask(m) == M_RW_MASK

\* mideleg & SIE_RW_MASK, and the same for SIP
SMask(m) == m.mideleg \cap S_RW_MASK

\* What _readCSR returns of the CSRs that are sets of bits
BitCsrs == {"SIE", "SIP", "MIE", "MIP", "MIDELEG", "MEDELEG", "MCOUNTEREN", "SCOUNTEREN"}
CsrBits(m, csr) ==
  CASE csr = "SIE" -> m.mie \cap SMask(m)
    [] csr = "SIP" -> m.mip \cap SMask(m)
    [] csr = "MIE" -> m.mie
    [] csr = "MIP" -> m.mip
    [] csr = "MIDELEG" -> m.mideleg
    [] csr = "MEDELEG" -> m.medeleg
    [] csr = "MCOUNTEREN" -> m.mcounteren
    [] csr = "SCOUNTEREN" -> m.scounteren

\* What _readCSR does: it traps or nothing
_readCSR(m, csr) ==
  IF /\ m.mode >= CsrMode(csr)
     /\ csr \in DOMAIN CounterBit => _checkPrfCounterAccess(m, CounterBit[csr])
     /\ csr # "unknown"
  THEN m ELSE _trap(m, INST_ILL)

_writeCSR(m, csr, val) ==
  LET mask == SMask(m) IN
    IF m.trap THEN m
    ELSE IF m.mode < CsrMode(csr) THEN _trap(m, INST_ILL)
    ELSE CASE csr = "SSTATUS" ->
                _writeMstatus(m, [m.mstatus EXCEPT !.SIE = val.SIE, !.SPIE = val.SPIE,
                                                   !.SPP = val.SPP])
           [] csr = "SIE" -> _writeMie(m, (val \cap mask) \cup (m.mie \ mask))
           [] csr = "SIP" -> _writeMip(m, (val \cap mask) \cup (m.mip \ mask))
           [] csr = "MSTATUS" -> _writeMstatus(m, val)
           [] csr = "MIE" -> _writeMie(m, val)
           [] csr = "MIP" -> _writeMip(m, val)
           [] csr = "MIDELEG" -> [m EXCEPT !.mideleg = val \cap S_RW_MASK]
           [] csr = "MEDELEG" -> [m EXCEPT !.medeleg = val \cap MEDELEG_RW_MASK]
           [] csr = "MCOUNTEREN" -> [m EXCEPT !.mcounteren = val \cap COUNTEREN_WR_MASK]
           [] csr = "SCOUNTEREN" -> [m EXCEPT !.scounteren = val \cap COUNTEREN_WR_MASK]
           [] csr = "SEPC" -> [m EXCEPT !.sepc = val]
           [] csr = "MEPC" -> [m EXCEPT !.mepc = val]
           [] csr \in Plain -> m
           [] OTHER -> _trap(m, INST_ILL)

\* CSRRW, CSRRS, CSRRC and their immediate forms: the CSR is read first, and
\* "R" stands for the set and clear forms with rs1 zero, which do not write.
CsrInstr(m, in) ==
  LET read == _readCSR(m, in.csr) IN
    CASE in.kind = "R"  -> read
      [] in.kind = "RW" -> _writeCSR(read, in.csr, in.val)
      [] in.kind = "RS" -> _writeCSR(read, in.csr, CsrBits(m, in.csr) \cup in.val)
      [] in.kind = "RC" -> _writeCSR(read, in.csr, CsrBits(m, in.csr) \ in.val)
=============================================================================
