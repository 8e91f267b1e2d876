-------------------------------- MODULE Sbi --------------------------------
(***************************************************************************)
(* sbi.c: the firmware the emulator plays for a guest kernel that runs in  *)
(* supervisor mode.  It is entered from _doTrap with the hart in machine   *)
(* mode, and returns by an _xret.  The field regs has the registers that   *)
(* calls read and answer in; set_timer's 64-bit time is in a0 alone.       *)
(* The asserts that fail are collected in the field failed: the release    *)
(* build (NDEBUG) goes on, the debug build aborts.                         *)
(***************************************************************************)
EXTENDS Aclint

CONSTANT WordMax   \* CPU_UINT_MAX: 2^64 - 1 on RV64, 2^32 - 1 on RV32

ASSUME WordMaxAssumption == WordMax \in Time \ {0}

\* SBI_EID
SBI_EID_BASE == 16
SBI_EID_TIMER == 1414090053
SBI_EID_IPI == 7557193
SBI_EID_RFENCE == 1380339267
SBI_EID_SYSRESET == 1397904212
SBI_EID_DBGCON == 1145193294
SBI_EID_FWFT == 1180124756
EID == {SBI_EID_BASE, SBI_EID_TIMER, SBI_EID_IPI, SBI_EID_RFENCE, SBI_EID_SYSRESET,
        SBI_EID_DBGCON, SBI_EID_FWFT}

\* SBI_Err
OK == 0
NOT_SUPPORTED == -2
INVALID_PARAM == -3

sbi_init == [regs |-> [a7 |-> 0, a6 |-> 0, a0 |-> 0, a1 |-> 0], failed |-> {}]

Answer(m, error, value) == [m EXCEPT !.regs.a0 = error, !.regs.a1 = value]

\* Function 3 probes an extension; the others return constants.
_handleBaseExt(m) ==
  IF m.regs.a6 = 3
  THEN Answer(m, OK, IF m.regs.a0 \in EID THEN 1 ELSE 0)
  ELSE Answer(m, IF m.regs.a6 \in 0 .. 6 THEN OK ELSE NOT_SUPPORTED, 0)

\* set_timer; ~(uint64_t)1 is one less than the largest time
_handleTimerExt(m) ==
  IF m.regs.a6 # 0 THEN Answer(m, NOT_SUPPORTED, 0)
  ELSE Answer([aclint_setMtimecmp(m, m.regs.a0) EXCEPT
                 !.mie = IF m.regs.a0 = TimeMod - 2 THEN @ \ {MTI} ELSE @ \cup {MTI}], OK, 0)

\* console_write: the answer is the byte count also when a byte could not be
\* read (there is no device at address 0)
_handleDbgConExt(m) ==
  IF m.regs.a6 # 0 THEN Answer(m, NOT_SUPPORTED, 0)
  ELSE Answer(m, IF m.regs.a0 > 0 /\ m.regs.a1 = 0 THEN INVALID_PARAM ELSE OK, m.regs.a0)

\* Mutant: the calls of the guest's user mode are not delegated to its kernel.
Mutant_sbi_startHart ==
  [rv_reset(S) EXCEPT !.medeleg = Traps \ {CALL_U, CALL_S, CALL_M}, !.mideleg = S_RW_MASK,
                     !.mcounteren = COUNTEREN_WR_MASK]

\* medeleg and mideleg: everything but CALL_S, CALL_M, DOUBLE_TRAP and but the
\* machine-level interrupts; mcounteren: everything
sbi_startHart ==
  [rv_reset(S) EXCEPT !.medeleg = Traps \ {CALL_S, CALL_M}, !.mideleg = S_RW_MASK,
                     !.mcounteren = COUNTEREN_WR_MASK]

sbi_handleEcall(m) ==
  CASE m.regs.a7 = SBI_EID_BASE   -> _handleBaseExt(m)
    [] m.regs.a7 = SBI_EID_TIMER  -> _handleTimerExt(m)
    [] m.regs.a7 = SBI_EID_DBGCON -> _handleDbgConExt(m)
    [] OTHER -> Answer([m EXCEPT !.failed = @ \cup {"unknown extension"}], NOT_SUPPORTED, 0)

sbi_handleInterrupt(m) ==
  IF m.mcause.n = MTI
  THEN LET quiet == [aclint_setMtimecmp(m, WordMax) EXCEPT !.mie = @ \ {MTI}]
       IN rv_setInterrupt(quiet, STI)
  ELSE [m EXCEPT !.failed = @ \cup {"unexpected interrupt"}]

sbi_handleException(m) == [m EXCEPT !.failed = @ \cup {"exception"}]
=============================================================================
