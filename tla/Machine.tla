------------------------------ MODULE Machine ------------------------------
(***************************************************************************)
(* The hart with its ACLINT and the SBI firmware, run by main's loop:      *)
(* cyclesPerStep times rv_run, then the clock is advanced, by more if the  *)
(* guest waits for an interrupt, and then the console is polled.  The      *)
(* guest is any program over a set of instructions: rv_run executes any of *)
(* Instr[TRUE] in a guest that runs on the SBI, and any of Instr[FALSE] in *)
(* one that was started with --no-sbi.                                     *)
(***************************************************************************)
EXTENDS Sbi

CONSTANTS Instr,          \* by the value of virtualSBI, what the guest's program is made of
          cyclesPerStep,  \* 100 in main
          TicksPerUs,     \* ACLINT_FREQENCY / 1000000, 10 in main
          MaxSleepUs,     \* 100000 in main
          Poll,           \* the interrupts the console's input may raise, through the PLIC
          MaxTime         \* bound: the clock stands still from here on

ASSUME MachineAssumption ==
  /\ DOMAIN Instr \subseteq BOOLEAN
  /\ cyclesPerStep \in Nat \ {0} /\ TicksPerUs \in Nat \ {0}
  /\ MaxSleepUs \in Nat /\ MaxTime \in Time
  /\ Poll \subseteq {SEI, MEI}

\* An instruction, its operands in the range that the registers have.  Of the
\* CSRs, the set and clear forms are for those that are sets of bits.
WellFormed(in) ==
  \/ in.op \in {"other", "sret", "mret", "wfi"}
  \/ in.op = "fault" /\ in.cause \in Traps \ {CALL_U, CALL_S, CALL_M}
  \/ /\ in.op = "ecall" /\ in.regs \in [a7 : Int, a6 : Int, a0 : Int, a1 : Int]
     /\ in.regs.a7 = SBI_EID_TIMER => in.regs.a0 \in Time
  \/ in.op = "store" /\ in.reg \in {"msip", "mtimecmp", "mtime"} /\ in.val \in Time
  \/ /\ in.op = "csr"
     /\ \/ in.kind = "R"
        \/ in.kind \in {"RS", "RC"} /\ in.csr \in BitCsrs
        \/ /\ in.kind = "RW"
           /\ in.csr = "SSTATUS" => in.val \in [SIE : BOOLEAN, SPIE : BOOLEAN, SPP : {U, S}]
           /\ in.csr = "MSTATUS" => in.val \in [MIE : BOOLEAN, MPIE : BOOLEAN, MPP : 0 .. 3,
                                                SIE : BOOLEAN, SPIE : BOOLEAN, SPP : {U, S},
                                                TSR : BOOLEAN, TW : BOOLEAN]
           /\ in.csr \in {"SEPC", "MEPC"} => in.val \in 0 .. NPC - 1

ASSUME GuestAssumption == \A sbi \in DOMAIN Instr : \A in \in Instr[sbi] : WellFormed(in)

VARIABLES m,       \* the machine: hart, ACLINT and SBI
          phase,   \* where main's loop is: "run", "tick", "idle" or "poll"
          i,       \* how many rv_run calls this round has made
          late     \* history: mtime has reached CPU_UINT_MAX

machineVars == <<m, phase, i, late>>

-----------------------------------------------------------------------------
\* rv_run goes on with the next instruction after the trap.  The SBI is entered
\* through a trap to machine mode and left by _xret: after an ecall the
\* instruction is skipped, after an interrupt it is not.
\* Mutant: the ecall is executed again.
Mutant_doTrap(s) ==
  IF s.trapDelegate THEN [TrapToS(s) EXCEPT !.pc = 0]
  ELSE IF ~s.virtualSBI THEN [TrapToM(s) EXCEPT !.pc = 0]
  ELSE _xret(IF s.trapCause.n = CALL_S THEN sbi_handleEcall(TrapToM(s))
             ELSE IF s.trapCause.irq THEN sbi_handleInterrupt(TrapToM(s))
             ELSE sbi_handleException(TrapToM(s)), M, 0)

_doTrap(s) ==
  IF s.trapDelegate THEN [TrapToS(s) EXCEPT !.pc = 0]
  ELSE IF ~s.virtualSBI THEN [TrapToM(s) EXCEPT !.pc = 0]
  ELSE IF s.trapCause.n = CALL_S THEN _xret(sbi_handleEcall(TrapToM(s)), M, -1)
  ELSE IF s.trapCause.irq THEN _xret(sbi_handleInterrupt(TrapToM(s)), M, 0)
  ELSE _xret(sbi_handleException(TrapToM(s)), M, 0)

\* TRAP_CALL_U, TRAP_CALL_S or TRAP_CALL_M
EcallCause(s) == CASE s.mode = U -> CALL_U [] s.mode = S -> CALL_S [] s.mode = M -> CALL_M

\* _execInstr for the instructions that bear on traps, interrupts and the
\* timer.  "fault" is any instruction that ends in a trap, a failed fetch
\* included; "other" is any that only computes.
Exec(s, in) ==
  CASE in.op = "other" -> s
    [] in.op = "fault" -> _trap(s, in.cause)
    [] in.op = "ecall" -> _trap([s EXCEPT !.regs = in.regs], EcallCause(s))
    [] in.op = "sret"  -> _xret(s, S, 1)
    [] in.op = "mret"  -> _xret(s, M, 1)
    [] in.op = "wfi"   -> IF s.mode = U \/ (s.mode < M /\ s.mstatus.TW)
                          THEN _trap(s, INST_ILL) ELSE [s EXCEPT !.wfi = TRUE]
    [] in.op = "csr"   -> CsrInstr(s, in)
    [] in.op = "store" -> AclintWrite(s, in.reg, in.val)

\* What rv_run does before it fetches.
BeforeFetch(s) ==
  IF s.trap THEN _doTrap(s) ELSE IF s.irq THEN _processPendingInterrupts(s) ELSE s

rv_run(s, in) ==
  LET b == BeforeFetch(s)
      e == Exec(b, in)
  IN IF b.trap THEN b
     ELSE IF e.trap THEN e ELSE [e EXCEPT !.pc = (@ + 1) % NPC]

\* Mutant: the remaining time is rounded up to a whole microsecond.
MutantIdleTicks(s) ==
  LET us == (aclint_mtimeRemains(s) + TicksPerUs - 1) \div TicksPerUs
  IN (IF us > MaxSleepUs THEN MaxSleepUs ELSE us) * TicksPerUs

\* min(mtimeRemains / aclint_usecs, 100000) * aclint_usecs
IdleTicks(s) ==
  LET us == aclint_mtimeRemains(s) \div TicksPerUs
  IN (IF us > MaxSleepUs THEN MaxSleepUs ELSE us) * TicksPerUs

\* aclint_tick, up to the bound
Advance(s, cycles) == aclint_tick(s, IF s.mtime + cycles <= MaxTime THEN cycles ELSE 0)

-----------------------------------------------------------------------------
\* main: rv_init, then rv_reset to machine mode or sbi_startHart
MachineInit ==
  /\ \E sbi \in DOMAIN Instr :
       m = [f \in DOMAIN sbi_startHart \cup DOMAIN aclint_init \cup DOMAIN sbi_init
                  \cup {"virtualSBI"} |->
              IF f = "virtualSBI" THEN sbi
              ELSE IF f \in DOMAIN aclint_init THEN aclint_init[f]
              ELSE IF f \in DOMAIN sbi_init THEN sbi_init[f]
              ELSE IF sbi THEN sbi_startHart[f] ELSE rv_reset(M)[f]]
  /\ phase = "run"
  /\ i = 0
  /\ late = FALSE

RvRun ==
  /\ phase = "run"
  /\ \E in \in Instr[m.virtualSBI] : m' = rv_run(m, in)
  /\ i' = (i + 1) % cyclesPerStep
  /\ phase' = IF i' = 0 THEN "tick" ELSE "run"

Tick ==
  /\ phase = "tick"
  /\ m' = Advance(m, cyclesPerStep)
  /\ phase' = IF m'.wfi THEN "idle" ELSE "poll"
  /\ UNCHANGED i

Idle ==
  /\ phase = "idle"
  /\ m' = Advance(m, IdleTicks(m))
  /\ phase' = "poll"
  /\ UNCHANGED i

\* ui_getch: a key goes to the UART, which may raise an interrupt at the PLIC
PollConsole ==
  /\ phase = "poll"
  /\ \/ m' = m
     \/ \E n \in Poll : m' = rv_setInterrupt(m, n)
  /\ phase' = "run"
  /\ UNCHANGED i

MachineNext ==
  /\ RvRun \/ Tick \/ Idle \/ PollConsole
  /\ late' = (late \/ m'.mtime >= WordMax)

MachineSpec == MachineInit /\ [][MachineNext]_machineVars

\* The loop of main never stops, and the guest does not trap on every
\* instruction for ever: rv_run looks for interrupts only when no trap is due.
Straight == RvRun /\ ~m'.trap
FairMachine ==
  /\ MachineSpec
  /\ WF_machineVars(MachineNext)
  /\ SF_machineVars(Straight /\ late' = (late \/ m'.mtime >= WordMax))

-----------------------------------------------------------------------------
MachineTypeOK ==
  /\ m.mode \in Modes /\ m.pc \in 0 .. NPC - 1
  /\ m.trap \in BOOLEAN /\ m.trapCause \in Causes /\ m.trapDelegate \in BOOLEAN
  /\ m.irq \in BOOLEAN /\ m.wfi \in BOOLEAN
  /\ m.mip \subseteq Irqs /\ m.mie \subseteq Irqs
  /\ m.mideleg \subseteq Irqs /\ m.medeleg \subseteq Traps
  /\ m.mstatus \in Mstatus
  /\ m.mcounteren \subseteq COUNTEREN_WR_MASK /\ m.scounteren \subseteq COUNTEREN_WR_MASK
  /\ m.mcause \in Causes /\ m.scause \in Causes
  /\ m.mepc \in 0 .. NPC - 1 /\ m.sepc \in 0 .. NPC - 1
  /\ m.mtime \in Time /\ m.mtimecmp \in Time
  /\ m.pindingIrq \in BOOLEAN /\ m.msip \in Nat
  /\ phase \in {"run", "tick", "idle", "poll"}
  /\ i \in 0 .. cyclesPerStep - 1
  /\ late \in BOOLEAN

\* The asserts of sbi.c hold: whatever a guest in S and U mode does to its
\* CSRs and to the ACLINT, the built-in SBI is entered for ecalls from S mode
\* and for the machine timer only.  A call of an extension it does not have is
\* the exception, of which ProbedExtensionsKnown tells.
SbiAssertsHold == m.failed = {}

\* What is not delegated is an ecall from S mode or the machine timer, so
\* the comparison of the bare cause number with TRAP_CALL_S in _doTrap never
\* mistakes a supervisor external interrupt (also number 9) for a call.
UndelegatedOnly ==
  (m.virtualSBI /\ m.trap /\ ~m.trapDelegate) =>
    m.trapCause \in {Cause(FALSE, CALL_S), Cause(TRUE, MTI)}

\* The SBI is invisible to the guest: after a trap into it the hart is in
\* the mode it came from with the guest's own trap state as it was, behind the
\* ecall or at the interrupted instruction, and the only supervisor interrupt
\* it may have raised is the timer's.
SbiTransparent ==
  (m.virtualSBI /\ m.trap /\ ~m.trapDelegate) =>
    LET r == _doTrap(m) IN
      /\ r.mode = m.mode
      /\ r.pc = IF m.trapCause.irq THEN m.pc ELSE (m.pc + 1) % NPC
      /\ r.mstatus.SIE = m.mstatus.SIE /\ r.mstatus.SPIE = m.mstatus.SPIE
      /\ r.mstatus.SPP = m.mstatus.SPP
      /\ r.sepc = m.sepc /\ r.scause = m.scause
      /\ r.mie \cap S_RW_MASK = m.mie \cap S_RW_MASK
      /\ r.mip \cap S_RW_MASK =
           (m.mip \cap S_RW_MASK) \cup (IF m.trapCause.irq THEN {STI} ELSE {})

\* A guest in S or U mode cannot touch what belongs to machine mode, whatever
\* it writes through sstatus, sie and sip, which are views of mstatus, mie and
\* mip, or tries to: only a trap to machine mode, or into the SBI, does.
Confined ==
  [][(m.mode < M /\ m'.mode < M /\ ~(m.trap /\ ~m.trapDelegate)) =>
       /\ m'.mideleg = m.mideleg /\ m'.medeleg = m.medeleg /\ m'.mcounteren = m.mcounteren
       /\ m'.mepc = m.mepc /\ m'.mcause = m.mcause
       /\ m'.mie \ S_RW_MASK = m.mie \ S_RW_MASK
       /\ \A f \in {"MIE", "MPIE", "MPP", "TSR", "TW"} : m'.mstatus[f] = m.mstatus[f]]_machineVars

\* rv_run looks for interrupts only when the irq flag is set: no interrupt is
\* pending while it is clear.
PendingNoticed == m.mip # {} => m.irq

\* A due timer that the guest has armed through the SBI is never forgotten:
\* its interrupt is pending or being taken, as long as mtime has not reached
\* the CPU_UINT_MAX that sbi_handleInterrupt uses for "never".
TimerNotLost ==
  (~late /\ MTI \in m.mie /\ m.mtime >= m.mtimecmp) =>
    MTI \in m.mip \/ (m.trap /\ m.trapCause = Cause(TRUE, MTI))

\* A trap that does not lower the privilege and the return from it restore the
\* mode, both interrupt enables and the program counter: the trap saved what
\* the return needs, also when traps nest.
TrapReturns ==
  m.trap /\ (m.trapDelegate \/ ~m.virtualSBI) =>
    LET t == _doTrap(m)
        r == _xret(t, t.mode, 0)
    IN (t.mode >= m.mode /\ (t.mode = S => ~t.mstatus.TSR)) =>
         /\ r.mode = m.mode
         /\ r.pc = m.pc
         /\ r.mstatus.SIE = m.mstatus.SIE
         /\ r.mstatus.MIE = m.mstatus.MIE

\* A guest that calls only extensions that the probe function reports never
\* gets to the assert(false) for unknown ones (sbi.c:159).
ProbedExtensionsKnown == "unknown extension" \notin m.failed

\* The sleep of an idle guest never carries the clock past its deadline.
IdleNotPast == [][Idle /\ m.mtime < m.mtimecmp => m'.mtime <= m.mtimecmp]_machineVars

\* An armed timer that is due fires: sbi_handleInterrupt disarms it as it
\* raises the supervisor timer interrupt, unless the guest sets it anew first
\* or mtime reaches CPU_UINT_MAX.
TimerDue == ~late /\ MTI \in m.mie /\ m.mtime >= m.mtimecmp
TimerFires == TimerDue ~> ~TimerDue
=============================================================================
