--------------------------- MODULE MachineProofs ---------------------------
(***************************************************************************)
(* The hart, its timer and the SBI, for every guest program over           *)
(* well-formed instructions, every clock and every length of main's rounds. *)
(***************************************************************************)
EXTENDS Machine, TLAPS

Fields ==
  {"mode", "pc", "trap", "trapCause", "trapDelegate", "irq", "wfi", "mip", "mie", "mideleg", "medeleg",
   "mstatus", "mcause", "scause", "mepc", "sepc", "mcounteren", "scounteren",
   "mtime", "mtimecmp", "pindingIrq", "msip", "regs", "failed", "virtualSBI"}

\* The types of the machine's fields, for any machine s
Trapping(s) ==
  /\ s.mode \in Modes /\ s.pc \in 0 .. NPC - 1
  /\ s.trap \in BOOLEAN /\ s.trapCause \in Causes /\ s.trapDelegate \in BOOLEAN
  /\ s.irq \in BOOLEAN /\ s.wfi \in BOOLEAN

Csrs(s) ==
  /\ s.mip \subseteq Irqs /\ s.mie \subseteq Irqs
  /\ s.mideleg \subseteq S_RW_MASK /\ s.medeleg \subseteq Traps
  /\ s.mstatus \in Mstatus
  /\ s.mcounteren \subseteq COUNTEREN_WR_MASK /\ s.scounteren \subseteq COUNTEREN_WR_MASK
  /\ s.mcause \in Causes /\ s.scause \in Causes
  /\ s.mepc \in 0 .. NPC - 1 /\ s.sepc \in 0 .. NPC - 1

Devices(s) ==
  /\ s.mtime \in Time /\ s.mtimecmp \in Time
  /\ s.pindingIrq \in BOOLEAN /\ s.msip \in Nat
  /\ s.regs \in [a7 : Int, a6 : Int, a0 : Int, a1 : Int]
  /\ s.virtualSBI \in DOMAIN Instr

Typed(s) == Fields \subseteq DOMAIN s /\ Trapping(s) /\ Csrs(s) /\ Devices(s)

\* rv_run looks for interrupts only when irq is set.
Noticed(s) == s.mip # {} => s.irq

\* The calls that sbi_handleEcall knows.  KnownCalls is what the theorem on the
\* asserts of sbi.c asks of the guest's program.
Known == {SBI_EID_BASE, SBI_EID_TIMER, SBI_EID_DBGCON}
KnownCalls ==
  TRUE \in DOMAIN Instr => \A in \in Instr[TRUE] : in.op = "ecall" => in.regs.a7 \in Known

\* What the SBI reads when it is entered for a call
CallOK(s) ==
  /\ s.regs.a7 = SBI_EID_TIMER => s.regs.a0 \in Time
  /\ KnownCalls => s.regs.a7 \in Known

\* A guest on the SBI never gets into machine mode, nor at what sbi_startHart
\* delegated, nor at an interrupt enable of machine mode but the timer's, which
\* the SBI sets; so what is not delegated is a call or the timer.
SbiOK(s) ==
  s.virtualSBI =>
    /\ s.mode \in {U, S}
    /\ s.mideleg = S_RW_MASK /\ s.medeleg = Traps \ {CALL_S, CALL_M}
    /\ s.mie \subseteq S_RW_MASK \cup {MTI}
    /\ s.trap /\ ~s.trapDelegate =>
         \/ s.trapCause = Cause(FALSE, CALL_S) /\ CallOK(s)
         \/ s.trapCause = Cause(TRUE, MTI)
    /\ s.trap /\ s.trapDelegate => s.trapCause # Cause(TRUE, MTI)

\* A timer that the guest armed through the SBI: the ACLINT's note of it is
\* right, and, until mtime has been at CPU_UINT_MAX, an interrupt that is noted
\* is pending or being taken.
TimerOK(s, l) ==
  s.virtualSBI =>
    /\ MTI \in s.mie => (s.pindingIrq <=> s.mtime >= s.mtimecmp)
    /\ ~l /\ s.pindingIrq => MTI \in s.mip \/ (s.trap /\ s.trapCause = Cause(TRUE, MTI))

Unfailed(s) == KnownCalls => s.failed = {}

Good(s, l) == Typed(s) /\ Noticed(s) /\ SbiOK(s) /\ TimerOK(s, l) /\ Unfailed(s)

-----------------------------------------------------------------------------
\* One of up to four numbers is the smallest.
LEMMA SmallestOfFour ==
  ASSUME NEW I \in SUBSET (1 .. 4), I # {}
  PROVE  \E k \in I : \A j \in I : k <= j
<1>1. CASE 1 \in I
  BY <1>1
<1>2. CASE 1 \notin I /\ 2 \in I
  BY <1>2
<1>3. CASE 1 \notin I /\ 2 \notin I /\ 3 \in I
  BY <1>3
<1>4. CASE 1 \notin I /\ 2 \notin I /\ 3 \notin I
  <2>1. PICK x \in I : TRUE
    OBVIOUS
  <2>2. \A j \in I : j = 4
    BY <1>4
  <2>. QED
    BY <2>1, <2>2
<1>. QED
  BY <1>1, <1>2, <1>3, <1>4

\* Raising and clearing an interrupt.  The timer's is cleared only along with
\* the ACLINT's note of it.
LEMMA SetClear ==
  ASSUME NEW s, NEW l \in BOOLEAN, Good(s, l), NEW n \in Irqs
  PROVE  /\ Good(rv_setInterrupt(s, n), l)
         /\ n # MTI => Good(rv_clearInterrupt(s, n), l)
<1>. DEFINE a == rv_setInterrupt(s, n)
            b == rv_clearInterrupt(s, n)
<1>1. Typed(a) /\ Typed(b)
  BY DEF Good, Typed, Fields, Trapping, Csrs, Devices, rv_setInterrupt, rv_clearInterrupt, _pendingIRQ
<1>2. Noticed(a) /\ Noticed(b)
  BY DEF Good, Typed, Fields, Noticed, rv_setInterrupt, rv_clearInterrupt, _pendingIRQ
<1>3. SbiOK(a) /\ SbiOK(b)
  BY DEF Good, Typed, Fields, SbiOK, CallOK, rv_setInterrupt, rv_clearInterrupt, _pendingIRQ
<1>4. TimerOK(a, l) /\ (n # MTI => TimerOK(b, l))
  BY DEF Good, Typed, Fields, TimerOK, rv_setInterrupt, rv_clearInterrupt, _pendingIRQ
<1>5. Unfailed(a) /\ Unfailed(b)
  BY DEF Good, Typed, Fields, Unfailed, rv_setInterrupt, rv_clearInterrupt, _pendingIRQ
<1>. QED
  BY <1>1, <1>2, <1>3, <1>4, <1>5 DEF Good

\* A trap: on the SBI, what the hart's mode and the delegation let through is a
\* call.
LEMMA TrapGood ==
  ASSUME NEW s, NEW l \in BOOLEAN, Good(s, l), ~s.trap, NEW n \in Traps,
         s.virtualSBI => n # CALL_M /\ (n = CALL_S => CallOK(s))
  PROVE  Good(_trap(s, n), l)
<1>. DEFINE a == _trap(s, n)
<1>1. Typed(a)
  BY DEF Good, Typed, Fields, Trapping, Csrs, Devices, _trap, Cause, Causes
<1>2. Noticed(a)
  BY DEF Good, Typed, Fields, Noticed, _trap
<1>3. SbiOK(a)
  <2>. SUFFICES ASSUME s.virtualSBI
                PROVE  /\ a.trap /\ ~a.trapDelegate =>
                            a.trapCause = Cause(FALSE, CALL_S) /\ CallOK(a)
                       /\ a.trapCause # Cause(TRUE, MTI)
    BY DEF SbiOK, _trap, Good, Typed, Fields
  <2>1. a.trapCause = Cause(FALSE, n) /\ a.regs = s.regs
    BY DEF _trap, Good, Typed, Fields
  <2>7. a.trapCause # Cause(TRUE, MTI)
    BY <2>1 DEF Cause
  <2>2. n # CALL_S => n \in s.medeleg /\ s.mode <= S
    BY DEF SbiOK, Good, U, S
  <2>3. n \notin {CALL_M, DOUBLE_TRAP}
    BY DEF Traps, DOUBLE_TRAP, INST_ALLIGN, INST_AF, INST_ILL,
         BREAKPOINT, LD_AF, ST_ALLIGN, ST_AF, CALL_U, CALL_S, CALL_M
  <2>4. a.trapDelegate = (n \notin {CALL_M, DOUBLE_TRAP} /\ s.mode <= S /\ n \in s.medeleg)
    BY DEF _trap, Good, Typed, Fields
  <2>5. CASE n = CALL_S
    BY <2>1, <2>5, <2>7 DEF CallOK
  <2>6. CASE n # CALL_S
    BY <2>2, <2>3, <2>4, <2>6, <2>7
  <2>. QED
    BY <2>5, <2>6
<1>4. TimerOK(a, l)
  BY DEF Good, Typed, Fields, TimerOK, _trap
<1>5. Unfailed(a)
  BY DEF Good, Typed, Fields, Unfailed, _trap
<1>. QED
  BY <1>1, <1>2, <1>3, <1>4, <1>5 DEF Good

\* An interrupt is taken: on the SBI a delegated one, or the machine timer's,
\* whose pending bit is exchanged for the trap.
LEMMA InterruptGood ==
  ASSUME NEW s, NEW l \in BOOLEAN, Good(s, l), ~s.trap, NEW n \in Irqs, NEW d \in BOOLEAN,
         s.virtualSBI => (IF d THEN n # MTI ELSE n = MTI)
  PROVE  Good(_interrupt(s, n, d), l)
<1>. DEFINE a == _interrupt(s, n, d)
<1>1. Typed(a)
  BY DEF Good, Typed, Fields, Trapping, Csrs, Devices, _interrupt, rv_clearInterrupt, Cause, Causes
<1>2. Noticed(a)
  BY DEF Good, Typed, Fields, Noticed, _interrupt, rv_clearInterrupt
<1>3. SbiOK(a)
  <2>1. a.trapCause = Cause(TRUE, n) /\ a.trapDelegate = d
    BY DEF _interrupt, rv_clearInterrupt, Good, Typed, Fields
  <2>2. n # MTI => a.trapCause # Cause(TRUE, MTI)
    BY <2>1 DEF Cause
  <2>. QED
    BY <2>1, <2>2 DEF SbiOK, _interrupt, rv_clearInterrupt, Good, Typed, Fields
<1>4. TimerOK(a, l)
  <2>1. a.trapCause = Cause(TRUE, n) /\ a.trap = TRUE /\ a.mip = s.mip \ {n}
    BY DEF _interrupt, rv_clearInterrupt, Good, Typed, Fields
  <2>. QED
    BY <2>1 DEF TimerOK, _interrupt, rv_clearInterrupt, Good, Typed, Fields
<1>5. Unfailed(a)
  BY DEF Good, Typed, Fields, Unfailed, _interrupt, rv_clearInterrupt
<1>. QED
  BY <1>1, <1>2, <1>3, <1>4, <1>5 DEF Good

\* The vectors are searched for a member of the set, and one is found.
LEMMA FirstIn ==
  ASSUME NEW v \in Seq(Int), Len(v) <= 4, NEW ready, ready # {},
         \A x \in ready : \E k \in DOMAIN v : v[k] = x
  PROVE  First(v, ready) \in ready
<1>. DEFINE I == {k \in DOMAIN v : v[k] \in ready}
<1>1. I # {} /\ I \in SUBSET (1 .. 4)
  BY SMTT(60)
<1>2. PICK k \in I : \A j \in I : k <= j
  BY <1>1, SmallestOfFour
<1>. QED
  BY <1>2 DEF First

\* Which interrupts rv_run may take
LEMMA ProcessGood ==
  ASSUME NEW s, NEW l \in BOOLEAN, Good(s, l), ~s.trap
  PROVE  /\ Good(_processPendingInterrupts(s), l)
         /\ _processPendingInterrupts(s).virtualSBI = s.virtualSBI
<1>. DEFINE ready == s.mip \cap s.mie \cap {MEI, MSI, MTI}
            a == _processPendingMInterrupts(s)
<1>0. \A n, d : _interrupt(s, n, d).virtualSBI = s.virtualSBI
  BY DEF _interrupt, rv_clearInterrupt, Good, Typed, Fields
<1>1. Good(a, l) /\ (~a.trap => a = s)
  <2>1. CASE ready = {}
    BY <2>1 DEF _processPendingMInterrupts
  <2>2. CASE ready # {}
    <3>. DEFINE n == First(MVectors, ready)
    <3>1. /\ MVectors \in Seq(Int) /\ Len(MVectors) <= 4
          /\ \A x \in ready : \E k \in DOMAIN MVectors : MVectors[k] = x
      BY DEF MVectors, MEI, MSI, MTI
    <3>2. n \in ready
      BY <2>2, <3>1, FirstIn
    <3>. HIDE DEF n
    <3>3. n \in Irqs /\ (s.virtualSBI => n = MTI)
      <4>1. n \in Irqs /\ n \in s.mie /\ n \in {MEI, MSI, MTI}
        BY <3>2 DEF Irqs
      <4>2. s.virtualSBI => n \in S_RW_MASK \cup {MTI}
        BY <4>1 DEF Good, SbiOK
      <4>. QED
        BY <4>1, <4>2 DEF S_RW_MASK, SSI, STI, SEI, LCOFI, MEI, MSI, MTI
    <3>4. Good(_interrupt(s, n, FALSE), l)
      BY <3>3, InterruptGood, Zenon
    <3>5. a = _interrupt(s, n, FALSE)
      BY <2>2 DEF _processPendingMInterrupts, n
    <3>6. _interrupt(s, n, FALSE).trap = TRUE
      BY DEF _interrupt, rv_clearInterrupt, Good, Typed, Fields
    <3>. QED
      BY <3>4, <3>5, <3>6
  <2>. QED
    BY <2>1, <2>2
<1>2. Good(_processPendingSInterrupts(s), l)
  <2>1. CASE SReady(s) = {}
    BY <2>1 DEF _processPendingSInterrupts
  <2>2. CASE SReady(s) # {}
    <3>. DEFINE n == First(SVectors, SReady(s))
    <3>1. SReady(s) \subseteq S_RW_MASK /\ SVectors \in Seq(Int) /\ Len(SVectors) <= 4
      BY DEF SReady, SVectors, SSI, STI, SEI, LCOFI
    <3>2. \A x \in S_RW_MASK : \E k \in DOMAIN SVectors : SVectors[k] = x
      BY DEF S_RW_MASK, SVectors, SSI, STI, SEI, LCOFI
    <3>3. n \in SReady(s)
      BY <2>2, <3>1, <3>2, FirstIn
    <3>. HIDE DEF n
    <3>4. n \in Irqs /\ n # MTI /\ (s.virtualSBI => n \in s.mideleg)
      <4>1. n \in S_RW_MASK
        BY <3>1, <3>3
      <4>2. n \in Irqs /\ n # MTI
        BY <4>1 DEF S_RW_MASK, Irqs, SSI, STI, SEI, LCOFI, MTI
      <4>. QED
        BY <4>1, <4>2 DEF Good, SbiOK
    <3>5. (n \in s.mideleg) \in BOOLEAN
      OBVIOUS
    <3>6. Good(_interrupt(s, n, n \in s.mideleg), l)
      BY <3>4, <3>5, InterruptGood, Zenon
    <3>. QED
      BY <2>2, <3>6 DEF _processPendingSInterrupts, n
  <2>. QED
    BY <2>1, <2>2
<1>3. a.virtualSBI = s.virtualSBI /\ _processPendingSInterrupts(s).virtualSBI = s.virtualSBI
  BY <1>0 DEF _processPendingMInterrupts, _processPendingSInterrupts
<1>. QED
  BY <1>1, <1>2, <1>3 DEF _processPendingInterrupts

-----------------------------------------------------------------------------
\* What _updateMtimer does: the note of the interrupt is right, and on a change
\* of it the pending bit follows.
Timed(t, a) ==
  /\ Fields \subseteq DOMAIN a
  /\ \A f \in Fields \ {"mip", "irq", "wfi", "pindingIrq"} : a[f] = t[f]
  /\ a.pindingIrq \in BOOLEAN
  /\ a.pindingIrq <=> t.mtime >= t.mtimecmp
  /\ a.pindingIrq => MTI \in a.mip \/ (t.pindingIrq /\ a.mip = t.mip)
  /\ a.mip \ {MTI} = t.mip \ {MTI}
  /\ a.irq = TRUE \/ (a.irq = t.irq /\ a.mip \subseteq t.mip)
  /\ a.wfi \in {t.wfi, FALSE}

\* _updateMtimer makes the note right.
LEMMA UpdateMtimerDoes ==
  ASSUME NEW t, Fields \subseteq DOMAIN t, t.mtime \in Time, t.mtimecmp \in Time,
         t.pindingIrq \in BOOLEAN
  PROVE  Timed(t, _updateMtimer(t))
<1>. DEFINE a == _updateMtimer(t)
<1>1. t.mtime \in Int /\ t.mtimecmp \in Int
  BY TimeModAssumption DEF Time
<1>2. CASE t.mtime >= t.mtimecmp /\ ~t.pindingIrq
  <2>1. a = [t EXCEPT !.pindingIrq = TRUE, !.mip = @ \cup {MTI}, !.irq = TRUE, !.wfi = FALSE]
    BY <1>2 DEF _updateMtimer, rv_setInterrupt, _pendingIRQ, Fields
  <2>. HIDE DEF a
  <2>2. /\ a.pindingIrq = TRUE /\ a.mip = t.mip \cup {MTI} /\ a.irq = TRUE /\ a.wfi = FALSE
        /\ Fields \subseteq DOMAIN a
        /\ \A f \in Fields \ {"mip", "irq", "wfi", "pindingIrq"} : a[f] = t[f]
    BY <2>1 DEF Fields
  <2>. QED
    BY <1>2, <2>2 DEF Timed, a
<1>3. CASE t.mtime < t.mtimecmp /\ t.pindingIrq
  <2>1. a = [t EXCEPT !.pindingIrq = FALSE, !.mip = @ \ {MTI}]
    BY <1>1, <1>3 DEF _updateMtimer, rv_clearInterrupt, Fields
  <2>. HIDE DEF a
  <2>2. /\ a.pindingIrq = FALSE /\ a.mip = t.mip \ {MTI} /\ a.irq = t.irq /\ a.wfi = t.wfi
        /\ Fields \subseteq DOMAIN a
        /\ \A f \in Fields \ {"mip", "irq", "wfi", "pindingIrq"} : a[f] = t[f]
    BY <2>1 DEF Fields
  <2>3. ~(t.mtime >= t.mtimecmp)
    BY <1>1, <1>3
  <2>. QED
    BY <2>2, <2>3 DEF Timed, a
<1>4. CASE t.mtime >= t.mtimecmp /\ t.pindingIrq
  <2>1. a = t
    BY <1>4 DEF _updateMtimer
  <2>. QED
    BY <1>4, <2>1 DEF Timed
<1>5. CASE t.mtime < t.mtimecmp /\ ~t.pindingIrq
  <2>1. ~(t.mtime >= t.mtimecmp)
    BY <1>1, <1>5
  <2>2. a = t
    BY <1>5, <2>1 DEF _updateMtimer
  <2>. QED
    BY <1>5, <2>1, <2>2 DEF Timed
<1>6. t.mtime >= t.mtimecmp \/ t.mtime < t.mtimecmp
  BY <1>1
<1>. QED
  BY <1>2, <1>3, <1>4, <1>5, <1>6

\* So the machine stays good whichever register of the ACLINT was set.
LEMMA UpdateMtimerGood ==
  ASSUME NEW s, NEW l \in BOOLEAN, Good(s, l), NEW x \in Time, NEW y \in Time, NEW z \in Nat
  PROVE  /\ Good(_updateMtimer([s EXCEPT !.mtime = x]), l)
         /\ Good(_updateMtimer([s EXCEPT !.mtimecmp = y]), l)
         /\ Good(_updateMtimer([s EXCEPT !.msip = z]), l)
<1>. DEFINE Set(t) ==
       /\ Fields \subseteq DOMAIN t /\ t.mtime \in Time /\ t.mtimecmp \in Time /\ t.msip \in Nat
       /\ \A f \in Fields \ {"mtime", "mtimecmp", "msip"} : t[f] = s[f]
<1>1. /\ Set([s EXCEPT !.mtime = x]) /\ Set([s EXCEPT !.mtimecmp = y])
      /\ Set([s EXCEPT !.msip = z])
  BY DEF Good, Typed, Devices, Fields
<1>2. ASSUME NEW t, Set(t) PROVE Good(_updateMtimer(t), l)
  <2>. DEFINE a == _updateMtimer(t)
  <2>1. t.pindingIrq = s.pindingIrq /\ t.mip = s.mip /\ t.irq = s.irq /\ t.wfi = s.wfi
    BY <1>2 DEF Fields
  <2>2. Timed(t, a)
    BY <1>2, <2>1, UpdateMtimerDoes DEF Good, Typed, Devices
  <2>. HIDE DEF a
  <2>3. /\ Fields \subseteq DOMAIN a /\ a.mtime \in Time /\ a.mtimecmp \in Time /\ a.msip \in Nat
        /\ \A f \in Fields \ {"mtime", "mtimecmp", "msip", "mip", "irq", "wfi", "pindingIrq"} :
             a[f] = s[f]
    BY <1>2, <2>2 DEF Timed, Fields
  <2>4. MTI \in Irqs
    BY DEF Irqs
  <2>5. a.mip \subseteq Irqs /\ a.irq \in BOOLEAN /\ a.wfi \in BOOLEAN /\ a.pindingIrq \in BOOLEAN
    <3>1. s.mip \subseteq Irqs /\ s.irq \in BOOLEAN /\ s.wfi \in BOOLEAN
      BY DEF Good, Typed, Csrs, Trapping
    <3>2. a.mip \ {MTI} = s.mip \ {MTI} /\ a.irq \in {TRUE, s.irq} /\ a.wfi \in {s.wfi, FALSE}
      BY <2>1, <2>2 DEF Timed
    <3>3. a.mip \subseteq Irqs
      BY <2>4, <3>1, <3>2
    <3>4. a.irq \in BOOLEAN /\ a.wfi \in BOOLEAN
      BY <3>1, <3>2, Zenon
    <3>5. a.pindingIrq \in BOOLEAN
      BY <2>2, Zenon DEF Timed
    <3>. QED
      BY <3>3, <3>4, <3>5, Zenon
  <2>6. Typed(a)
    BY <2>3, <2>5 DEF Good, Typed, Fields, Trapping, Csrs, Devices
  <2>7. Noticed(a)
    BY <2>1, <2>2 DEF Timed, Good, Noticed
  <2>8. SbiOK(a) /\ Unfailed(a)
    BY <2>3 DEF Good, SbiOK, CallOK, Unfailed, Fields
  <2>9. TimerOK(a, l)
    <3>1. a.mtime = t.mtime /\ a.mtimecmp = t.mtimecmp
      BY <2>2 DEF Timed, Fields
    <3>2. a.trap = s.trap /\ a.trapCause = s.trapCause /\ a.virtualSBI = s.virtualSBI
      BY <2>3 DEF Fields
    <3>. QED
      BY <2>1, <2>2, <3>1, <3>2 DEF Timed, Good, TimerOK
  <2>. QED
    BY <2>6, <2>7, <2>8, <2>9 DEF Good, a
<1>. HIDE DEF Set
<1>. QED
  BY <1>1, <1>2, Zenon

\* A store to the ACLINT
LEMMA AclintWriteGood ==
  ASSUME NEW s, NEW l \in BOOLEAN, Good(s, l),
         NEW reg \in {"msip", "mtimecmp", "mtime"}, NEW val \in Time
  PROVE  Good(AclintWrite(s, reg, val), l)
<1>. DEFINE t == CASE reg = "msip"     -> [s EXCEPT !.msip = val]
                   [] reg = "mtimecmp" -> [s EXCEPT !.mtimecmp = val]
                   [] reg = "mtime"    -> [s EXCEPT !.mtime = val]
            a == _updateMtimer(t)
<1>1. val \in Nat
  BY TimeModAssumption DEF Time
<1>2. Good(a, l)
  <2>1. CASE reg = "msip"
    <3>1. t = [s EXCEPT !.msip = val]
      BY <2>1
    <3>. QED
      BY <1>1, <3>1, UpdateMtimerGood, ZenonT(60)
  <2>2. CASE reg = "mtimecmp"
    <3>1. t = [s EXCEPT !.mtimecmp = val]
      BY <2>2
    <3>. QED
      BY <1>1, <3>1, UpdateMtimerGood, ZenonT(60)
  <2>3. CASE reg = "mtime"
    <3>1. t = [s EXCEPT !.mtime = val]
      BY <2>3
    <3>. QED
      BY <1>1, <3>1, UpdateMtimerGood, ZenonT(60)
  <2>. QED
    BY <2>1, <2>2, <2>3
<1>. HIDE DEF a
<1>3. MSI \in Irqs /\ MSI # MTI
  BY DEF Irqs, MSI, MTI
<1>4. Good(rv_setInterrupt(a, MSI), l) /\ Good(rv_clearInterrupt(a, MSI), l)
  BY <1>2, <1>3, SetClear, Zenon
<1>5. AclintWrite(s, reg, val) = _updateMswi(a)
  BY DEF AclintWrite, a
<1>. QED
  BY <1>4, <1>5 DEF _updateMswi

\* aclint_tick: mtime is advanced
LEMMA TickGood ==
  ASSUME NEW s, NEW l \in BOOLEAN, Good(s, l), NEW cycles \in Nat
  PROVE  Good(aclint_tick(s, cycles), l)
<1>. DEFINE x == (s.mtime + cycles) % TimeMod
<1>1. s.mtime \in Nat
  BY TimeModAssumption DEF Good, Typed, Devices, Time
<1>2. x \in Time
  BY <1>1, TimeModAssumption DEF Time
<1>3. aclint_tick(s, cycles) = _updateMtimer([s EXCEPT !.mtime = x])
  BY DEF aclint_tick
<1>. QED
  BY <1>2, <1>3, UpdateMtimerGood DEF Time

-----------------------------------------------------------------------------
\* The writes of mstatus, mie and mip.  On the SBI the guest's writes leave the
\* timer's bits alone.
LEMMA WriteMstatusGood ==
  ASSUME NEW s, NEW l \in BOOLEAN, Good(s, l),
         NEW val \in [MIE : BOOLEAN, MPIE : BOOLEAN, MPP : 0 .. 3, SIE : BOOLEAN, SPIE : BOOLEAN,
                      SPP : {U, S}, TSR : BOOLEAN, TW : BOOLEAN]
  PROVE  Good(_writeMstatus(s, val), l)
<1>. DEFINE new == [val EXCEPT !.MPP = IF @ \in {U, S} THEN @ ELSE M]
            t == IF <<val.MIE, val.SIE>> = <<s.mstatus.MIE, s.mstatus.SIE>>
                 THEN s ELSE _pendingIRQ(s)
            a == _writeMstatus(s, val)
<1>1. new \in Mstatus
  BY DEF Mstatus, Modes, U, S, M
<1>2. t = s \/ t = _pendingIRQ(s)
  OBVIOUS
<1>. HIDE DEF new, t
<1>3. a = [t EXCEPT !.mstatus = new]
  BY DEF _writeMstatus, new, t
<1>. HIDE DEF a
<1>4. Good(t, l)
  <2>. DEFINE p == _pendingIRQ(s)
  <2>1. Typed(p) /\ Noticed(p)
    BY DEF Good, Typed, Fields, Trapping, Csrs, Devices, Noticed, _pendingIRQ
  <2>2. SbiOK(p) /\ TimerOK(p, l) /\ Unfailed(p)
    BY ZenonT(60) DEF Good, Typed, Fields, SbiOK, CallOK, TimerOK, Unfailed, _pendingIRQ
  <2>. QED
    BY <1>2, <2>1, <2>2 DEF Good
<1>5. Typed(a) /\ Noticed(a)
  BY <1>1, <1>3, <1>4 DEF Good, Typed, Fields, Trapping, Csrs, Devices, Noticed
<1>6. SbiOK(a) /\ TimerOK(a, l) /\ Unfailed(a)
  BY <1>3, <1>4, ZenonT(60) DEF Good, Typed, Fields, SbiOK, CallOK, TimerOK, Unfailed
<1>. QED
  BY <1>5, <1>6 DEF Good, a

\* A write of mie
LEMMA WriteMieGood ==
  ASSUME NEW s, NEW l \in BOOLEAN, Good(s, l), NEW val,
         s.virtualSBI => /\ val \subseteq S_RW_MASK \cup {MTI}
                         /\ MTI \in val <=> MTI \in s.mie
  PROVE  Good(_writeMie(s, val), l)
<1>. DEFINE new == (s.mie \ M_RW_MASK) \cup (val \cap M_RW_MASK)
            a == _writeMie(s, val)
<1>1. new \subseteq Irqs /\ (s.virtualSBI => new \subseteq S_RW_MASK \cup {MTI})
  BY DEF Good, Typed, Csrs, M_RW_MASK
<1>2. s.virtualSBI => (MTI \in new <=> MTI \in s.mie)
  BY DEF Good, Typed, Csrs, M_RW_MASK, Irqs
<1>. HIDE DEF new
<1>3. \/ a = [s EXCEPT !.mie = new]
      \/ a = [s EXCEPT !.irq = TRUE, !.wfi = FALSE, !.mie = new]
  BY DEF _writeMie, new, _pendingIRQ
<1>. HIDE DEF a
<1>4. /\ Fields \subseteq DOMAIN a /\ a.mie = new /\ (a.irq = s.irq \/ a.irq = TRUE)
      /\ a.wfi = s.wfi \/ a.wfi = FALSE
      /\ \A f \in Fields \ {"mie", "irq", "wfi"} : a[f] = s[f]
  BY <1>3, ZenonT(60) DEF Good, Typed, Fields
<1>5. Typed(a) /\ Noticed(a)
  BY <1>1, <1>4, ZenonT(60) DEF Good, Typed, Fields, Trapping, Csrs, Devices, Noticed
<1>6. SbiOK(a)
  BY <1>1, <1>4, ZenonT(60) DEF Good, SbiOK, CallOK, Fields
<1>7. TimerOK(a, l) /\ Unfailed(a)
  BY <1>2, <1>4, ZenonT(60) DEF Good, TimerOK, Unfailed, Fields
<1>. QED
  BY <1>5, <1>6, <1>7 DEF Good, a

\* A write of mip
LEMMA WriteMipGood ==
  ASSUME NEW s, NEW l \in BOOLEAN, Good(s, l), NEW val,
         s.virtualSBI /\ MTI \in s.mip => MTI \in val
  PROVE  Good(_writeMip(s, val), l)
<1>. DEFINE new == (s.mip \ M_RW_MASK) \cup (val \cap M_RW_MASK)
            a == _writeMip(s, val)
<1>1. new \subseteq Irqs
  BY DEF Good, Typed, Csrs, M_RW_MASK
<1>2. s.virtualSBI /\ MTI \in s.mip => MTI \in new
  BY DEF Good, Typed, Csrs, M_RW_MASK, Irqs
<1>. HIDE DEF new
<1>3. \/ a = [s EXCEPT !.mip = new] /\ new = s.mip
      \/ a = [s EXCEPT !.irq = TRUE, !.wfi = FALSE, !.mip = new]
  BY DEF _writeMip, new, _pendingIRQ
<1>. HIDE DEF a
<1>4. /\ Fields \subseteq DOMAIN a /\ a.mip = new
      /\ (a.irq = s.irq /\ new = s.mip) \/ a.irq = TRUE
      /\ a.wfi = s.wfi \/ a.wfi = FALSE
      /\ \A f \in Fields \ {"mip", "irq", "wfi"} : a[f] = s[f]
  BY <1>3, ZenonT(60) DEF Good, Typed, Fields
<1>5. Typed(a) /\ Noticed(a)
  BY <1>1, <1>4, ZenonT(60) DEF Good, Typed, Fields, Trapping, Csrs, Devices, Noticed
<1>6. SbiOK(a)
  BY <1>4, ZenonT(60) DEF Good, SbiOK, CallOK, Fields
<1>7. TimerOK(a, l) /\ Unfailed(a)
  BY <1>2, <1>4, ZenonT(60) DEF Good, TimerOK, Unfailed, Fields
<1>. QED
  BY <1>5, <1>6, <1>7 DEF Good, a

\* An illegal instruction
LEMMA IllegalGood ==
  ASSUME NEW s, NEW l \in BOOLEAN, Good(s, l), ~s.trap
  PROVE  Good(_trap(s, INST_ILL), l)
<1>1. INST_ILL \in Traps /\ INST_ILL # CALL_M /\ INST_ILL # CALL_S
  BY DEF Traps, INST_ILL, CALL_M, CALL_S
<1>. QED
  BY <1>1, TrapGood, Zenon

\* What a write of a CSR takes
CsrVal(csr, val) ==
  /\ csr = "SSTATUS" => val \in [SIE : BOOLEAN, SPIE : BOOLEAN, SPP : {U, S}]
  /\ csr = "MSTATUS" => val \in [MIE : BOOLEAN, MPIE : BOOLEAN, MPP : 0 .. 3,
                                 SIE : BOOLEAN, SPIE : BOOLEAN, SPP : {U, S},
                                 TSR : BOOLEAN, TW : BOOLEAN]
  /\ csr \in {"SEPC", "MEPC"} => val \in 0 .. NPC - 1

\* _writeCSR: a guest on the SBI reaches mie and mip through sie and sip only,
\* and the other CSRs of machine mode not at all.
LEMMA WriteCSRGood ==
  ASSUME NEW s, NEW l \in BOOLEAN, Good(s, l), NEW csr, NEW val, CsrVal(csr, val)
  PROVE  Good(_writeCSR(s, csr, val), l)
<1>. DEFINE a == _writeCSR(s, csr, val)
            mask == SMask(s)
            MCsr == {"MSTATUS", "MIE", "MIP", "MIDELEG", "MEDELEG", "MCOUNTEREN", "MEPC"}
<1>1. CASE s.trap
  BY <1>1 DEF _writeCSR, Plain
<1>2. CASE ~s.trap /\ s.mode < CsrMode(csr)
  <2>1. a = _trap(s, INST_ILL)
    BY <1>2 DEF _writeCSR, Plain
  <2>. QED
    BY <1>2, <2>1, IllegalGood
<1>3. CASE ~s.trap /\ ~(s.mode < CsrMode(csr))
  <2>0. csr \in MCsr => ~s.virtualSBI
    <3>1. csr \in MCsr => CsrMode(csr) = 3
      BY DEF CsrMode, CounterBit, M
    <3>2. s.virtualSBI => s.mode \in {0, 1}
      BY DEF Good, SbiOK, U, S
    <3>. QED
      BY <1>3, <3>1, <3>2
  <2>1. CASE csr = "SSTATUS"
    <3>. DEFINE v == [s.mstatus EXCEPT !.SIE = val.SIE, !.SPIE = val.SPIE, !.SPP = val.SPP]
    <3>1. a = _writeMstatus(s, v)
      BY <1>3, <2>1 DEF _writeCSR, Plain
    <3>2. v \in [MIE : BOOLEAN, MPIE : BOOLEAN, MPP : 0 .. 3, SIE : BOOLEAN, SPIE : BOOLEAN,
                 SPP : {U, S}, TSR : BOOLEAN, TW : BOOLEAN]
      <4>1. val.SIE \in BOOLEAN /\ val.SPIE \in BOOLEAN /\ val.SPP \in {U, S}
        BY <2>1 DEF CsrVal
      <4>2. s.mstatus \in Mstatus
        BY DEF Good, Typed, Csrs
      <4>3. Modes \subseteq 0 .. 3
        BY DEF Modes, U, S, M
      <4>. QED
        BY <4>1, <4>2, <4>3 DEF Mstatus
    <3>. HIDE DEF v
    <3>. QED
      BY <3>1, <3>2, WriteMstatusGood
  <2>2. CASE csr = "SIE"
    <3>. DEFINE v == (val \cap mask) \cup (s.mie \ mask)
    <3>1. a = _writeMie(s, v)
      BY <1>3, <2>2 DEF _writeCSR, Plain
    <3>2. s.virtualSBI => v \subseteq S_RW_MASK \cup {MTI}
      BY DEF Good, SbiOK, SMask
    <3>3. s.virtualSBI => (MTI \in v <=> MTI \in s.mie)
      BY DEF Good, SbiOK, SMask, S_RW_MASK, SSI, STI, SEI, LCOFI, MTI
    <3>. HIDE DEF v
    <3>. QED
      BY <3>1, <3>2, <3>3, WriteMieGood
  <2>3. CASE csr = "SIP"
    <3>. DEFINE v == (val \cap mask) \cup (s.mip \ mask)
    <3>1. a = _writeMip(s, v)
      BY <1>3, <2>3 DEF _writeCSR, Plain
    <3>2. s.virtualSBI /\ MTI \in s.mip => MTI \in v
      BY DEF Good, SbiOK, SMask, S_RW_MASK, SSI, STI, SEI, LCOFI, MTI
    <3>. HIDE DEF v
    <3>. QED
      BY <3>1, <3>2, WriteMipGood
  <2>4. CASE csr = "MSTATUS"
    <3>1. a = _writeMstatus(s, val)
      BY <1>3, <2>4 DEF _writeCSR, Plain
    <3>. QED
      BY <2>4, <3>1, WriteMstatusGood DEF CsrVal
  <2>5. CASE csr = "MIE"
    <3>1. a = _writeMie(s, val)
      BY <1>3, <2>5 DEF _writeCSR, Plain
    <3>. QED
      BY <2>0, <2>5, <3>1, WriteMieGood
  <2>6. CASE csr = "MIP"
    <3>1. a = _writeMip(s, val)
      BY <1>3, <2>6 DEF _writeCSR, Plain
    <3>. QED
      BY <2>0, <2>6, <3>1, WriteMipGood
  <2>7. CASE csr \in {"MIDELEG", "MEDELEG", "MCOUNTEREN", "SCOUNTEREN", "SEPC", "MEPC"}
    <3>1. /\ csr = "MIDELEG" => a = [s EXCEPT !.mideleg = val \cap S_RW_MASK]
          /\ csr = "MEDELEG" => a = [s EXCEPT !.medeleg = val \cap MEDELEG_RW_MASK]
          /\ csr = "MCOUNTEREN" => a = [s EXCEPT !.mcounteren = val \cap COUNTEREN_WR_MASK]
          /\ csr = "SCOUNTEREN" => a = [s EXCEPT !.scounteren = val \cap COUNTEREN_WR_MASK]
          /\ csr = "SEPC" => a = [s EXCEPT !.sepc = val]
          /\ csr = "MEPC" => a = [s EXCEPT !.mepc = val]
      BY <1>3 DEF _writeCSR, Plain
    <3>. HIDE DEF a
    <3>2. /\ Fields \subseteq DOMAIN a
          /\ \A f \in Fields \ {"mideleg", "medeleg", "mcounteren", "scounteren", "sepc", "mepc"} :
               a[f] = s[f]
          /\ a.mideleg = s.mideleg \/ (csr \in MCsr /\ a.mideleg \subseteq S_RW_MASK)
          /\ a.medeleg = s.medeleg \/ (csr \in MCsr /\ a.medeleg \subseteq Traps)
          /\ a.mcounteren = s.mcounteren \/ a.mcounteren \subseteq COUNTEREN_WR_MASK
          /\ a.scounteren = s.scounteren \/ a.scounteren \subseteq COUNTEREN_WR_MASK
          /\ a.sepc = s.sepc \/ a.sepc \in 0 .. NPC - 1
          /\ a.mepc = s.mepc \/ a.mepc \in 0 .. NPC - 1
      BY <2>7, <3>1 DEF CsrVal, Good, Typed, Fields, MEDELEG_RW_MASK
    <3>3. Typed(a) /\ Noticed(a)
      BY <3>2 DEF Good, Typed, Fields, Trapping, Csrs, Devices, Noticed
    <3>4. SbiOK(a)
      BY <2>0, <3>2, ZenonT(60) DEF Good, SbiOK, CallOK, Fields
    <3>5. TimerOK(a, l) /\ Unfailed(a)
      BY <3>2 DEF Good, TimerOK, Unfailed, Fields
    <3>. QED
      BY <3>3, <3>4, <3>5 DEF Good, a
  <2>8. CASE csr \notin {"SSTATUS", "SIE", "SIP", "MSTATUS", "MIE", "MIP", "MIDELEG", "MEDELEG",
                         "MCOUNTEREN", "SCOUNTEREN", "SEPC", "MEPC"}
    <3>1. a = s \/ a = _trap(s, INST_ILL)
      BY <1>3, <2>8 DEF _writeCSR, Plain
    <3>. QED
      BY <1>3, <3>1, IllegalGood
  <2>. QED
    BY <2>1, <2>2, <2>3, <2>4, <2>5, <2>6, <2>7, <2>8
<1>. QED
  BY <1>1, <1>2, <1>3

\* CSRRW, CSRRS and CSRRC
LEMMA CsrInstrGood ==
  ASSUME NEW s, NEW l \in BOOLEAN, Good(s, l), ~s.trap, NEW in, in.op = "csr", WellFormed(in)
  PROVE  Good(CsrInstr(s, in), l)
<1>. DEFINE t == _readCSR(s, in.csr)
<1>1. Good(t, l)
  <2>1. t = s \/ t = _trap(s, INST_ILL)
    BY DEF _readCSR
  <2>. QED
    BY <2>1, IllegalGood
<1>2. \/ in.kind = "R"
      \/ in.kind = "RW" /\ CsrVal(in.csr, in.val)
      \/ in.kind \in {"RS", "RC"} /\ in.csr \in BitCsrs
  BY DEF WellFormed, CsrVal
<1>3. \A val : in.csr \in BitCsrs => CsrVal(in.csr, val)
  BY DEF BitCsrs, CsrVal
<1>4. \A val : CsrVal(in.csr, val) => Good(_writeCSR(t, in.csr, val), l)
  BY <1>1, WriteCSRGood
<1>. QED
  BY <1>1, <1>2, <1>3, <1>4 DEF CsrInstr

-----------------------------------------------------------------------------
\* The program counter stays in its range.
LEMMA PcRange ==
  ASSUME NEW x \in Int
  PROVE  x % NPC \in 0 .. NPC - 1
BY NPCAssumption

\* What an _xret that is allowed does
ReturnedS(s, k, a) ==
  /\ Fields \subseteq DOMAIN a
  /\ \A f \in Fields \ {"mstatus", "mode", "pc"} : a[f] = s[f]
  /\ a.mstatus = [s.mstatus EXCEPT !.SIE = s.mstatus.SPIE, !.SPIE = TRUE, !.SPP = U]
  /\ a.mode = s.mstatus.SPP
  /\ a.pc = (s.sepc - k) % NPC

ReturnedM(s, k, a) ==
  /\ Fields \subseteq DOMAIN a
  /\ \A f \in Fields \ {"mstatus", "mode", "pc"} : a[f] = s[f]
  /\ a.mstatus = [s.mstatus EXCEPT !.MIE = s.mstatus.MPIE, !.MPIE = TRUE, !.MPP = U]
  /\ a.mode = s.mstatus.MPP
  /\ a.pc = (s.mepc - k) % NPC

\* An _xret that the mode allows does not trap.
LEMMA XretDoes ==
  ASSUME NEW s, Fields \subseteq DOMAIN s, s.mstatus \in Mstatus, NEW k
  PROVE  /\ ~(s.mode < S) /\ ~(s.mode = S /\ s.mstatus.TSR) => ReturnedS(s, k, _xret(s, S, k))
         /\ ~(s.mode < M) => ReturnedM(s, k, _xret(s, M, k))
<1>1. ASSUME ~(s.mode < S), ~(s.mode = S /\ s.mstatus.TSR)
      PROVE  ReturnedS(s, k, _xret(s, S, k))
  <2>. DEFINE a == _xret(s, S, k)
  <2>1. a = [s EXCEPT !.mstatus.SIE = s.mstatus.SPIE, !.mstatus.SPIE = TRUE,
                      !.mode = s.mstatus.SPP, !.mstatus.SPP = U, !.pc = (s.sepc - k) % NPC]
    BY <1>1 DEF _xret
  <2>. HIDE DEF a
  <2>2. a.mstatus = [s.mstatus EXCEPT !.SIE = s.mstatus.SPIE, !.SPIE = TRUE, !.SPP = U]
    BY <2>1 DEF Fields
  <2>3. /\ Fields \subseteq DOMAIN a /\ a.pc = (s.sepc - k) % NPC /\ a.mode = s.mstatus.SPP
        /\ \A f \in Fields \ {"mstatus", "mode", "pc"} : a[f] = s[f]
    BY <2>1 DEF Fields
  <2>. QED
    BY <2>2, <2>3 DEF ReturnedS, a
<1>2. ASSUME ~(s.mode < M)
      PROVE  ReturnedM(s, k, _xret(s, M, k))
  <2>. DEFINE a == _xret(s, M, k)
  <2>0. S # M
    BY DEF S, M
  <2>1. a = [s EXCEPT !.mstatus.MIE = s.mstatus.MPIE, !.mstatus.MPIE = TRUE,
                      !.mode = s.mstatus.MPP, !.mstatus.MPP = U, !.pc = (s.mepc - k) % NPC]
    BY <1>2, <2>0 DEF _xret
  <2>. HIDE DEF a
  <2>2. a.mstatus = [s.mstatus EXCEPT !.MIE = s.mstatus.MPIE, !.MPIE = TRUE, !.MPP = U]
    BY <2>1 DEF Fields
  <2>3. /\ Fields \subseteq DOMAIN a /\ a.pc = (s.mepc - k) % NPC /\ a.mode = s.mstatus.MPP
        /\ \A f \in Fields \ {"mstatus", "mode", "pc"} : a[f] = s[f]
    BY <2>1 DEF Fields
  <2>. QED
    BY <2>2, <2>3 DEF ReturnedM, a
<1>. QED
  BY <1>1, <1>2

\* sret and mret, which a guest on the SBI cannot use to get to machine mode
LEMMA XretGood ==
  ASSUME NEW s, NEW l \in BOOLEAN, Good(s, l), ~s.trap, NEW mode \in {S, M}
  PROVE  Good(_xret(s, mode, 1), l)
<1>. DEFINE a == _xret(s, mode, 1)
<1>1. CASE s.mode < mode \/ (s.mode = S /\ mode = S /\ s.mstatus.TSR)
  <2>1. a = _trap(s, INST_ILL)
    BY <1>1 DEF _xret
  <2>. QED
    BY <2>1, IllegalGood
<1>2. CASE ~(s.mode < mode \/ (s.mode = S /\ mode = S /\ s.mstatus.TSR))
  <2>1. (s.mepc - 1) % NPC \in 0 .. NPC - 1 /\ (s.sepc - 1) % NPC \in 0 .. NPC - 1
    <3>1. s.mepc - 1 \in Int /\ s.sepc - 1 \in Int
      BY DEF Good, Typed, Csrs
    <3>. QED
      BY <3>1, PcRange
  <2>2. mode = M => ~s.virtualSBI
    <3>1. s.virtualSBI => s.mode \in {0, 1}
      BY DEF Good, SbiOK, U, S
    <3>2. M = 3
      BY DEF M
    <3>. QED
      BY <1>2, <3>1, <3>2
  <2>3. s.mstatus \in Mstatus /\ Fields \subseteq DOMAIN s
    BY DEF Good, Typed, Csrs
  <2>4. \/ mode = S /\ ReturnedS(s, 1, a)
        \/ mode = M /\ ReturnedM(s, 1, a)
    BY <1>2, <2>3, XretDoes
  <2>. HIDE DEF a
  <2>5. a.mstatus \in Mstatus
    <3>1. CASE ReturnedS(s, 1, a)
      BY <2>3, <3>1 DEF ReturnedS, Mstatus
    <3>2. CASE ReturnedM(s, 1, a)
      BY <2>3, <3>2 DEF ReturnedM, Mstatus, Modes
    <3>. QED
      BY <2>4, <3>1, <3>2
  <2>6. /\ Fields \subseteq DOMAIN a /\ a.pc \in 0 .. NPC - 1
        /\ a.mode = s.mstatus.SPP \/ (~s.virtualSBI /\ a.mode = s.mstatus.MPP)
        /\ \A f \in Fields \ {"mstatus", "mode", "pc"} : a[f] = s[f]
    BY <2>1, <2>2, <2>4 DEF ReturnedS, ReturnedM
  <2>7. s.mstatus.MPP \in Modes /\ s.mstatus.SPP \in {U, S} /\ s.mstatus.SPP \in Modes
    BY <2>3 DEF Mstatus, Modes
  <2>8. Typed(a) /\ Noticed(a)
    BY <2>5, <2>6, <2>7 DEF Good, Typed, Fields, Trapping, Csrs, Devices, Noticed
  <2>9. SbiOK(a)
    BY <2>6, <2>7 DEF Good, SbiOK, CallOK, Fields
  <2>10. TimerOK(a, l) /\ Unfailed(a)
    BY <2>6 DEF Good, TimerOK, Unfailed, Fields
  <2>. QED
    BY <2>8, <2>9, <2>10 DEF Good, a
<1>. QED
  BY <1>1, <1>2

-----------------------------------------------------------------------------
\* What the two halves of _doTrap do
TookM(s, a) ==
  /\ Fields \subseteq DOMAIN a
  /\ \A f \in Fields \ {"trap", "wfi", "mcause", "mstatus", "mode", "mepc"} : a[f] = s[f]
  /\ a.trap = FALSE /\ a.wfi = FALSE /\ a.mcause = s.trapCause /\ a.mode = M /\ a.mepc = s.pc
  /\ a.mstatus = [s.mstatus EXCEPT !.MPIE = s.mstatus.MIE, !.MIE = FALSE, !.MPP = s.mode]

TookS(s, a) ==
  /\ Fields \subseteq DOMAIN a
  /\ \A f \in Fields \ {"trap", "wfi", "scause", "mstatus", "mode", "sepc"} : a[f] = s[f]
  /\ a.trap = FALSE /\ a.wfi = FALSE /\ a.scause = s.trapCause /\ a.mode = S /\ a.sepc = s.pc
  /\ a.mstatus = [s.mstatus EXCEPT !.SPIE = s.mstatus.SIE, !.SIE = FALSE, !.SPP = s.mode % 2]

\* The record as the trap leaves it, field by field
LEMMA TrapToDoes ==
  ASSUME NEW s, Fields \subseteq DOMAIN s, s.mstatus \in Mstatus
  PROVE  TookM(s, TrapToM(s)) /\ TookS(s, TrapToS(s))
<1>1. TookM(s, TrapToM(s))
  <2>. DEFINE a == TrapToM(s)
  <2>1. a.mstatus = [s.mstatus EXCEPT !.MPIE = s.mstatus.MIE, !.MIE = FALSE, !.MPP = s.mode]
    BY DEF TrapToM, Fields
  <2>2. /\ Fields \subseteq DOMAIN a
        /\ \A f \in Fields \ {"trap", "wfi", "mcause", "mstatus", "mode", "mepc"} : a[f] = s[f]
        /\ a.trap = FALSE /\ a.wfi = FALSE /\ a.mcause = s.trapCause /\ a.mode = M /\ a.mepc = s.pc
    BY DEF TrapToM, Fields
  <2>. QED
    BY <2>1, <2>2 DEF TookM
<1>2. TookS(s, TrapToS(s))
  <2>. DEFINE a == TrapToS(s)
  <2>1. a.mstatus = [s.mstatus EXCEPT !.SPIE = s.mstatus.SIE, !.SIE = FALSE, !.SPP = s.mode % 2]
    BY DEF TrapToS, Fields
  <2>2. /\ Fields \subseteq DOMAIN a
        /\ \A f \in Fields \ {"trap", "wfi", "scause", "mstatus", "mode", "sepc"} : a[f] = s[f]
        /\ a.trap = FALSE /\ a.wfi = FALSE /\ a.scause = s.trapCause /\ a.mode = S /\ a.sepc = s.pc
    BY DEF TrapToS, Fields
  <2>. QED
    BY <2>1, <2>2 DEF TookS
<1>. QED
  BY <1>1, <1>2

\* What the SBI does between the trap to machine mode and the return.  t is the
\* machine as the trap left it; the timer's interrupt is no longer in flight.
Handled(t, h, l) ==
  /\ Fields \subseteq DOMAIN h
  /\ \A f \in Fields \ {"regs", "failed", "mie", "mip", "mtimecmp", "pindingIrq", "irq", "wfi"} :
       h[f] = t[f]
  /\ h.regs \in [a7 : Int, a6 : Int, a0 : Int, a1 : Int]
  /\ h.mie \cap S_RW_MASK = t.mie \cap S_RW_MASK /\ h.mie \subseteq t.mie \cup {MTI}
  /\ h.mip \subseteq Irqs /\ h.mtimecmp \in Time
  /\ h.pindingIrq \in BOOLEAN /\ h.irq \in BOOLEAN /\ h.wfi \in BOOLEAN
  /\ Noticed(h) /\ Unfailed(h)
  /\ MTI \in h.mie => (h.pindingIrq <=> h.mtime >= h.mtimecmp)
  /\ ~l /\ h.pindingIrq => MTI \in h.mip

\* An answer is left in the registers.
LEMMA AnswerHandled ==
  ASSUME NEW t, NEW u, NEW l \in BOOLEAN, Handled(t, u, l), NEW e \in Int, NEW v \in Int
  PROVE  Handled(t, Answer(u, e, v), l) /\ Answer(u, e, v).mip = u.mip
<1>. DEFINE a == Answer(u, e, v)
<1>1. a.regs = [u.regs EXCEPT !.a0 = e, !.a1 = v]
  BY DEF Handled, Answer, Fields
<1>2. a.regs \in [a7 : Int, a6 : Int, a0 : Int, a1 : Int]
  BY <1>1 DEF Handled
<1>3. Fields \subseteq DOMAIN a /\ \A f \in Fields \ {"regs"} : a[f] = u[f]
  BY DEF Handled, Answer, Fields
<1>. HIDE DEF a
<1>4. /\ a.failed = u.failed /\ a.mie = u.mie /\ a.mip = u.mip /\ a.mtimecmp = u.mtimecmp
      /\ a.mtime = u.mtime /\ a.pindingIrq = u.pindingIrq /\ a.irq = u.irq /\ a.wfi = u.wfi
  BY <1>3 DEF Fields
<1>5. Noticed(a) /\ Unfailed(a)
  BY <1>4 DEF Handled, Noticed, Unfailed
<1>6. \A f \in Fields \ {"regs", "failed", "mie", "mip", "mtimecmp", "pindingIrq", "irq", "wfi"} :
        a[f] = t[f]
  BY <1>3 DEF Handled
<1>7. Handled(t, a, l)
  BY <1>2, <1>3, <1>4, <1>5, <1>6 DEF Handled
<1>. QED
  BY <1>4, <1>7 DEF a

\* A call: the machine is as good as before, and with a set_timer the new
\* deadline's interrupt is pending if it is due.
LEMMA EcallHandled ==
  ASSUME NEW s, NEW l \in BOOLEAN, Good(s, l), s.virtualSBI, s.trap, ~s.trapDelegate,
         s.trapCause = Cause(FALSE, CALL_S), NEW t, TookM(s, t)
  PROVE  /\ Handled(t, sbi_handleEcall(t), l)
         /\ sbi_handleEcall(t).mip \ {MTI} = s.mip \ {MTI}
<1>1. /\ Fields \subseteq DOMAIN t /\ t.regs = s.regs /\ t.mie = s.mie /\ t.mip = s.mip
      /\ t.mtime = s.mtime /\ t.mtimecmp = s.mtimecmp /\ t.pindingIrq = s.pindingIrq
      /\ t.irq = s.irq /\ t.wfi = FALSE /\ t.failed = s.failed
  BY DEF TookM, Fields
<1>2. CallOK(s)
  BY DEF Good, SbiOK, Cause, CALL_S, MTI
<1>3. ~l /\ s.pindingIrq => MTI \in s.mip
  BY DEF Good, TimerOK, Cause, CALL_S, MTI
<1>4. /\ s.regs \in [a7 : Int, a6 : Int, a0 : Int, a1 : Int] /\ s.mtime \in Time
      /\ s.mtimecmp \in Time /\ s.pindingIrq \in BOOLEAN /\ s.irq \in BOOLEAN
      /\ s.mip \subseteq Irqs
  BY DEF Good, Typed, Devices, Trapping, Csrs
<1>5. Handled(t, t, l)
  <2>1. Noticed(t) /\ Unfailed(t)
    BY <1>1 DEF Good, Noticed, Unfailed
  <2>2. MTI \in t.mie => (t.pindingIrq <=> t.mtime >= t.mtimecmp)
    BY <1>1 DEF Good, TimerOK
  <2>3. /\ t.regs \in [a7 : Int, a6 : Int, a0 : Int, a1 : Int]
        /\ t.mip \subseteq Irqs /\ t.mtimecmp \in Time
    BY <1>1, <1>4
  <2>4. t.pindingIrq \in BOOLEAN /\ t.irq \in BOOLEAN /\ t.wfi \in BOOLEAN
    BY <1>1, <1>4, Zenon
  <2>. QED
    BY <1>1, <1>3, <2>1, <2>2, <2>3, <2>4 DEF Handled
<1>6. \A e, v \in Int : Handled(t, Answer(t, e, v), l) /\ Answer(t, e, v).mip = s.mip
  BY <1>1, <1>5, AnswerHandled
<1>7. OK \in Int /\ NOT_SUPPORTED \in Int /\ INVALID_PARAM \in Int /\ t.regs.a0 \in Int
  BY <1>1, <1>4 DEF OK, NOT_SUPPORTED, INVALID_PARAM
<1>8. CASE t.regs.a7 = SBI_EID_BASE
  <2>1. sbi_handleEcall(t) = _handleBaseExt(t)
    BY <1>8 DEF sbi_handleEcall, SBI_EID_BASE, SBI_EID_TIMER, SBI_EID_DBGCON
  <2>. QED
    BY <1>6, <1>7, <2>1 DEF _handleBaseExt
<1>9. CASE t.regs.a7 = SBI_EID_DBGCON
  <2>1. sbi_handleEcall(t) = _handleDbgConExt(t)
    BY <1>9 DEF sbi_handleEcall, SBI_EID_BASE, SBI_EID_TIMER, SBI_EID_DBGCON
  <2>. QED
    BY <1>6, <1>7, <2>1 DEF _handleDbgConExt
<1>10. CASE t.regs.a7 = SBI_EID_TIMER
  <2>1. sbi_handleEcall(t) = _handleTimerExt(t)
    BY <1>10 DEF sbi_handleEcall, SBI_EID_BASE, SBI_EID_TIMER, SBI_EID_DBGCON
  <2>2. CASE t.regs.a6 # 0
    BY <1>6, <1>7, <2>1, <2>2 DEF _handleTimerExt
  <2>3. CASE t.regs.a6 = 0
    <3>. DEFINE x == t.regs.a0
                r == [t EXCEPT !.mtimecmp = x]
                u == _updateMtimer(r)
                new == IF x = TimeMod - 2 THEN u.mie \ {MTI} ELSE u.mie \cup {MTI}
                w == [u EXCEPT !.mie = new]
    <3>1. sbi_handleEcall(t) = Answer(w, OK, 0)
      BY <2>1, <2>3 DEF _handleTimerExt, aclint_setMtimecmp
    <3>2. x \in Time
      BY <1>1, <1>2, <1>10 DEF CallOK
    <3>3. /\ Fields \subseteq DOMAIN r /\ r.mtimecmp = x
          /\ \A f \in Fields \ {"mtimecmp"} : r[f] = t[f]
      BY <1>1 DEF Fields
    <3>4. /\ r.mtime = s.mtime /\ r.pindingIrq = s.pindingIrq /\ r.mip = s.mip /\ r.irq = s.irq
          /\ r.mie = s.mie /\ r.wfi = FALSE /\ r.failed = s.failed /\ r.regs = s.regs
      BY <1>1, <3>3 DEF Fields
    <3>. HIDE DEF r, x
    <3>5. Timed(r, u)
      BY <1>4, <3>2, <3>3, <3>4, UpdateMtimerDoes
    <3>. HIDE DEF u
    <3>6. /\ Fields \subseteq DOMAIN u /\ u.mtimecmp = x /\ u.mtime = s.mtime /\ u.mie = s.mie
          /\ u.failed = s.failed /\ u.regs = s.regs
          /\ \A f \in Fields \ {"mtimecmp", "mip", "irq", "wfi", "pindingIrq"} : u[f] = t[f]
      BY <3>3, <3>4, <3>5 DEF Timed, Fields
    <3>. HIDE DEF new
    <3>7. /\ Fields \subseteq DOMAIN w /\ w.mie = new
          /\ \A f \in Fields \ {"mie"} : w[f] = u[f]
      BY <3>6 DEF Fields
    <3>8. /\ w.mtimecmp = x /\ w.mtime = s.mtime /\ w.failed = s.failed /\ w.regs = s.regs
          /\ w.mip = u.mip /\ w.irq = u.irq /\ w.wfi = u.wfi /\ w.pindingIrq = u.pindingIrq
      BY <3>6, <3>7 DEF Fields
    <3>. HIDE DEF w
    <3>9. new \cap S_RW_MASK = t.mie \cap S_RW_MASK /\ new \subseteq t.mie \cup {MTI}
      BY <1>1, <3>6 DEF new, S_RW_MASK, MTI, SSI, STI, SEI, LCOFI
    <3>10. w.mip \subseteq Irqs
      <4>1. w.mip \ {MTI} = s.mip \ {MTI} /\ MTI \in Irqs
        BY <3>4, <3>5, <3>8 DEF Timed, Irqs
      <4>. QED
        BY <1>4, <4>1
    <3>11. Noticed(w) /\ Unfailed(w)
      BY <3>4, <3>5, <3>8 DEF Timed, Good, Noticed, Unfailed
    <3>12. w.pindingIrq \in BOOLEAN /\ w.irq \in BOOLEAN /\ w.wfi \in BOOLEAN
      <4>1. u.pindingIrq \in BOOLEAN /\ (u.irq = TRUE \/ u.irq = s.irq) /\ u.wfi = FALSE
        BY <3>4, <3>5 DEF Timed
      <4>. QED
        BY <1>4, <3>8, <4>1, Zenon
    <3>13. w.pindingIrq <=> w.mtime >= w.mtimecmp
      BY <3>3, <3>4, <3>5, <3>8 DEF Timed
    <3>14. ~l /\ w.pindingIrq => MTI \in w.mip
      BY <1>3, <3>4, <3>5, <3>8 DEF Timed
    <3>15. w.regs \in [a7 : Int, a6 : Int, a0 : Int, a1 : Int]
      BY <1>4, <3>8
    <3>16. \A f \in Fields \ {"regs", "failed", "mie", "mip", "mtimecmp", "pindingIrq", "irq", "wfi"} :
             w[f] = t[f]
      BY <3>6, <3>7
    <3>17. Handled(t, w, l)
      BY <3>2, <3>7, <3>8, <3>9, <3>10, <3>11, <3>12, <3>13, <3>14, <3>15, <3>16 DEF Handled
    <3>18. w.mip \ {MTI} = s.mip \ {MTI}
      BY <3>4, <3>5, <3>8 DEF Timed
    <3>19. Handled(t, Answer(w, OK, 0), l) /\ Answer(w, OK, 0).mip = w.mip
      BY <1>7, <3>17, AnswerHandled
    <3>. QED
      BY <3>1, <3>18, <3>19
  <2>. QED
    BY <2>2, <2>3
<1>11. CASE t.regs.a7 \notin Known
  <2>. DEFINE u == [t EXCEPT !.failed = @ \cup {"unknown extension"}]
  <2>1. sbi_handleEcall(t) = Answer(u, NOT_SUPPORTED, 0)
    BY <1>11, Zenon DEF sbi_handleEcall, Known
  <2>2. ~KnownCalls
    BY <1>1, <1>2, <1>11 DEF CallOK
  <2>3. Fields \subseteq DOMAIN u /\ \A f \in Fields \ {"failed"} : u[f] = t[f]
    BY <1>1 DEF Fields
  <2>. HIDE DEF u
  <2>4. /\ u.regs = t.regs /\ u.mie = t.mie /\ u.mip = t.mip /\ u.mtimecmp = t.mtimecmp
        /\ u.mtime = t.mtime /\ u.pindingIrq = t.pindingIrq /\ u.irq = t.irq /\ u.wfi = t.wfi
    BY <2>3 DEF Fields
  <2>5. Noticed(u) /\ Unfailed(u)
    BY <1>5, <2>2, <2>4 DEF Handled, Noticed, Unfailed
  <2>6. Handled(t, u, l)
    BY <1>5, <2>3, <2>4, <2>5 DEF Handled
  <2>7. 0 \in Int
    OBVIOUS
  <2>8. \A e, v \in Int : Handled(t, Answer(u, e, v), l) /\ Answer(u, e, v).mip = u.mip
    BY <2>6, AnswerHandled
  <2>9. u.mip = s.mip
    BY <1>1, <2>4
  <2>. QED
    BY <1>7, <2>1, <2>7, <2>8, <2>9, ZenonT(60)
<1>. QED
  BY <1>8, <1>9, <1>10, <1>11 DEF Known

\* The machine timer's interrupt: it is handed on as the supervisor's, and no
\* deadline is due any more, as long as mtime is before CPU_UINT_MAX.
LEMMA InterruptHandled ==
  ASSUME NEW s, NEW l \in BOOLEAN, Good(s, l), ~l => s.mtime < WordMax, NEW t, TookM(s, t),
         s.trapCause = Cause(TRUE, MTI)
  PROVE  /\ Handled(t, sbi_handleInterrupt(t), l)
         /\ sbi_handleInterrupt(t).mip \cap S_RW_MASK = (s.mip \cap S_RW_MASK) \cup {STI}
<1>1. /\ Fields \subseteq DOMAIN t /\ t.regs = s.regs /\ t.mie = s.mie /\ t.mip = s.mip
      /\ t.mtime = s.mtime /\ t.mtimecmp = s.mtimecmp /\ t.pindingIrq = s.pindingIrq
      /\ t.irq = s.irq /\ t.wfi = FALSE /\ t.failed = s.failed /\ t.mcause = s.trapCause
  BY DEF TookM, Fields
<1>2. /\ s.regs \in [a7 : Int, a6 : Int, a0 : Int, a1 : Int] /\ s.mtime \in Time
      /\ s.mtimecmp \in Time /\ s.pindingIrq \in BOOLEAN /\ s.irq \in BOOLEAN
      /\ s.mip \subseteq Irqs
  BY DEF Good, Typed, Devices, Trapping, Csrs
<1>. DEFINE r == [t EXCEPT !.mtimecmp = WordMax]
            u == _updateMtimer(r)
            w == [u EXCEPT !.mie = @ \ {MTI}]
            h == rv_setInterrupt(w, STI)
<1>3. sbi_handleInterrupt(t) = h
  BY <1>1 DEF sbi_handleInterrupt, Cause, aclint_setMtimecmp
<1>4. /\ Fields \subseteq DOMAIN r /\ r.mtimecmp = WordMax
      /\ \A f \in Fields \ {"mtimecmp"} : r[f] = t[f]
  BY <1>1 DEF Fields
<1>5. /\ r.mtime = s.mtime /\ r.pindingIrq = s.pindingIrq /\ r.mip = s.mip /\ r.irq = s.irq
      /\ r.mie = s.mie /\ r.failed = s.failed /\ r.regs = s.regs
  BY <1>1, <1>4 DEF Fields
<1>. HIDE DEF r
<1>6. WordMax \in Time
  BY WordMaxAssumption
<1>7. Timed(r, u)
  BY <1>2, <1>4, <1>5, <1>6, UpdateMtimerDoes
<1>. HIDE DEF u
<1>8. /\ Fields \subseteq DOMAIN u /\ u.mtimecmp = WordMax /\ u.mtime = s.mtime /\ u.mie = s.mie
      /\ u.failed = s.failed /\ u.regs = s.regs
      /\ \A f \in Fields \ {"mtimecmp", "mip", "irq", "wfi", "pindingIrq"} : u[f] = t[f]
  BY <1>4, <1>5, <1>7 DEF Timed, Fields
<1>9. /\ Fields \subseteq DOMAIN h /\ h.mie = s.mie \ {MTI} /\ h.mip = u.mip \cup {STI}
      /\ h.irq = TRUE /\ h.wfi = FALSE
      /\ \A f \in Fields \ {"mie", "mip", "irq", "wfi"} : h[f] = u[f]
  BY <1>8 DEF rv_setInterrupt, _pendingIRQ, Fields
<1>. HIDE DEF h, w
<1>10. /\ h.mtimecmp = WordMax /\ h.pindingIrq = u.pindingIrq /\ h.regs = s.regs
       /\ h.failed = s.failed
  BY <1>8, <1>9 DEF Fields
<1>11. ~l => ~h.pindingIrq
  <2>1. ~l => ~(s.mtime >= WordMax)
    BY <1>2, <1>6, TimeModAssumption DEF Time
  <2>. QED
    BY <1>4, <1>5, <1>7, <1>10, <2>1 DEF Timed
<1>12. u.mip \ {MTI} = s.mip \ {MTI}
  BY <1>5, <1>7 DEF Timed
<1>13. h.mip \subseteq Irqs
  BY <1>2, <1>9, <1>12 DEF Irqs
<1>14. h.mip \cap S_RW_MASK = (s.mip \cap S_RW_MASK) \cup {STI}
  BY <1>9, <1>12 DEF S_RW_MASK, MTI, SSI, STI, SEI, LCOFI
<1>15. Noticed(h) /\ Unfailed(h)
  BY <1>9, <1>10 DEF Good, Noticed, Unfailed
<1>16. h.mie \cap S_RW_MASK = t.mie \cap S_RW_MASK /\ h.mie \subseteq t.mie \cup {MTI}
  BY <1>1, <1>9 DEF S_RW_MASK, MTI, SSI, STI, SEI, LCOFI
<1>17. h.pindingIrq \in BOOLEAN /\ h.irq \in BOOLEAN /\ h.wfi \in BOOLEAN
  <2>1. u.pindingIrq \in BOOLEAN
    BY <1>7 DEF Timed
  <2>. QED
    BY <1>9, <1>10, <2>1
<1>18. \A f \in Fields \ {"regs", "failed", "mie", "mip", "mtimecmp", "pindingIrq", "irq", "wfi"} :
         h[f] = t[f]
  BY <1>8, <1>9
<1>19. MTI \notin h.mie
  BY <1>9
<1>20. h.regs \in [a7 : Int, a6 : Int, a0 : Int, a1 : Int] /\ h.mtimecmp \in Time
  BY <1>2, <1>6, <1>10
<1>21. Handled(t, h, l)
  BY <1>9, <1>11, <1>13, <1>15, <1>16, <1>17, <1>18, <1>19, <1>20 DEF Handled
<1>. QED
  BY <1>3, <1>14, <1>21

\* The return from the SBI: to where the guest was, or behind its call.
Resumed(s, h, k, a) ==
  /\ a.virtualSBI = s.virtualSBI
  /\ a.mode = s.mode /\ a.pc = (s.pc - k) % NPC /\ ~a.trap
  /\ a.mstatus.SIE = s.mstatus.SIE /\ a.mstatus.SPIE = s.mstatus.SPIE
  /\ a.mstatus.SPP = s.mstatus.SPP
  /\ a.sepc = s.sepc /\ a.scause = s.scause
  /\ a.mie \cap S_RW_MASK = s.mie \cap S_RW_MASK
  /\ a.mip = h.mip

\* After the handler and the return the machine is good and the guest resumed.
LEMMA SbiReturns ==
  ASSUME NEW s, NEW l \in BOOLEAN, Good(s, l), s.virtualSBI, NEW t, TookM(s, t),
         NEW h, Handled(t, h, l), NEW k \in Int
  PROVE  Good(_xret(h, M, k), l) /\ Resumed(s, h, k, _xret(h, M, k))
<1>. DEFINE a == _xret(h, M, k)
            ms == [s.mstatus EXCEPT !.MPIE = s.mstatus.MIE, !.MIE = FALSE, !.MPP = s.mode]
            rs == [ms EXCEPT !.MIE = ms.MPIE, !.MPIE = TRUE, !.MPP = U]
<1>1. /\ h.mode = M /\ h.mepc = s.pc /\ h.mstatus = ms /\ h.mcause = s.trapCause /\ h.trap = FALSE
      /\ \A f \in Fields \ {"regs", "failed", "mie", "mip", "mtimecmp", "pindingIrq", "irq", "wfi",
                            "trap", "mcause", "mstatus", "mode", "mepc"} : h[f] = s[f]
  BY DEF TookM, Handled, Fields
<1>2. s.mstatus \in Mstatus /\ s.mode \in Modes /\ s.mode \in {U, S} /\ s.pc \in Int
  BY DEF Good, Typed, Trapping, Csrs, SbiOK
<1>3. ms \in Mstatus
  BY <1>2 DEF Mstatus
<1>4. rs \in Mstatus
  BY <1>3 DEF Mstatus, Modes
<1>5. ms.MPP = s.mode
  BY <1>2 DEF Mstatus
<1>6. rs.SIE = s.mstatus.SIE /\ rs.SPIE = s.mstatus.SPIE /\ rs.SPP = s.mstatus.SPP
  BY <1>2 DEF Mstatus
<1>. HIDE DEF ms
<1>7. ReturnedM(h, k, a)
  <2>1. ~(h.mode < M) /\ Fields \subseteq DOMAIN h
    BY <1>1 DEF M, Handled
  <2>. QED
    BY <1>1, <1>3, <2>1, XretDoes
<1>8. a.mstatus = rs /\ a.mode = s.mode /\ a.pc = (s.pc - k) % NPC
  BY <1>1, <1>5, <1>7 DEF ReturnedM
<1>. HIDE DEF rs, a
<1>9. /\ Fields \subseteq DOMAIN a /\ a.regs = h.regs /\ a.failed = h.failed /\ a.mie = h.mie
      /\ a.mip = h.mip /\ a.mtimecmp = h.mtimecmp /\ a.pindingIrq = h.pindingIrq
      /\ a.irq = h.irq /\ a.wfi = h.wfi /\ a.trap = FALSE /\ a.mcause = s.trapCause
      /\ a.mepc = s.pc /\ a.mtime = h.mtime
  BY <1>1, <1>7 DEF ReturnedM, Fields
<1>10. /\ a.trapCause = s.trapCause /\ a.trapDelegate = s.trapDelegate
       /\ a.mideleg = s.mideleg /\ a.medeleg = s.medeleg /\ a.mcounteren = s.mcounteren
       /\ a.scounteren = s.scounteren /\ a.scause = s.scause /\ a.sepc = s.sepc
       /\ a.mtime = s.mtime /\ a.msip = s.msip /\ a.virtualSBI = s.virtualSBI
  <2>1. \A f \in Fields \ {"regs", "failed", "mie", "mip", "mtimecmp", "pindingIrq", "irq", "wfi",
                            "trap", "mcause", "mstatus", "mode", "mepc", "pc"} : a[f] = s[f]
    BY <1>1, <1>7 DEF ReturnedM
  <2>. QED
    BY <2>1 DEF Fields
<1>11. (s.pc - k) % NPC \in 0 .. NPC - 1
  <2>1. s.pc - k \in Int
    BY <1>2
  <2>. QED
    BY <2>1, PcRange
<1>12. t.mie = s.mie /\ MTI \in Irqs /\ t.mtime = s.mtime
  BY DEF TookM, Fields, Irqs
<1>13. Trapping(a)
  <2>1. a.mode \in Modes /\ a.pc \in 0 .. NPC - 1 /\ a.trapCause \in Causes
    BY <1>2, <1>8, <1>10, <1>11 DEF Good, Typed, Trapping
  <2>2. /\ a.trap \in BOOLEAN /\ a.trapDelegate \in BOOLEAN
        /\ a.irq \in BOOLEAN /\ a.wfi \in BOOLEAN
    BY <1>9, <1>10, Zenon DEF Good, Typed, Trapping, Handled
  <2>. QED
    BY <2>1, <2>2 DEF Trapping
<1>14. Csrs(a)
  <2>1. a.mie \subseteq Irqs /\ a.mip \subseteq Irqs
    BY <1>9, <1>12 DEF Good, Typed, Csrs, Handled
  <2>. QED
    BY <1>4, <1>8, <1>9, <1>10, <2>1 DEF Good, Typed, Trapping, Csrs
<1>15. Devices(a)
  <2>1. a.pindingIrq \in BOOLEAN /\ a.virtualSBI \in DOMAIN Instr
    BY <1>9, <1>10, Zenon DEF Good, Typed, Devices, Handled
  <2>. QED
    BY <1>9, <1>10, <2>1 DEF Good, Typed, Devices, Handled
<1>16. Noticed(a) /\ Unfailed(a)
  BY <1>9 DEF Handled, Noticed, Unfailed
<1>17. SbiOK(a)
  <2>1. a.mie \subseteq S_RW_MASK \cup {MTI}
    BY <1>9, <1>12 DEF Handled, Good, SbiOK
  <2>. QED
    BY <1>2, <1>8, <1>9, <1>10, <2>1 DEF Good, SbiOK
<1>18. TimerOK(a, l)
  BY <1>9 DEF Handled, TimerOK
<1>19. Good(a, l)
  BY <1>9, <1>13, <1>14, <1>15, <1>16, <1>17, <1>18 DEF Good, Typed
<1>20. Resumed(s, h, k, a)
  BY <1>6, <1>8, <1>9, <1>10, <1>12 DEF Resumed, Handled
<1>. QED
  BY <1>19, <1>20 DEF a

\* _doTrap: the trap is taken, by the guest's kernel, by its own firmware or by
\* the SBI, whose asserts hold.
LEMMA DoTrapGood ==
  ASSUME NEW s, NEW l \in BOOLEAN, Good(s, l), s.trap, ~l => s.mtime < WordMax
  PROVE  Good(_doTrap(s), l) /\ ~_doTrap(s).trap /\ _doTrap(s).virtualSBI = s.virtualSBI
<1>0. Fields \subseteq DOMAIN s /\ s.mstatus \in Mstatus /\ s.mode \in Modes
  BY DEF Good, Typed, Csrs, Trapping
<1>1. CASE s.trapDelegate
  <2>. DEFINE t == TrapToS(s)
              a == [t EXCEPT !.pc = 0]
  <2>1. TookS(s, t)
    BY <1>0, TrapToDoes
  <2>. HIDE DEF t
  <2>2. /\ Fields \subseteq DOMAIN a /\ a.pc = 0 /\ a.trap = FALSE /\ a.wfi = FALSE /\ a.mode = S
        /\ a.scause = s.trapCause /\ a.sepc = s.pc /\ a.mstatus = t.mstatus
        /\ \A f \in Fields \ {"pc", "trap", "wfi", "scause", "mstatus", "mode", "sepc"} : a[f] = s[f]
    BY <2>1 DEF TookS, Fields
  <2>. HIDE DEF a
  <2>3. a.mstatus \in Mstatus
    <3>1. s.mode % 2 \in {U, S}
      BY <1>0 DEF Modes, U, S, M
    <3>. QED
      <4>1. a.mstatus = [s.mstatus EXCEPT !.SPIE = s.mstatus.SIE, !.SIE = FALSE, !.SPP = s.mode % 2]
        BY <2>1, <2>2 DEF TookS
      <4>. QED
        BY <1>0, <3>1, <4>1, ZenonT(60) DEF Mstatus
  <2>4. S \in Modes /\ 0 \in 0 .. NPC - 1
    BY NPCAssumption DEF Modes
  <2>5. Typed(a) /\ Noticed(a)
    <3>1. Trapping(a)
      BY <2>2, <2>4, ZenonT(60) DEF Good, Typed, Fields, Trapping
    <3>2. Csrs(a)
      BY <2>2, <2>3 DEF Good, Typed, Fields, Trapping, Csrs
    <3>3. Devices(a) /\ Noticed(a)
      BY <2>2 DEF Good, Typed, Fields, Devices, Noticed
    <3>. QED
      BY <2>2, <3>1, <3>2, <3>3 DEF Typed
  <2>6. SbiOK(a) /\ Unfailed(a)
    <3>1. /\ a.virtualSBI = s.virtualSBI /\ a.mideleg = s.mideleg /\ a.medeleg = s.medeleg
          /\ a.mie = s.mie /\ a.failed = s.failed
      BY <2>2 DEF Fields
    <3>. QED
      BY <2>2, <3>1 DEF Good, SbiOK, Unfailed
  <2>7. TimerOK(a, l)
    <3>1. /\ a.virtualSBI = s.virtualSBI /\ a.mie = s.mie /\ a.mip = s.mip /\ a.mtime = s.mtime
          /\ a.mtimecmp = s.mtimecmp /\ a.pindingIrq = s.pindingIrq
      BY <2>2 DEF Fields
    <3>. QED
      BY <1>1, <2>2, <3>1 DEF Good, SbiOK, TimerOK
  <2>8. _doTrap(s) = a
    BY <1>1 DEF _doTrap, a, t
  <2>9. a.virtualSBI = s.virtualSBI
    BY <2>2 DEF Fields
  <2>. QED
    BY <2>2, <2>5, <2>6, <2>7, <2>8, <2>9 DEF Good
<1>2. CASE ~s.trapDelegate /\ ~s.virtualSBI
  <2>. DEFINE t == TrapToM(s)
              a == [t EXCEPT !.pc = 0]
  <2>1. TookM(s, t)
    BY <1>0, TrapToDoes
  <2>. HIDE DEF t
  <2>2. /\ Fields \subseteq DOMAIN a /\ a.pc = 0 /\ a.trap = FALSE /\ a.wfi = FALSE /\ a.mode = M
        /\ a.mcause = s.trapCause /\ a.mepc = s.pc /\ a.mstatus = t.mstatus
        /\ \A f \in Fields \ {"pc", "trap", "wfi", "mcause", "mstatus", "mode", "mepc"} : a[f] = s[f]
    BY <2>1 DEF TookM, Fields
  <2>. HIDE DEF a
  <2>3. a.mstatus \in Mstatus
    <3>1. a.mstatus = [s.mstatus EXCEPT !.MPIE = s.mstatus.MIE, !.MIE = FALSE, !.MPP = s.mode]
      BY <2>1, <2>2 DEF TookM
    <3>. QED
      BY <1>0, <3>1 DEF Mstatus
  <2>4. M \in Modes /\ 0 \in 0 .. NPC - 1
    BY NPCAssumption DEF Modes
  <2>5. Typed(a) /\ Noticed(a)
    <3>1. Trapping(a)
      BY <2>2, <2>4, ZenonT(60) DEF Good, Typed, Fields, Trapping
    <3>2. Csrs(a)
      BY <2>2, <2>3 DEF Good, Typed, Fields, Trapping, Csrs
    <3>3. Devices(a) /\ Noticed(a)
      BY <2>2 DEF Good, Typed, Fields, Devices, Noticed
    <3>. QED
      BY <2>2, <3>1, <3>2, <3>3 DEF Typed
  <2>6. SbiOK(a) /\ TimerOK(a, l) /\ Unfailed(a)
    <3>1. a.virtualSBI = s.virtualSBI /\ a.failed = s.failed
      BY <2>2 DEF Fields
    <3>. QED
      BY <1>2, <3>1 DEF Good, SbiOK, TimerOK, Unfailed
  <2>7. _doTrap(s) = a
    BY <1>2 DEF _doTrap, a, t
  <2>8. a.virtualSBI = s.virtualSBI
    BY <2>2 DEF Fields
  <2>. QED
    BY <2>2, <2>5, <2>6, <2>7, <2>8 DEF Good
<1>3. CASE ~s.trapDelegate /\ s.virtualSBI
  <2>. DEFINE t == TrapToM(s)
  <2>1. TookM(s, t)
    BY <1>0, TrapToDoes
  <2>2. CASE s.trapCause = Cause(FALSE, CALL_S)
    <3>1. Handled(t, sbi_handleEcall(t), l)
      BY <1>3, <2>1, <2>2, EcallHandled
    <3>2. _doTrap(s) = _xret(sbi_handleEcall(t), M, -1)
      BY <1>3, <2>2 DEF _doTrap, Cause
    <3>3. -1 \in Int
      OBVIOUS
    <3>. HIDE DEF t
    <3>4. Good(_doTrap(s), l) /\ Resumed(s, sbi_handleEcall(t), -1, _doTrap(s))
      BY <1>3, <2>1, <3>1, <3>2, <3>3, SbiReturns
    <3>. QED
      BY <3>4 DEF Resumed
  <2>3. CASE s.trapCause = Cause(TRUE, MTI)
    <3>1. Handled(t, sbi_handleInterrupt(t), l)
      BY <2>1, <2>3, InterruptHandled
    <3>2. _doTrap(s) = _xret(sbi_handleInterrupt(t), M, 0)
      BY <1>3, <2>3 DEF _doTrap, Cause, MTI, CALL_S
    <3>. HIDE DEF t
    <3>3. Good(_doTrap(s), l) /\ Resumed(s, sbi_handleInterrupt(t), 0, _doTrap(s))
      BY <1>3, <2>1, <3>1, <3>2, SbiReturns
    <3>. QED
      BY <3>3 DEF Resumed
  <2>. QED
    BY <1>3, <2>2, <2>3 DEF Good, SbiOK
<1>. QED
  BY <1>1, <1>2, <1>3

-----------------------------------------------------------------------------
\* An instruction that only leaves another program counter, wait or registers
LEMMA SmallChange ==
  ASSUME NEW s, NEW l \in BOOLEAN, Good(s, l), ~s.trap, NEW a,
         Fields \subseteq DOMAIN a, a.pc \in 0 .. NPC - 1, a.wfi \in BOOLEAN,
         a.regs \in [a7 : Int, a6 : Int, a0 : Int, a1 : Int],
         \A f \in Fields \ {"pc", "wfi", "regs"} : a[f] = s[f]
  PROVE  Good(a, l)
<1>1. Trapping(a)
  BY DEF Good, Typed, Fields, Trapping
<1>2. Csrs(a)
  BY DEF Good, Typed, Fields, Csrs
<1>3. Devices(a) /\ Noticed(a)
  BY DEF Good, Typed, Fields, Devices, Noticed
<1>4. /\ a.virtualSBI = s.virtualSBI /\ a.mideleg = s.mideleg /\ a.medeleg = s.medeleg
      /\ a.mie = s.mie /\ a.failed = s.failed /\ a.trap = s.trap /\ a.mip = s.mip
      /\ a.mtime = s.mtime /\ a.mtimecmp = s.mtimecmp /\ a.pindingIrq = s.pindingIrq
      /\ a.mode = s.mode
  BY DEF Fields
<1>5. SbiOK(a) /\ TimerOK(a, l) /\ Unfailed(a)
  BY <1>4 DEF Good, SbiOK, TimerOK, Unfailed
<1>. QED
  BY <1>1, <1>2, <1>3, <1>5 DEF Good, Typed

\* Every instruction of a well-formed program
LEMMA ExecGood ==
  ASSUME NEW s, NEW l \in BOOLEAN, Good(s, l), ~s.trap, NEW in, WellFormed(in),
         s.virtualSBI /\ KnownCalls /\ in.op = "ecall" => in.regs.a7 \in Known
  PROVE  Good(Exec(s, in), l)
<1>0. /\ Fields \subseteq DOMAIN s /\ s.mode \in Modes /\ s.pc \in 0 .. NPC - 1
      /\ s.regs \in [a7 : Int, a6 : Int, a0 : Int, a1 : Int]
  BY DEF Good, Typed, Trapping, Devices
<1>1. CASE in.op = "other"
  BY <1>1 DEF Exec
<1>2. CASE in.op = "fault"
  <2>1. Exec(s, in) = _trap(s, in.cause)
    BY <1>2 DEF Exec
  <2>2. in.cause \in Traps \ {CALL_U, CALL_S, CALL_M}
    BY <1>2 DEF WellFormed
  <2>. QED
    BY <2>1, <2>2, TrapGood
<1>3. CASE in.op = "ecall"
  <2>. DEFINE u == [s EXCEPT !.regs = in.regs]
  <2>1. Exec(s, in) = _trap(u, EcallCause(s))
    BY <1>3 DEF Exec
  <2>2. /\ in.regs \in [a7 : Int, a6 : Int, a0 : Int, a1 : Int]
        /\ in.regs.a7 = SBI_EID_TIMER => in.regs.a0 \in Time
    BY <1>3 DEF WellFormed
  <2>3. /\ Fields \subseteq DOMAIN u /\ u.regs = in.regs
        /\ \A f \in Fields \ {"regs"} : u[f] = s[f]
    BY <1>0 DEF Fields
  <2>. HIDE DEF u
  <2>4. u.pc = s.pc /\ u.wfi = s.wfi /\ u.trap = s.trap /\ u.virtualSBI = s.virtualSBI
    BY <2>3 DEF Fields
  <2>5. Good(u, l)
    <3>1. u.pc \in 0 .. NPC - 1 /\ u.wfi \in BOOLEAN
      BY <2>4 DEF Good, Typed, Trapping
    <3>2. \A f \in Fields \ {"pc", "wfi", "regs"} : u[f] = s[f]
      BY <2>3
    <3>. QED
      BY <2>2, <2>3, <3>1, <3>2, SmallChange
  <2>6. EcallCause(s) \in {CALL_U, CALL_S, CALL_M} /\ (s.mode \in {U, S} => EcallCause(s) # CALL_M)
    BY <1>0 DEF EcallCause, Modes, U, S, M, CALL_U, CALL_S, CALL_M
  <2>7. EcallCause(s) \in Traps
    BY <2>6 DEF Traps
  <2>8. s.virtualSBI => EcallCause(s) # CALL_M /\ CallOK(u)
    BY <1>3, <2>2, <2>3, <2>6 DEF CallOK, Good, SbiOK
  <2>. QED
    BY <2>1, <2>4, <2>5, <2>7, <2>8, TrapGood
<1>4. CASE in.op \in {"sret", "mret"}
  <2>1. Exec(s, in) = _xret(s, S, 1) \/ Exec(s, in) = _xret(s, M, 1)
    BY <1>4 DEF Exec
  <2>. QED
    BY <2>1, XretGood
<1>5. CASE in.op = "wfi"
  <2>. DEFINE u == [s EXCEPT !.wfi = TRUE]
  <2>1. Exec(s, in) = _trap(s, INST_ILL) \/ Exec(s, in) = u
    BY <1>5 DEF Exec
  <2>2. /\ Fields \subseteq DOMAIN u /\ u.wfi = TRUE
        /\ \A f \in Fields \ {"wfi"} : u[f] = s[f]
    BY <1>0 DEF Fields
  <2>. HIDE DEF u
  <2>3. u.pc = s.pc /\ u.regs = s.regs
    BY <2>2 DEF Fields
  <2>4. \A f \in Fields \ {"pc", "wfi", "regs"} : u[f] = s[f]
    BY <2>2
  <2>5. u.wfi \in BOOLEAN
    BY <2>2
  <2>6. Good(u, l)
    BY <1>0, <2>2, <2>3, <2>4, <2>5, SmallChange
  <2>. QED
    BY <2>1, <2>6, IllegalGood
<1>6. CASE in.op = "csr"
  <2>1. Exec(s, in) = CsrInstr(s, in)
    BY <1>6 DEF Exec
  <2>. QED
    BY <1>6, <2>1, CsrInstrGood
<1>7. CASE in.op = "store"
  <2>1. Exec(s, in) = AclintWrite(s, in.reg, in.val)
    BY <1>7 DEF Exec
  <2>2. in.reg \in {"msip", "mtimecmp", "mtime"} /\ in.val \in Time
    BY <1>7 DEF WellFormed
  <2>. QED
    BY <2>1, <2>2, AclintWriteGood
<1>8. in.op \in {"other", "sret", "mret", "wfi", "fault", "ecall", "store", "csr"}
  BY DEF WellFormed
<1>. QED
  BY <1>1, <1>2, <1>3, <1>4, <1>5, <1>6, <1>7, <1>8

\* What the assumptions on the guest's program say of the next instruction
LEMMA GuestInstr ==
  ASSUME NEW v \in DOMAIN Instr, NEW in \in Instr[v]
  PROVE  WellFormed(in) /\ (v /\ KnownCalls /\ in.op = "ecall" => in.regs.a7 \in Known)
<1>1. WellFormed(in)
  BY GuestAssumption
<1>2. v \in BOOLEAN
  BY MachineAssumption
<1>3. v => TRUE \in DOMAIN Instr /\ in \in Instr[TRUE]
  <2>1. v => v = TRUE
    BY <1>2, Zenon
  <2>. QED
    BY <2>1, Zenon
<1>. QED
  BY <1>1, <1>3 DEF KnownCalls

\* rv_run
LEMMA RunGood ==
  ASSUME NEW s, NEW l \in BOOLEAN, Good(s, l), ~l => s.mtime < WordMax,
         NEW in \in Instr[s.virtualSBI]
  PROVE  Good(rv_run(s, in), l)
<1>. DEFINE b == BeforeFetch(s)
            e == Exec(b, in)
<1>1. Good(b, l) /\ b.virtualSBI = s.virtualSBI
  <2>1. CASE s.trap
    BY <2>1, DoTrapGood DEF BeforeFetch
  <2>2. CASE ~s.trap
    BY <2>2, ProcessGood DEF BeforeFetch
  <2>. QED
    BY <2>1, <2>2
<1>. HIDE DEF b
<1>2. CASE b.trap
  BY <1>1, <1>2 DEF rv_run, b
<1>3. CASE ~b.trap
  <2>1. s.virtualSBI \in DOMAIN Instr
    BY DEF Good, Typed, Devices
  <2>2. WellFormed(in)
    BY <2>1, GuestInstr
  <2>3. b.virtualSBI /\ KnownCalls /\ in.op = "ecall" => in.regs.a7 \in Known
    BY <1>1, <2>1, GuestInstr
  <2>4. Good(e, l)
    BY <1>1, <1>3, <2>2, <2>3, ExecGood
  <2>. HIDE DEF e
  <2>5. CASE e.trap
    BY <1>3, <2>4, <2>5 DEF rv_run, b, e
  <2>6. CASE ~e.trap
    <3>. DEFINE a == [e EXCEPT !.pc = (@ + 1) % NPC]
    <3>1. /\ Fields \subseteq DOMAIN e /\ e.pc + 1 \in Int /\ e.wfi \in BOOLEAN
          /\ e.regs \in [a7 : Int, a6 : Int, a0 : Int, a1 : Int]
      BY <2>4 DEF Good, Typed, Trapping, Devices
    <3>2. (e.pc + 1) % NPC \in 0 .. NPC - 1
      BY <3>1, PcRange
    <3>3. /\ Fields \subseteq DOMAIN a /\ a.pc = (e.pc + 1) % NPC /\ a.wfi = e.wfi /\ a.regs = e.regs
          /\ \A f \in Fields \ {"pc", "wfi", "regs"} : a[f] = e[f]
      BY <3>1 DEF Fields
    <3>4. rv_run(s, in) = a
      BY <1>3, <2>6 DEF rv_run, b, e
    <3>. HIDE DEF a
    <3>5. a.wfi \in BOOLEAN
      BY <3>1, <3>3, Zenon
    <3>6. Good(a, l)
      BY <2>4, <2>6, <3>1, <3>2, <3>3, <3>5, SmallChange
    <3>. QED
      BY <3>4, <3>6
  <2>. QED
    BY <2>5, <2>6
<1>. QED
  BY <1>2, <1>3

\* The clock: main's tick, and the longer one of an idle guest
LEMMA AdvanceGood ==
  ASSUME NEW s, NEW l \in BOOLEAN, Good(s, l), NEW cycles \in Nat
  PROVE  Good(Advance(s, cycles), l)
<1>1. 0 \in Nat
  OBVIOUS
<1>. QED
  BY <1>1, TickGood DEF Advance

\* The product of natural numbers is one
LEMMA NatTimes ==
  ASSUME NEW x \in Nat, NEW y \in Nat
  PROVE  x * y \in Nat
OBVIOUS

\* The quotient
LEMMA NatDiv ==
  ASSUME NEW x \in Nat, NEW y \in Nat \ {0}
  PROVE  x \div y \in Nat
OBVIOUS

\* The idle sleep is a number of ticks.
LEMMA IdleTicksNat ==
  ASSUME NEW s, s.mtime \in Time, s.mtimecmp \in Time
  PROVE  IdleTicks(s) \in Nat
<1>. DEFINE r == aclint_mtimeRemains(s)
            us == r \div TicksPerUs
            k == IF us > MaxSleepUs THEN MaxSleepUs ELSE us
<1>1. r \in Nat
  <2>1. s.mtimecmp - s.mtime \in Int
    BY TimeModAssumption DEF Time
  <2>. QED
    BY <2>1, TimeModAssumption DEF aclint_mtimeRemains
<1>. HIDE DEF r
<1>2. us \in Nat
  BY <1>1, MachineAssumption, NatDiv
<1>. HIDE DEF us
<1>3. k \in Nat /\ TicksPerUs \in Nat
  BY <1>2, MachineAssumption
<1>. HIDE DEF k
<1>4. k * TicksPerUs \in Nat
  BY <1>3, NatTimes, Zenon
<1>. QED
  BY <1>4 DEF IdleTicks, r, us, k

-----------------------------------------------------------------------------
\* The inductive invariant
MachineInv ==
  /\ Good(m, late)
  /\ ~late => m.mtime < WordMax
  /\ phase \in {"run", "tick", "idle", "poll"}
  /\ i \in 0 .. cyclesPerStep - 1
  /\ late \in BOOLEAN

\* The reset state, of the SBI's hart and of a bare one
LEMMA MachineInitInv == MachineInit => MachineInv
<1>. SUFFICES ASSUME MachineInit PROVE MachineInv
  OBVIOUS
<1>1. PICK sbi \in DOMAIN Instr :
       m = [f \in DOMAIN sbi_startHart \cup DOMAIN aclint_init \cup DOMAIN sbi_init
                  \cup {"virtualSBI"} |->
              IF f = "virtualSBI" THEN sbi
              ELSE IF f \in DOMAIN aclint_init THEN aclint_init[f]
              ELSE IF f \in DOMAIN sbi_init THEN sbi_init[f]
              ELSE IF sbi THEN sbi_startHart[f] ELSE rv_reset(M)[f]]
  BY DEF MachineInit
<1>2. sbi \in BOOLEAN
  BY MachineAssumption
<1>. DEFINE HartFields == Fields \ {"virtualSBI", "mtime", "mtimecmp", "pindingIrq", "msip",
                                    "regs", "failed"}
<1>3. /\ DOMAIN sbi_startHart = HartFields /\ DOMAIN rv_reset(M) = HartFields
      /\ DOMAIN aclint_init = {"mtime", "mtimecmp", "pindingIrq", "msip"}
      /\ DOMAIN sbi_init = {"regs", "failed"}
  BY DEF sbi_startHart, rv_reset, aclint_init, sbi_init, Fields
<1>4. /\ Fields = DOMAIN m /\ m.virtualSBI = sbi
      /\ \A f \in {"mtime", "mtimecmp", "pindingIrq", "msip"} : m[f] = aclint_init[f]
      /\ \A f \in {"regs", "failed"} : m[f] = sbi_init[f]
      /\ \A f \in HartFields : m[f] = IF sbi THEN sbi_startHart[f] ELSE rv_reset(M)[f]
  BY <1>1, <1>3 DEF Fields
<1>5. /\ m.mode = (IF sbi THEN S ELSE M) /\ m.pc = 0 /\ m.trap = FALSE
      /\ m.trapCause = Cause(FALSE, 0) /\ m.trapDelegate = FALSE /\ m.irq = FALSE /\ m.wfi = FALSE
      /\ m.mip = {} /\ m.mie = {} /\ m.mcause = Cause(FALSE, 0) /\ m.scause = Cause(FALSE, 0)
      /\ m.mepc = 0 /\ m.sepc = 0 /\ m.scounteren = {}
      /\ m.mideleg = (IF sbi THEN S_RW_MASK ELSE {})
      /\ m.medeleg = (IF sbi THEN Traps \ {CALL_S, CALL_M} ELSE {})
      /\ m.mcounteren = (IF sbi THEN COUNTEREN_WR_MASK ELSE {})
      /\ m.mstatus = [MIE |-> FALSE, MPIE |-> FALSE, MPP |-> U, SIE |-> FALSE,
                      SPIE |-> FALSE, SPP |-> U, TSR |-> FALSE, TW |-> FALSE]
  <2>1. CASE sbi
    <3>1. \A f \in HartFields : m[f] = sbi_startHart[f]
      BY <1>4, <2>1
    <3>2. \A f \in HartFields \ {"medeleg", "mideleg", "mcounteren"} : m[f] = rv_reset(S)[f]
      BY <1>3, <3>1 DEF sbi_startHart, Fields
    <3>3. /\ m.medeleg = Traps \ {CALL_S, CALL_M} /\ m.mideleg = S_RW_MASK
          /\ m.mcounteren = COUNTEREN_WR_MASK
      <4>1. {"medeleg", "mideleg", "mcounteren"} \subseteq DOMAIN rv_reset(S)
        BY DEF rv_reset
      <4>. QED
        BY <3>1, <4>1 DEF sbi_startHart, Fields
    <3>4. /\ m.mode = S /\ m.pc = 0 /\ m.trap = FALSE /\ m.trapCause = Cause(FALSE, 0)
          /\ m.trapDelegate = FALSE /\ m.irq = FALSE /\ m.wfi = FALSE /\ m.mip = {} /\ m.mie = {}
      BY <3>2 DEF Fields, rv_reset
    <3>5. /\ m.mcause = Cause(FALSE, 0) /\ m.scause = Cause(FALSE, 0)
          /\ m.mepc = 0 /\ m.sepc = 0 /\ m.scounteren = {}
          /\ m.mstatus = [MIE |-> FALSE, MPIE |-> FALSE, MPP |-> U, SIE |-> FALSE,
                          SPIE |-> FALSE, SPP |-> U, TSR |-> FALSE, TW |-> FALSE]
      BY <3>2 DEF Fields, rv_reset
    <3>. QED
      BY <2>1, <3>3, <3>4, <3>5
  <2>2. CASE ~sbi
    <3>1. \A f \in HartFields : m[f] = rv_reset(M)[f]
      BY <1>4, <2>2
    <3>2. /\ m.mode = M /\ m.pc = 0 /\ m.trap = FALSE /\ m.trapCause = Cause(FALSE, 0)
          /\ m.trapDelegate = FALSE /\ m.irq = FALSE /\ m.wfi = FALSE /\ m.mip = {} /\ m.mie = {}
      BY <3>1 DEF Fields, rv_reset
    <3>3. /\ m.mcause = Cause(FALSE, 0) /\ m.scause = Cause(FALSE, 0)
          /\ m.mepc = 0 /\ m.sepc = 0 /\ m.scounteren = {}
          /\ m.medeleg = {} /\ m.mideleg = {} /\ m.mcounteren = {}
          /\ m.mstatus = [MIE |-> FALSE, MPIE |-> FALSE, MPP |-> U, SIE |-> FALSE,
                          SPIE |-> FALSE, SPP |-> U, TSR |-> FALSE, TW |-> FALSE]
      BY <3>1 DEF Fields, rv_reset
    <3>. QED
      BY <2>2, <3>2, <3>3
  <2>. QED
    BY <2>1, <2>2
<1>6. m.mstatus \in Mstatus
  <2>1. U \in Modes
    BY DEF Modes
  <2>. QED
    BY <1>5, <2>1 DEF Mstatus
<1>7. /\ m.mtime = 0 /\ m.mtimecmp = 0 /\ m.pindingIrq = FALSE /\ m.msip = 0 /\ m.failed = {}
      /\ m.regs = [a7 |-> 0, a6 |-> 0, a0 |-> 0, a1 |-> 0]
  BY <1>4 DEF Fields, aclint_init, sbi_init
<1>8. 0 \in Time /\ 0 < WordMax /\ 0 \in 0 .. NPC - 1 /\ U \in Modes /\ S \in Modes /\ M \in Modes
  BY NPCAssumption, TimeModAssumption, WordMaxAssumption DEF Time, Modes
<1>9. Cause(FALSE, 0) \in Causes
  BY DEF Cause, Causes, Traps, INST_ALLIGN
<1>10. Trapping(m)
  BY <1>5, <1>8, <1>9 DEF Trapping
<1>11. Csrs(m)
  <2>1. m.mideleg \subseteq S_RW_MASK /\ m.medeleg \subseteq Traps
        /\ m.mcounteren \subseteq COUNTEREN_WR_MASK /\ m.scounteren \subseteq COUNTEREN_WR_MASK
    BY <1>5
  <2>. QED
    BY <1>5, <1>6, <1>8, <1>9, <2>1 DEF Csrs
<1>12. Devices(m)
  <2>1. m.pindingIrq \in BOOLEAN /\ m.virtualSBI \in DOMAIN Instr
    BY <1>4, <1>7, Zenon
  <2>2. /\ m.mtime \in Time /\ m.mtimecmp \in Time /\ m.msip \in Nat
        /\ m.regs \in [a7 : Int, a6 : Int, a0 : Int, a1 : Int]
    BY <1>7, <1>8
  <2>. QED
    BY <2>1, <2>2 DEF Devices
<1>13. Noticed(m) /\ Unfailed(m) /\ TimerOK(m, late)
  BY <1>5, <1>7 DEF Noticed, Unfailed, TimerOK
<1>14. SbiOK(m)
  BY <1>4, <1>5, <1>6 DEF SbiOK
<1>15. /\ phase \in {"run", "tick", "idle", "poll"} /\ i \in 0 .. cyclesPerStep - 1
       /\ late \in BOOLEAN /\ m.mtime < WordMax
  <2>1. phase = "run" /\ i = 0 /\ late = FALSE
    BY DEF MachineInit
  <2>2. late \in BOOLEAN /\ phase \in {"run", "tick", "idle", "poll"}
    BY <2>1, Zenon
  <2>3. i \in 0 .. cyclesPerStep - 1 /\ m.mtime < WordMax
    BY <1>7, <1>8, <2>1, MachineAssumption
  <2>. QED
    BY <2>2, <2>3, Zenon
<1>. QED
  BY <1>4, <1>10, <1>11, <1>12, <1>13, <1>14, <1>15 DEF MachineInv, Good, Typed

\* Every step of main's loop
LEMMA MachineStepInv == MachineInv /\ [MachineNext]_machineVars => MachineInv'
<1>. SUFFICES ASSUME MachineInv, [MachineNext]_machineVars PROVE MachineInv'
  OBVIOUS
<1>1. CASE UNCHANGED machineVars
  BY <1>1 DEF MachineInv, machineVars
<1>2. CASE MachineNext
  <2>0. Good(m, late) /\ late \in BOOLEAN /\ (~late => m.mtime < WordMax)
    BY DEF MachineInv
  <2>1. Good(m', late) /\ phase' \in {"run", "tick", "idle", "poll"} /\ i' \in 0 .. cyclesPerStep - 1
    <3>1. CASE RvRun
      <4>1. PICK in \in Instr[m.virtualSBI] : m' = rv_run(m, in)
        BY <3>1 DEF RvRun
      <4>2. Good(m', late)
        BY <2>0, <4>1, RunGood
      <4>3. i + 1 \in Nat
        BY MachineAssumption DEF MachineInv
      <4>4. (i + 1) % cyclesPerStep \in 0 .. cyclesPerStep - 1
        BY <4>3, MachineAssumption
      <4>. QED
        BY <3>1, <4>2, <4>4 DEF RvRun
    <3>2. CASE Tick
      BY <2>0, <3>2, AdvanceGood, MachineAssumption DEF Tick, MachineInv
    <3>3. CASE Idle
      <4>1. IdleTicks(m) \in Nat
        BY <2>0, IdleTicksNat DEF Good, Typed, Devices
      <4>. QED
        BY <2>0, <3>3, <4>1, AdvanceGood DEF Idle, MachineInv
    <3>4. CASE PollConsole
      <4>1. \A n \in Poll : n \in Irqs
        BY MachineAssumption DEF Irqs
      <4>2. Good(m', late)
        BY <2>0, <3>4, <4>1, SetClear DEF PollConsole
      <4>. QED
        BY <3>4, <4>2 DEF PollConsole, MachineInv
    <3>. QED
      BY <1>2, <3>1, <3>2, <3>3, <3>4 DEF MachineNext
  <2>2. late' = (late \/ m'.mtime >= WordMax)
    BY <1>2 DEF MachineNext
  <2>3. late' \in BOOLEAN /\ (~late' => ~late)
    BY <2>0, <2>2
  <2>4. ~late' => m'.mtime < WordMax
    <3>1. m'.mtime \in Int /\ WordMax \in Int
      BY <2>1, TimeModAssumption, WordMaxAssumption DEF Good, Typed, Devices, Time
    <3>2. ~late' => ~(m'.mtime >= WordMax)
      BY <2>2, Zenon
    <3>. QED
      BY <3>1, <3>2
  <2>5. Good(m', late')
    BY <2>1, <2>3 DEF Good, TimerOK
  <2>. QED
    BY <2>1, <2>3, <2>4, <2>5 DEF MachineInv
<1>. QED
  BY <1>1, <1>2

\* The machine is good, for every guest and for ever.
THEOREM MachineInvariant == MachineSpec => []MachineInv
<1>1. MachineInit => MachineInv
  BY MachineInitInv
<1>2. MachineInv /\ [MachineNext]_machineVars => MachineInv'
  BY MachineStepInv
<1>. QED
  BY <1>1, <1>2, PTL DEF MachineSpec

-----------------------------------------------------------------------------
\* Every field of the machine stays in its range, whatever the guest does.
THEOREM MachineTyped == MachineSpec => []MachineTypeOK
<1>1. MachineInv => MachineTypeOK
  <2>. SUFFICES ASSUME MachineInv PROVE MachineTypeOK
    OBVIOUS
  <2>1. S_RW_MASK \subseteq Irqs
    BY DEF S_RW_MASK, Irqs
  <2>2. Trapping(m) /\ Csrs(m) /\ Devices(m)
    BY DEF MachineInv, Good, Typed
  <2>3. m.mideleg \subseteq Irqs
    BY <2>1, <2>2 DEF Csrs
  <2>. QED
    BY <2>2, <2>3, Zenon DEF MachineTypeOK, MachineInv, Trapping, Csrs, Devices
<1>. QED
  BY <1>1, MachineInvariant, PTL

\* What _doTrap does not hand to the guest's kernel is a call from S mode or the
\* machine timer's interrupt.
THEOREM SbiEnteredForCallsAndTimer == MachineSpec => []UndelegatedOnly
<1>1. MachineInv => UndelegatedOnly
  BY DEF MachineInv, Good, SbiOK, UndelegatedOnly
<1>. QED
  BY <1>1, MachineInvariant, PTL

\* rv_run is told of every interrupt that is pending.
THEOREM InterruptsNoticed == MachineSpec => []PendingNoticed
<1>1. MachineInv => PendingNoticed
  BY DEF MachineInv, Good, Noticed, PendingNoticed
<1>. QED
  BY <1>1, MachineInvariant, PTL

\* The asserts of sbi.c hold for every guest that calls the extensions base,
\* timer and debug console only.  The hypothesis is needed: ProbedExtensionsKnown
\* is violated.
THEOREM SbiNeverAsserts == KnownCalls => (MachineSpec => []SbiAssertsHold)
<1>. SUFFICES ASSUME KnownCalls PROVE MachineSpec => []SbiAssertsHold
  OBVIOUS
<1>1. MachineInv => SbiAssertsHold
  BY DEF MachineInv, Good, Unfailed, SbiAssertsHold
<1>. QED
  BY <1>1, MachineInvariant, PTL

\* A due timer of a guest on the SBI is pending or being taken, until mtime has
\* been at CPU_UINT_MAX.
THEOREM TimerNeverLost == DOMAIN Instr = {TRUE} => (MachineSpec => []TimerNotLost)
<1>. SUFFICES ASSUME DOMAIN Instr = {TRUE} PROVE MachineSpec => []TimerNotLost
  OBVIOUS
<1>1. MachineInv => TimerNotLost
  <2>. SUFFICES ASSUME MachineInv PROVE TimerNotLost
    OBVIOUS
  <2>1. m.virtualSBI
    BY DEF MachineInv, Good, Typed, Devices
  <2>. QED
    BY <2>1 DEF MachineInv, Good, TimerOK, TimerNotLost
<1>. QED
  BY <1>1, MachineInvariant, PTL

\* The SBI leaves no trace in what the guest's kernel can see, but for the
\* timer interrupt that it hands on.
THEOREM SbiInvisible == MachineSpec => []SbiTransparent
<1>1. MachineInv => SbiTransparent
  <2>. SUFFICES ASSUME MachineInv, m.virtualSBI, m.trap, ~m.trapDelegate
                PROVE  LET r == _doTrap(m) IN
                  /\ r.mode = m.mode
                  /\ r.pc = IF m.trapCause.irq THEN m.pc ELSE (m.pc + 1) % NPC
                  /\ r.mstatus.SIE = m.mstatus.SIE /\ r.mstatus.SPIE = m.mstatus.SPIE
                  /\ r.mstatus.SPP = m.mstatus.SPP
                  /\ r.sepc = m.sepc /\ r.scause = m.scause
                  /\ r.mie \cap S_RW_MASK = m.mie \cap S_RW_MASK
                  /\ r.mip \cap S_RW_MASK =
                       (m.mip \cap S_RW_MASK) \cup (IF m.trapCause.irq THEN {STI} ELSE {})
    BY DEF SbiTransparent
  <2>. DEFINE t == TrapToM(m)
              r == _doTrap(m)
  <2>0. Good(m, TRUE) /\ Fields \subseteq DOMAIN m /\ m.mstatus \in Mstatus /\ m.pc \in 0 .. NPC - 1
    BY DEF MachineInv, Good, TimerOK, Typed, Csrs, Trapping
  <2>1. TookM(m, t)
    BY <2>0, TrapToDoes
  <2>2. CASE m.trapCause = Cause(FALSE, CALL_S)
    <3>. DEFINE h == sbi_handleEcall(t)
    <3>1. Handled(t, h, TRUE) /\ h.mip \ {MTI} = m.mip \ {MTI}
      BY <2>0, <2>1, <2>2, EcallHandled
    <3>2. r = _xret(h, M, -1)
      BY <2>2 DEF _doTrap, Cause
    <3>. HIDE DEF t, h
    <3>3. -1 \in Int /\ TRUE \in BOOLEAN
      OBVIOUS
    <3>4. Resumed(m, h, -1, r)
      <4>1. \A k \in Int : Resumed(m, h, k, _xret(h, M, k))
        BY <2>0, <2>1, <3>1, <3>3, SbiReturns
      <4>. QED
        BY <3>2, <3>3, <4>1, Zenon
    <3>5. ~m.trapCause.irq
      BY <2>2 DEF Cause
    <3>6. m.pc - (-1) = m.pc + 1
      BY <2>0
    <3>7. h.mip \cap S_RW_MASK = m.mip \cap S_RW_MASK
      BY <3>1 DEF S_RW_MASK, MTI, SSI, STI, SEI, LCOFI
    <3>. HIDE DEF r
    <3>. QED
      BY <3>4, <3>5, <3>6, <3>7 DEF Resumed, r
  <2>3. CASE m.trapCause = Cause(TRUE, MTI)
    <3>. DEFINE h == sbi_handleInterrupt(t)
    <3>1. Handled(t, h, TRUE) /\ h.mip \cap S_RW_MASK = (m.mip \cap S_RW_MASK) \cup {STI}
      BY <2>0, <2>1, <2>3, InterruptHandled
    <3>2. r = _xret(h, M, 0)
      BY <2>3 DEF _doTrap, Cause, MTI, CALL_S
    <3>. HIDE DEF t, h
    <3>3. 0 \in Int /\ TRUE \in BOOLEAN
      OBVIOUS
    <3>4. Resumed(m, h, 0, r)
      BY <2>0, <2>1, <3>1, <3>2, <3>3, SbiReturns
    <3>5. m.trapCause.irq
      BY <2>3 DEF Cause
    <3>6. (m.pc - 0) % NPC = m.pc
      BY <2>0, NPCAssumption
    <3>. HIDE DEF r
    <3>. QED
      BY <3>1, <3>4, <3>5, <3>6 DEF Resumed, r
  <2>. QED
    BY <2>2, <2>3 DEF MachineInv, Good, SbiOK
<1>. QED
  BY <1>1, MachineInvariant, PTL

\* A trap that does not lower the privilege saves what the return from it needs.
THEOREM TrapsReturn == MachineSpec => []TrapReturns
<1>1. MachineInv => TrapReturns
  <2>. DEFINE d == _doTrap(m)
              r == _xret(d, d.mode, 0)
  <2>. SUFFICES ASSUME MachineInv, m.trap, m.trapDelegate \/ ~m.virtualSBI,
                       d.mode >= m.mode, d.mode = S => ~d.mstatus.TSR
                PROVE  /\ r.mode = m.mode
                       /\ r.pc = m.pc
                       /\ r.mstatus.SIE = m.mstatus.SIE
                       /\ r.mstatus.MIE = m.mstatus.MIE
    BY DEF TrapReturns
  <2>0. /\ Fields \subseteq DOMAIN m /\ m.mstatus \in Mstatus /\ m.pc \in 0 .. NPC - 1
        /\ m.mode \in Modes
    BY DEF MachineInv, Good, Typed, Csrs, Trapping
  <2>1. (m.pc - 0) % NPC = m.pc
    BY <2>0, NPCAssumption
  <2>2. CASE m.trapDelegate
    <3>. DEFINE t == TrapToS(m)
                ms == [m.mstatus EXCEPT !.SPIE = m.mstatus.SIE, !.SIE = FALSE, !.SPP = m.mode % 2]
                rs == [ms EXCEPT !.SIE = ms.SPIE, !.SPIE = TRUE, !.SPP = U]
    <3>1. TookS(m, t)
      BY <2>0, TrapToDoes
    <3>2. d = [t EXCEPT !.pc = 0]
      BY <2>2 DEF _doTrap
    <3>. HIDE DEF t, d
    <3>3. Fields \subseteq DOMAIN d /\ d.mode = S /\ d.sepc = m.pc /\ d.mstatus = ms
      BY <3>1, <3>2 DEF TookS, Fields
    <3>4. m.mode % 2 = m.mode /\ m.mode \in {U, S}
      BY <2>0, <3>3 DEF Modes, U, S, M
    <3>5. ms \in Mstatus
      BY <2>0, <3>4 DEF Mstatus
    <3>6. ms.SPP = m.mode /\ rs.SIE = m.mstatus.SIE /\ rs.MIE = m.mstatus.MIE
      BY <2>0, <3>4 DEF Mstatus
    <3>. HIDE DEF ms
    <3>7. ReturnedS(d, 0, _xret(d, S, 0))
      BY <3>3, <3>5, XretDoes DEF S
    <3>8. r.mstatus = rs /\ r.mode = m.mode /\ r.pc = (m.pc - 0) % NPC
      BY <3>3, <3>6, <3>7 DEF ReturnedS
    <3>. HIDE DEF r, rs
    <3>. QED
      BY <2>1, <3>6, <3>8
  <2>3. CASE ~m.trapDelegate
    <3>. DEFINE t == TrapToM(m)
                ms == [m.mstatus EXCEPT !.MPIE = m.mstatus.MIE, !.MIE = FALSE, !.MPP = m.mode]
                rs == [ms EXCEPT !.MIE = ms.MPIE, !.MPIE = TRUE, !.MPP = U]
    <3>1. TookM(m, t)
      BY <2>0, TrapToDoes
    <3>2. d = [t EXCEPT !.pc = 0]
      BY <2>3 DEF _doTrap
    <3>. HIDE DEF t, d
    <3>3. Fields \subseteq DOMAIN d /\ d.mode = M /\ d.mepc = m.pc /\ d.mstatus = ms
      BY <3>1, <3>2 DEF TookM, Fields
    <3>5. ms \in Mstatus
      BY <2>0 DEF Mstatus
    <3>6. ms.MPP = m.mode /\ rs.SIE = m.mstatus.SIE /\ rs.MIE = m.mstatus.MIE
      BY <2>0 DEF Mstatus
    <3>. HIDE DEF ms
    <3>7. ReturnedM(d, 0, _xret(d, M, 0))
      BY <3>3, <3>5, XretDoes DEF M
    <3>8. r.mstatus = rs /\ r.mode = m.mode /\ r.pc = (m.pc - 0) % NPC
      BY <3>3, <3>6, <3>7 DEF ReturnedM
    <3>. HIDE DEF r, rs
    <3>. QED
      BY <2>1, <3>6, <3>8
  <2>. QED
    BY <2>2, <2>3
<1>. QED
  BY <1>1, MachineInvariant, PTL

-----------------------------------------------------------------------------
\* Rounding down to whole microseconds
LEMMA WholeTicks ==
  ASSUME NEW x \in Nat, NEW y \in Nat \ {0}, NEW k \in Nat, k <= x \div y
  PROVE  k * y <= x
<1>1. (x \div y) * y <= x
  OBVIOUS
<1>2. k * y <= (x \div y) * y
  OBVIOUS
<1>. QED
  BY <1>1, <1>2

\* The sleep of an idle guest does not carry the clock past its deadline.
THEOREM IdleStopsInTime == MachineSpec => IdleNotPast
<1>1. MachineInv /\ [MachineNext]_machineVars =>
        [Idle /\ m.mtime < m.mtimecmp => m'.mtime <= m.mtimecmp]_machineVars
  <2>. SUFFICES ASSUME MachineInv, Idle, m.mtime < m.mtimecmp PROVE m'.mtime <= m.mtimecmp
    OBVIOUS
  <2>. DEFINE x == IdleTicks(m)
              r == aclint_mtimeRemains(m)
              us == r \div TicksPerUs
              k == IF us > MaxSleepUs THEN MaxSleepUs ELSE us
  <2>1. m.mtime \in Time /\ m.mtimecmp \in Time /\ Fields \subseteq DOMAIN m /\ m.pindingIrq \in BOOLEAN
    BY DEF MachineInv, Good, Typed, Devices
  <2>2. m.mtime \in Nat /\ m.mtimecmp \in Nat /\ m.mtimecmp < TimeMod
    BY <2>1, TimeModAssumption DEF Time
  <2>3. r = m.mtimecmp - m.mtime /\ r \in Nat
    BY <2>2, TimeModAssumption DEF aclint_mtimeRemains
  <2>. HIDE DEF r
  <2>4. us \in Nat
    BY <2>3, NatDiv, MachineAssumption
  <2>. HIDE DEF us
  <2>5. k \in Nat /\ k <= us /\ TicksPerUs \in Nat \ {0}
    BY <2>4, MachineAssumption
  <2>6. x = k * TicksPerUs
    BY DEF IdleTicks, r, us, k
  <2>. HIDE DEF k, x
  <2>7. k * TicksPerUs <= r
    BY <2>3, <2>5, WholeTicks DEF us
  <2>8. k * TicksPerUs \in Nat
    BY <2>5, NatTimes
  <2>9. x \in Nat /\ x <= m.mtimecmp - m.mtime
    BY <2>3, <2>6, <2>7, <2>8
  <2>10. PICK y \in {0, x} : m' = aclint_tick(m, y)
    BY DEF Idle, Advance, x
  <2>11. y \in Nat /\ m.mtime + y <= m.mtimecmp
    BY <2>2, <2>9
  <2>12. (m.mtime + y) % TimeMod = m.mtime + y /\ m.mtime + y \in Time
    BY <2>2, <2>11, TimeModAssumption DEF Time
  <2>. DEFINE t == [m EXCEPT !.mtime = m.mtime + y]
  <2>13. m' = _updateMtimer(t)
    BY <2>10, <2>12 DEF aclint_tick
  <2>14. Fields \subseteq DOMAIN t /\ t.mtime = m.mtime + y /\ t.mtimecmp = m.mtimecmp
         /\ t.pindingIrq = m.pindingIrq
    BY <2>1 DEF Fields
  <2>. HIDE DEF t
  <2>15. Timed(t, m')
    BY <2>1, <2>12, <2>13, <2>14, UpdateMtimerDoes
  <2>16. m'.mtime = t.mtime
    BY <2>15 DEF Timed, Fields
  <2>. QED
    BY <2>11, <2>14, <2>16
<1>. QED
  BY <1>1, MachineInvariant, PTL DEF MachineSpec, IdleNotPast

-----------------------------------------------------------------------------
\* What belongs to machine mode is the same in s and in a, and a is not in
\* machine mode.
MachineMode == {"mideleg", "medeleg", "mcounteren", "mepc", "mcause"}
MachineFlags == {"MIE", "MPIE", "MPP", "TSR", "TW"}
Same(s, a) ==
  /\ \A f \in MachineMode : a[f] = s[f]
  /\ a.mie \ S_RW_MASK = s.mie \ S_RW_MASK
  /\ \A f \in MachineFlags : a.mstatus[f] = s.mstatus[f]
  /\ a.mode \in {U, S}

\* It stays so over two steps.
LEMMA SameTrans ==
  ASSUME NEW s, NEW a, NEW b, Same(s, a), Same(a, b)
  PROVE  Same(s, b)
BY DEF Same

\* Steps that do not come near
LEMMA SameApart ==
  ASSUME NEW s, NEW a, s.mode \in {U, S},
         \A f \in MachineMode \cup {"mie", "mstatus", "mode"} : a[f] = s[f]
  PROVE  Same(s, a)
BY DEF Same, MachineMode

\* Traps and interrupts, until they are taken
LEMMA TrapApart ==
  ASSUME NEW s, Fields \subseteq DOMAIN s, s.mode \in {U, S}, NEW n, NEW d
  PROVE  Same(s, _trap(s, n)) /\ Same(s, _interrupt(s, n, d)) /\ Same(s, rv_setInterrupt(s, n))
<1>1. \A f \in MachineMode \cup {"mie", "mstatus", "mode"} :
        _trap(s, n)[f] = s[f] /\ _interrupt(s, n, d)[f] = s[f] /\ rv_setInterrupt(s, n)[f] = s[f]
  BY DEF _trap, _interrupt, rv_clearInterrupt, rv_setInterrupt, _pendingIRQ, Fields, MachineMode
<1>. QED
  BY <1>1, SameApart

\* The ACLINT
LEMMA TimedApart ==
  ASSUME NEW s, NEW a, s.mode \in {U, S}, NEW t, Timed(t, a),
         \A f \in Fields \ {"mtime", "mtimecmp", "msip"} : t[f] = s[f]
  PROVE  Same(s, a)
<1>1. \A f \in MachineMode \cup {"mie", "mstatus", "mode"} : a[f] = s[f]
  BY DEF Timed, Fields, MachineMode
<1>. QED
  BY <1>1, SameApart

\* A store to the ACLINT
LEMMA AclintApart ==
  ASSUME NEW s, NEW l \in BOOLEAN, Good(s, l), s.mode \in {U, S},
         NEW reg \in {"msip", "mtimecmp", "mtime"}, NEW val \in Time
  PROVE  Same(s, AclintWrite(s, reg, val))
<1>. DEFINE t == CASE reg = "msip"     -> [s EXCEPT !.msip = val]
                   [] reg = "mtimecmp" -> [s EXCEPT !.mtimecmp = val]
                   [] reg = "mtime"    -> [s EXCEPT !.mtime = val]
            a == _updateMtimer(t)
<1>1. /\ Fields \subseteq DOMAIN s /\ s.mtime \in Time /\ s.mtimecmp \in Time
      /\ s.pindingIrq \in BOOLEAN
  BY DEF Good, Typed, Devices
<1>2. /\ Fields \subseteq DOMAIN t /\ t.mtime \in Time /\ t.mtimecmp \in Time
      /\ \A f \in Fields \ {"mtime", "mtimecmp", "msip"} : t[f] = s[f]
  <2>1. \/ t = [s EXCEPT !.msip = val] \/ t = [s EXCEPT !.mtimecmp = val]
        \/ t = [s EXCEPT !.mtime = val]
    OBVIOUS
  <2>. HIDE DEF t
  <2>. QED
    BY <1>1, <2>1 DEF Fields
<1>. HIDE DEF t
<1>3. t.pindingIrq = s.pindingIrq
  BY <1>2 DEF Fields
<1>4. Timed(t, a)
  BY <1>1, <1>2, <1>3, UpdateMtimerDoes
<1>. HIDE DEF a
<1>5. Same(s, a)
  BY <1>2, <1>4, TimedApart
<1>6. Fields \subseteq DOMAIN a /\ a.mode \in {U, S}
  BY <1>4, <1>5 DEF Timed, Same
<1>7. Same(a, rv_setInterrupt(a, MSI))
  BY <1>6, TrapApart
<1>8. Same(a, rv_clearInterrupt(a, MSI))
  <2>1. \A f \in MachineMode \cup {"mie", "mstatus", "mode"} : rv_clearInterrupt(a, MSI)[f] = a[f]
    BY <1>6 DEF rv_clearInterrupt, Fields, MachineMode
  <2>. QED
    BY <1>6, <2>1, SameApart
<1>9. AclintWrite(s, reg, val) = _updateMswi(a)
  BY DEF AclintWrite, a, t
<1>. QED
  BY <1>5, <1>7, <1>8, <1>9, SameTrans DEF _updateMswi

\* The CSRs: below machine mode the kernel has sstatus, sie and sip, which let
\* it at its own bits only.
LEMMA WriteCSRApart ==
  ASSUME NEW s, NEW l \in BOOLEAN, Good(s, l), s.mode \in {U, S}, NEW csr, NEW val, CsrVal(csr, val)
  PROVE  Same(s, _writeCSR(s, csr, val))
<1>. DEFINE a == _writeCSR(s, csr, val)
            mask == SMask(s)
<1>0. Fields \subseteq DOMAIN s /\ s.mstatus \in Mstatus /\ s.mie \subseteq Irqs
  BY DEF Good, Typed, Csrs
<1>1. Same(s, s) /\ Same(s, _trap(s, INST_ILL))
  BY <1>0, SameApart, TrapApart
<1>2. CASE s.trap \/ s.mode < CsrMode(csr)
  BY <1>1, <1>2 DEF _writeCSR
<1>3. CASE ~s.trap /\ ~(s.mode < CsrMode(csr))
  <2>0. csr \notin {"MSTATUS", "MIE", "MIP", "MIDELEG", "MEDELEG", "MCOUNTEREN", "MEPC"}
    <3>1. csr \in {"MSTATUS", "MIE", "MIP", "MIDELEG", "MEDELEG", "MCOUNTEREN", "MEPC"} =>
            CsrMode(csr) = 3
      BY DEF CsrMode, CounterBit, M
    <3>. QED
      BY <1>3, <3>1 DEF U, S
  <2>1. CASE csr = "SSTATUS"
    <3>. DEFINE v == [s.mstatus EXCEPT !.SIE = val.SIE, !.SPIE = val.SPIE, !.SPP = val.SPP]
                new == [v EXCEPT !.MPP = IF @ \in {U, S} THEN @ ELSE M]
                t == IF <<v.MIE, v.SIE>> = <<s.mstatus.MIE, s.mstatus.SIE>>
                     THEN s ELSE _pendingIRQ(s)
    <3>1. a = _writeMstatus(s, v)
      BY <1>3, <2>1 DEF _writeCSR, Plain
    <3>2. \A f \in MachineFlags : new[f] = s.mstatus[f]
      BY <1>0 DEF Mstatus, Modes, MachineFlags
    <3>3. t = s \/ t = _pendingIRQ(s)
      OBVIOUS
    <3>4. _writeMstatus(s, v) = [t EXCEPT !.mstatus = new]
      BY DEF _writeMstatus
    <3>. HIDE DEF v, new, t
    <3>6. Fields \subseteq DOMAIN t /\ \A f \in Fields \ {"irq", "wfi"} : t[f] = s[f]
      BY <1>0, <3>3, ZenonT(60) DEF _pendingIRQ, Fields
    <3>7. a = [t EXCEPT !.mstatus = new]
      BY <3>1, <3>4
    <3>. HIDE DEF a
    <3>5. a.mstatus = new /\ a.mode = s.mode /\ a.mie = s.mie /\ \A f \in MachineMode : a[f] = s[f]
      BY <3>6, <3>7 DEF Fields, MachineMode
    <3>. QED
      BY <3>2, <3>5 DEF Same, a
  <2>2. CASE csr = "SIE"
    <3>. DEFINE v == (val \cap mask) \cup (s.mie \ mask)
                new == (s.mie \ M_RW_MASK) \cup (v \cap M_RW_MASK)
    <3>1. a = _writeMie(s, v)
      BY <1>3, <2>2 DEF _writeCSR, Plain
    <3>2. new \ S_RW_MASK = s.mie \ S_RW_MASK
      BY <1>0 DEF SMask, M_RW_MASK
    <3>3. \/ a = [s EXCEPT !.mie = new]
          \/ a = [s EXCEPT !.irq = TRUE, !.wfi = FALSE, !.mie = new]
      BY <3>1 DEF _writeMie, _pendingIRQ
    <3>. HIDE DEF new, a
    <3>4. a.mie = new /\ a.mode = s.mode /\ a.mstatus = s.mstatus /\ \A f \in MachineMode : a[f] = s[f]
      <4>1. CASE a = [s EXCEPT !.mie = new]
        BY <1>0, <4>1, ZenonT(60) DEF Fields, MachineMode
      <4>2. CASE a = [s EXCEPT !.irq = TRUE, !.wfi = FALSE, !.mie = new]
        BY <1>0, <4>2, ZenonT(60) DEF Fields, MachineMode
      <4>. QED
        BY <3>3, <4>1, <4>2
    <3>. QED
      BY <3>2, <3>4 DEF Same, a
  <2>3. CASE csr = "SIP"
    <3>. DEFINE v == (val \cap mask) \cup (s.mip \ mask)
                new == (s.mip \ M_RW_MASK) \cup (v \cap M_RW_MASK)
    <3>1. a = _writeMip(s, v)
      BY <1>3, <2>3 DEF _writeCSR, Plain
    <3>2. \/ a = [s EXCEPT !.mip = new]
          \/ a = [s EXCEPT !.irq = TRUE, !.wfi = FALSE, !.mip = new]
      BY <3>1 DEF _writeMip, _pendingIRQ
    <3>. HIDE DEF new, a
    <3>3. \A f \in MachineMode \cup {"mie", "mstatus", "mode"} : a[f] = s[f]
      <4>1. CASE a = [s EXCEPT !.mip = new]
        BY <1>0, <4>1, ZenonT(60) DEF Fields, MachineMode
      <4>2. CASE a = [s EXCEPT !.irq = TRUE, !.wfi = FALSE, !.mip = new]
        BY <1>0, <4>2, ZenonT(60) DEF Fields, MachineMode
      <4>. QED
        BY <3>2, <4>1, <4>2
    <3>. QED
      BY <3>3, SameApart DEF a
  <2>4. CASE csr \in {"SCOUNTEREN", "SEPC"}
    <3>1. \/ a = [s EXCEPT !.scounteren = val \cap COUNTEREN_WR_MASK]
          \/ a = [s EXCEPT !.sepc = val]
      BY <1>3, <2>4 DEF _writeCSR, Plain
    <3>. HIDE DEF a
    <3>2. \A f \in MachineMode \cup {"mie", "mstatus", "mode"} : a[f] = s[f]
      BY <1>0, <3>1 DEF Fields, MachineMode
    <3>. QED
      BY <3>2, SameApart DEF a
  <2>5. CASE csr \notin {"SSTATUS", "SIE", "SIP", "MSTATUS", "MIE", "MIP", "MIDELEG", "MEDELEG",
                         "MCOUNTEREN", "SCOUNTEREN", "SEPC", "MEPC"}
    <3>1. a = s \/ a = _trap(s, INST_ILL)
      BY <1>3, <2>5 DEF _writeCSR, Plain
    <3>. QED
      BY <1>1, <3>1
  <2>. QED
    BY <2>0, <2>1, <2>2, <2>3, <2>4, <2>5
<1>. QED
  BY <1>2, <1>3

\* The CSR instructions
LEMMA CsrInstrApart ==
  ASSUME NEW s, NEW l \in BOOLEAN, Good(s, l), ~s.trap, s.mode \in {U, S},
         NEW in, in.op = "csr", WellFormed(in)
  PROVE  Same(s, CsrInstr(s, in))
<1>. DEFINE t == _readCSR(s, in.csr)
<1>0. Fields \subseteq DOMAIN s
  BY DEF Good, Typed
<1>1. Good(t, l) /\ Same(s, t)
  <2>1. t = s \/ t = _trap(s, INST_ILL)
    BY DEF _readCSR
  <2>. QED
    BY <1>0, <2>1, IllegalGood, SameApart, TrapApart
<1>2. \/ in.kind = "R"
      \/ in.kind = "RW" /\ CsrVal(in.csr, in.val)
      \/ in.kind \in {"RS", "RC"} /\ in.csr \in BitCsrs
  BY DEF WellFormed, CsrVal
<1>3. \A val : in.csr \in BitCsrs => CsrVal(in.csr, val)
  BY DEF BitCsrs, CsrVal
<1>4. t.mode \in {U, S}
  BY <1>1 DEF Same
<1>5. \A val : CsrVal(in.csr, val) => Same(s, _writeCSR(t, in.csr, val))
  BY <1>1, <1>4, WriteCSRApart, SameTrans
<1>. QED
  BY <1>1, <1>2, <1>3, <1>5 DEF CsrInstr

\* Returns from a trap: below machine mode, sret only
LEMMA XretApart ==
  ASSUME NEW s, NEW l \in BOOLEAN, Good(s, l), s.mode \in {U, S}
  PROVE  Same(s, _xret(s, S, 1)) /\ Same(s, _xret(s, M, 1))
<1>0. Fields \subseteq DOMAIN s /\ s.mstatus \in Mstatus
  BY DEF Good, Typed, Csrs
<1>1. Same(s, _trap(s, INST_ILL))
  BY <1>0, TrapApart
<1>2. _xret(s, M, 1) = _trap(s, INST_ILL)
  BY DEF _xret, U, S, M
<1>3. CASE s.mode < S \/ (s.mode = S /\ s.mstatus.TSR)
  <2>1. _xret(s, S, 1) = _trap(s, INST_ILL)
    BY <1>3 DEF _xret
  <2>. QED
    BY <1>1, <1>2, <2>1
<1>4. CASE ~(s.mode < S \/ (s.mode = S /\ s.mstatus.TSR))
  <2>. DEFINE a == _xret(s, S, 1)
  <2>1. ReturnedS(s, 1, a)
    BY <1>0, <1>4, XretDoes
  <2>. HIDE DEF a
  <2>2. a.mode \in {U, S} /\ \A f \in MachineFlags : a.mstatus[f] = s.mstatus[f]
    BY <1>0, <2>1 DEF ReturnedS, Mstatus, MachineFlags
  <2>3. a.mie = s.mie /\ \A f \in MachineMode : a[f] = s[f]
    BY <2>1 DEF ReturnedS, Fields, MachineMode
  <2>4. Same(s, a)
    BY <2>2, <2>3 DEF Same
  <2>. QED
    BY <1>1, <1>2, <2>4 DEF a
<1>. QED
  BY <1>3, <1>4

\* Every instruction
LEMMA ExecApart ==
  ASSUME NEW s, NEW l \in BOOLEAN, Good(s, l), ~s.trap, s.mode \in {U, S}, NEW in, WellFormed(in)
  PROVE  Same(s, Exec(s, in))
<1>0. Fields \subseteq DOMAIN s
  BY DEF Good, Typed
<1>1. CASE in.op = "other"
  BY <1>1, SameApart DEF Exec
<1>2. CASE in.op = "fault"
  BY <1>0, <1>2, TrapApart DEF Exec
<1>3. CASE in.op = "ecall"
  <2>. DEFINE u == [s EXCEPT !.regs = in.regs]
  <2>1. Exec(s, in) = _trap(u, EcallCause(s))
    BY <1>3 DEF Exec
  <2>2. Fields \subseteq DOMAIN u /\ \A f \in Fields \ {"regs"} : u[f] = s[f]
    BY <1>0 DEF Fields
  <2>. HIDE DEF u
  <2>3. \A f \in MachineMode \cup {"mie", "mstatus", "mode"} : u[f] = s[f]
    BY <2>2 DEF Fields, MachineMode
  <2>4. Same(s, u) /\ u.mode \in {U, S}
    BY <2>3, SameApart
  <2>. QED
    BY <2>1, <2>2, <2>4, TrapApart, SameTrans
<1>4. CASE in.op \in {"sret", "mret"}
  <2>1. Exec(s, in) = _xret(s, S, 1) \/ Exec(s, in) = _xret(s, M, 1)
    BY <1>4 DEF Exec
  <2>. QED
    BY <2>1, XretApart
<1>5. CASE in.op = "wfi"
  <2>. DEFINE u == [s EXCEPT !.wfi = TRUE]
  <2>1. Exec(s, in) = _trap(s, INST_ILL) \/ Exec(s, in) = u
    BY <1>5 DEF Exec
  <2>2. \A f \in MachineMode \cup {"mie", "mstatus", "mode"} : u[f] = s[f]
    BY <1>0 DEF Fields, MachineMode
  <2>. HIDE DEF u
  <2>. QED
    BY <1>0, <2>1, <2>2, SameApart, TrapApart
<1>6. CASE in.op = "csr"
  <2>1. Exec(s, in) = CsrInstr(s, in)
    BY <1>6 DEF Exec
  <2>. QED
    BY <1>6, <2>1, CsrInstrApart
<1>7. CASE in.op = "store"
  <2>1. Exec(s, in) = AclintWrite(s, in.reg, in.val)
    BY <1>7 DEF Exec
  <2>2. in.reg \in {"msip", "mtimecmp", "mtime"} /\ in.val \in Time
    BY <1>7 DEF WellFormed
  <2>. QED
    BY <2>1, <2>2, AclintApart
<1>8. in.op \in {"other", "sret", "mret", "wfi", "fault", "ecall", "store", "csr"}
  BY DEF WellFormed
<1>. QED
  BY <1>1, <1>2, <1>3, <1>4, <1>5, <1>6, <1>7, <1>8

\* rv_run of a guest below machine mode that is not about to enter it
LEMMA RunApart ==
  ASSUME NEW s, NEW l \in BOOLEAN, Good(s, l), ~l => s.mtime < WordMax, s.mode \in {U, S},
         ~(s.trap /\ ~s.trapDelegate), NEW in \in Instr[s.virtualSBI]
  PROVE  Same(s, rv_run(s, in))
<1>. DEFINE b == BeforeFetch(s)
            e == Exec(b, in)
<1>0. Fields \subseteq DOMAIN s /\ s.mstatus \in Mstatus /\ s.virtualSBI \in DOMAIN Instr
  BY DEF Good, Typed, Csrs, Devices
<1>1. Good(b, l) /\ b.virtualSBI = s.virtualSBI
  <2>1. CASE s.trap
    BY <2>1, DoTrapGood DEF BeforeFetch
  <2>2. CASE ~s.trap
    BY <2>2, ProcessGood DEF BeforeFetch
  <2>. QED
    BY <2>1, <2>2
<1>2. Same(s, b)
  <2>1. CASE s.trap
    <3>. DEFINE t == TrapToS(s)
    <3>1. b = [t EXCEPT !.pc = 0]
      BY <2>1 DEF BeforeFetch, _doTrap
    <3>2. TookS(s, t)
      BY <1>0, TrapToDoes
    <3>. HIDE DEF t, b
    <3>3. /\ b.mode = S /\ b.mie = s.mie /\ \A f \in MachineMode : b[f] = s[f]
          /\ b.mstatus = [s.mstatus EXCEPT !.SPIE = s.mstatus.SIE, !.SIE = FALSE, !.SPP = s.mode % 2]
      BY <3>1, <3>2 DEF TookS, Fields, MachineMode
    <3>4. \A f \in MachineFlags : b.mstatus[f] = s.mstatus[f]
      BY <1>0, <3>3 DEF Mstatus, MachineFlags
    <3>. QED
      BY <3>3, <3>4 DEF Same
  <2>2. CASE ~s.trap
    <3>1. Same(s, s) /\ \A n, d : Same(s, _interrupt(s, n, d))
      BY <1>0, SameApart, TrapApart
    <3>2. \/ b = s
          \/ \E n, d : b = _interrupt(s, n, d)
      <4>. DEFINE a == _processPendingMInterrupts(s)
      <4>1. a = s \/ \E n, d : a = _interrupt(s, n, d) /\ a.trap
        <5>1. \A n, d : _interrupt(s, n, d).trap
          BY <1>0 DEF _interrupt, rv_clearInterrupt, Fields
        <5>. QED
          BY <5>1 DEF _processPendingMInterrupts
      <4>2. \A u : \/ _processPendingSInterrupts(u) = u
                   \/ \E n, d : _processPendingSInterrupts(u) = _interrupt(u, n, d)
        BY DEF _processPendingSInterrupts
      <4>3. CASE a = s
        BY <2>2, <4>2, <4>3 DEF BeforeFetch, _processPendingInterrupts
      <4>4. CASE \E n, d : a = _interrupt(s, n, d) /\ a.trap
        BY <2>2, <4>4 DEF BeforeFetch, _processPendingInterrupts
      <4>. QED
        BY <4>1, <4>3, <4>4
    <3>. QED
      BY <3>1, <3>2
  <2>. QED
    BY <2>1, <2>2
<1>3. WellFormed(in) /\ (b.virtualSBI /\ KnownCalls /\ in.op = "ecall" => in.regs.a7 \in Known)
  BY <1>0, <1>1, GuestInstr
<1>4. b.mode \in {U, S}
  BY <1>2 DEF Same
<1>. HIDE DEF b
<1>5. CASE b.trap
  BY <1>2, <1>5 DEF rv_run, b
<1>6. CASE ~b.trap
  <2>1. Same(b, e)
    BY <1>1, <1>3, <1>4, <1>6, ExecApart
  <2>2. Same(s, e)
    BY <1>2, <2>1, SameTrans
  <2>7. Fields \subseteq DOMAIN e
    <3>1. Good(e, l)
      BY <1>1, <1>3, <1>6, ExecGood
    <3>. QED
      BY <3>1 DEF Good, Typed
  <2>. DEFINE a == [e EXCEPT !.pc = (@ + 1) % NPC]
  <2>. HIDE DEF e
  <2>3. rv_run(s, in) = e \/ rv_run(s, in) = a
    BY <1>6 DEF rv_run, b, e
  <2>4. \A f \in MachineMode \cup {"mie", "mstatus", "mode"} : a[f] = e[f]
    BY <2>7 DEF MachineMode, Fields
  <2>5. e.mode \in {U, S}
    BY <2>2 DEF Same
  <2>6. Same(e, a)
    BY <2>4, <2>5, SameApart
  <2>. QED
    BY <2>2, <2>3, <2>6, SameTrans
<1>. QED
  BY <1>5, <1>6

\* A guest in S or U mode does not touch what belongs to machine mode.
THEOREM GuestConfined == MachineSpec => Confined
<1>1. MachineInv /\ [MachineNext]_machineVars =>
       [(m.mode < M /\ m'.mode < M /\ ~(m.trap /\ ~m.trapDelegate)) =>
       /\ m'.mideleg = m.mideleg /\ m'.medeleg = m.medeleg /\ m'.mcounteren = m.mcounteren
       /\ m'.mepc = m.mepc /\ m'.mcause = m.mcause
       /\ m'.mie \ S_RW_MASK = m.mie \ S_RW_MASK
       /\ \A f \in {"MIE", "MPIE", "MPP", "TSR", "TW"} : m'.mstatus[f] = m.mstatus[f]]_machineVars
  <2>. SUFFICES ASSUME MachineInv, MachineNext, m.mode < M, ~(m.trap /\ ~m.trapDelegate)
                PROVE  Same(m, m')
    BY DEF Same, MachineMode, MachineFlags
  <2>0. /\ Good(m, late) /\ late \in BOOLEAN /\ (~late => m.mtime < WordMax)
        /\ Fields \subseteq DOMAIN m /\ m.mtime \in Time /\ m.mtimecmp \in Time
        /\ m.pindingIrq \in BOOLEAN
    BY DEF MachineInv, Good, Typed, Devices
  <2>1. m.mode \in {U, S}
    <3>1. m.mode \in Modes
      BY <2>0 DEF Good, Typed, Trapping
    <3>. QED
      BY <3>1 DEF Modes, U, S, M
  <2>2. CASE RvRun
    <3>1. PICK in \in Instr[m.virtualSBI] : m' = rv_run(m, in)
      BY <2>2 DEF RvRun
    <3>. QED
      BY <2>0, <2>1, <3>1, RunApart
  <2>3. ASSUME NEW y \in Nat, m' = aclint_tick(m, y) PROVE Same(m, m')
    <3>. DEFINE t == [m EXCEPT !.mtime = (@ + y) % TimeMod]
    <3>1. (m.mtime + y) % TimeMod \in Time
      <4>1. m.mtime + y \in Nat
        BY <2>0, TimeModAssumption DEF Time
      <4>. QED
        BY <4>1, TimeModAssumption DEF Time
    <3>2. /\ Fields \subseteq DOMAIN t /\ t.mtime = (m.mtime + y) % TimeMod
          /\ t.mtimecmp = m.mtimecmp /\ t.pindingIrq = m.pindingIrq
          /\ \A f \in Fields \ {"mtime", "mtimecmp", "msip"} : t[f] = m[f]
      BY <2>0 DEF Fields
    <3>3. m' = _updateMtimer(t)
      BY <2>3 DEF aclint_tick
    <3>. HIDE DEF t
    <3>4. Timed(t, m')
      BY <2>0, <3>1, <3>2, <3>3, UpdateMtimerDoes
    <3>. QED
      BY <2>1, <3>2, <3>4, TimedApart
  <2>4. CASE Tick \/ Idle
    <3>1. IdleTicks(m) \in Nat /\ cyclesPerStep \in Nat /\ 0 \in Nat
      BY <2>0, IdleTicksNat, MachineAssumption
    <3>2. \E y \in Nat : m' = aclint_tick(m, y)
      BY <2>4, <3>1 DEF Tick, Idle, Advance
    <3>. QED
      BY <2>3, <3>2
  <2>5. CASE PollConsole
    <3>1. m' = m \/ \E n \in Poll : m' = rv_setInterrupt(m, n)
      BY <2>5 DEF PollConsole
    <3>. QED
      BY <2>0, <2>1, <3>1, SameApart, TrapApart
  <2>. QED
    BY <2>2, <2>4, <2>5 DEF MachineNext
<1>. QED
  BY <1>1, MachineInvariant, PTL DEF MachineSpec, Confined
=============================================================================
