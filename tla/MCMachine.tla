----------------------------- MODULE MCMachine -----------------------------
(***************************************************************************)
(* Guests for the runs of Machine.                                         *)
(***************************************************************************)
EXTENDS Machine

Ecall(eid, fid, arg) ==
  [op |-> "ecall", regs |-> [a7 |-> eid, a6 |-> fid, a0 |-> arg, a1 |-> 0]]
Csr(csr, val) == [op |-> "csr", kind |-> "RW", csr |-> csr, val |-> val]
CsrOp(kind, csr, val) == [op |-> "csr", kind |-> kind, csr |-> csr, val |-> val]
Sstatus(sie, spp) == Csr("SSTATUS", [SIE |-> sie, SPIE |-> sie, SPP |-> spp])

\* A kernel that tries every interrupt enable bit, faults, calls the SBI and
\* returns to user mode and to itself.
KernelGuest ==
  {[op |-> "other"], [op |-> "sret"], [op |-> "mret"], [op |-> "fault", cause |-> LD_AF],
   Ecall(SBI_EID_TIMER, 0, 1), Ecall(SBI_EID_BASE, 3, SBI_EID_IPI), Ecall(SBI_EID_DBGCON, 0, 1),
   Csr("SIE", {}), Csr("SIE", Irqs), Csr("SIP", {STI, MEI}), Csr("MIE", Irqs),
   CsrOp("RS", "SIE", Irqs), CsrOp("RC", "SIP", Irqs), CsrOp("R", "TIME", {}),
   Csr("TIME", {}), Csr("SEPC", 1),
   Sstatus(TRUE, U), Sstatus(FALSE, S),
   [op |-> "store", reg |-> "msip", val |-> 1]}

\* A kernel that lives off its timer: it arms it in the future, in the past
\* and never, through the SBI and behind its back, and waits for it.
TimerGuest ==
  {Ecall(SBI_EID_TIMER, 0, t) : t \in {1, 3, TimeMod - 2}}
    \cup {[op |-> "other"], [op |-> "wfi"],
          [op |-> "store", reg |-> "mtimecmp", val |-> 2],
          Csr("SIE", {STI}), Sstatus(TRUE, S)}

\* A kernel that calls the extensions the SBI's probe reports, and no others.
ProbingGuest == {[op |-> "other"]} \cup {Ecall(eid, 0, 0) : eid \in EID}

\* Firmware of its own: a program that runs in all three modes.
Mst(mie, sie, mpp) ==
  Csr("MSTATUS", [MIE |-> mie, MPIE |-> mie, MPP |-> mpp, SIE |-> sie, SPIE |-> sie,
                  SPP |-> U, TSR |-> FALSE, TW |-> FALSE])
FirmwareGuest ==
  {[op |-> "other"], [op |-> "sret"], [op |-> "mret"], [op |-> "fault", cause |-> LD_AF],
   Ecall(0, 0, 0), Csr("MIE", {STI, MTI}), Csr("MIP", {STI}),
   Mst(TRUE, FALSE, S), Mst(FALSE, TRUE, U), Mst(TRUE, TRUE, 2),
   Csr("MIDELEG", {STI}), Csr("MEPC", 1),
   CsrOp("RC", "MIDELEG", Irqs), Csr("MEDELEG", {LD_AF, CALL_U})}

\* What the runs start: a kernel on the SBI or firmware without it, or a kernel.
AnyGuest == [sbi \in BOOLEAN |-> IF sbi THEN KernelGuest ELSE FirmwareGuest]
TimerKernel == [sbi \in {TRUE} |-> TimerGuest]
ProbingKernel == [sbi \in {TRUE} |-> ProbingGuest]
=============================================================================
