------------------------------- MODULE Aclint -------------------------------
(***************************************************************************)
(* dev/aclint.c: the machine timer and the machine software interrupt of   *)
(* the one hart (ACLINT_HARTS is 1).  The interrupt is raised on the edge  *)
(* only: pindingIrq remembers that it was, and the hart clears its own mip *)
(* bit when it takes the interrupt.                                        *)
(***************************************************************************)
EXTENDS RvHart

CONSTANT TimeMod   \* 2^64: mtime and mtimecmp are uint64_t

ASSUME TimeModAssumption == TimeMod \in Nat /\ TimeMod >= 4

Time == 0 .. TimeMod - 1

aclint_init == [mtime |-> 0, mtimecmp |-> 0, pindingIrq |-> FALSE, msip |-> 0]

\* Mutant: the timer never forgets that it has raised the interrupt.
Mutant_updateMtimer(m) ==
  IF m.mtime >= m.mtimecmp /\ ~m.pindingIrq
  THEN rv_setInterrupt([m EXCEPT !.pindingIrq = TRUE], MTI) ELSE m

\* Mutant: going past the deadline is noticed one tick late.
Mutant_updateMtimer_late(m) ==
  IF m.mtime > m.mtimecmp
  THEN IF m.pindingIrq THEN m ELSE rv_setInterrupt([m EXCEPT !.pindingIrq = TRUE], MTI)
  ELSE IF m.pindingIrq THEN rv_clearInterrupt([m EXCEPT !.pindingIrq = FALSE], MTI) ELSE m

_updateMtimer(m) ==
  IF m.mtime >= m.mtimecmp
  THEN IF m.pindingIrq THEN m ELSE rv_setInterrupt([m EXCEPT !.pindingIrq = TRUE], MTI)
  ELSE IF m.pindingIrq THEN rv_clearInterrupt([m EXCEPT !.pindingIrq = FALSE], MTI) ELSE m

_updateMswi(m) == IF m.msip # 0 THEN rv_setInterrupt(m, MSI) ELSE rv_clearInterrupt(m, MSI)

\* _cbWrite, by the register the store falls on
AclintWrite(m, reg, val) ==
  _updateMswi(_updateMtimer(
    CASE reg = "msip"     -> [m EXCEPT !.msip = val]
      [] reg = "mtimecmp" -> [m EXCEPT !.mtimecmp = val]
      [] reg = "mtime"    -> [m EXCEPT !.mtime = val]))

\* cycles is an unsigned int, which in the DOS build has 16 bits: an idle sleep of more
\* ticks (main.c:412) moves the clock by less there.  Here the clock moves by all of them.
aclint_tick(m, cycles) == _updateMtimer([m EXCEPT !.mtime = (@ + cycles) % TimeMod])

\* unsigned: a deadline that has passed is almost 2^64 ticks away
aclint_mtimeRemains(m) == (m.mtimecmp - m.mtime) % TimeMod

aclint_setMtimecmp(m, val) == _updateMtimer([m EXCEPT !.mtimecmp = val])
=============================================================================
