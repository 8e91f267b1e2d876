-------------------------------- MODULE Plic --------------------------------
(***************************************************************************)
(* dev/plic.c: the interrupt controller between the UART and the hart.     *)
(* Context 0 raises the hart's machine, context 1 its supervisor external  *)
(* interrupt.  The words of pending, enable and pendingClaims are sets of  *)
(* interrupt numbers.  The code packs four numbers to a word and declares  *)
(* one word, so the set stands for it as long as numbers stay below four;  *)
(* PLIC_INTERRUPTS is 1.  Number 0 is reserved, but reading claim when     *)
(* nothing is due "claims" it.                                             *)
(***************************************************************************)
EXTENDS RvHart

CONSTANT PLIC_INTERRUPTS

ASSUME PlicAssumption == PLIC_INTERRUPTS \in 1 .. 3

Source == 1 .. PLIC_INTERRUPTS
Context == {0, 1}

ContextCause(c) == IF c = 1 THEN SEI ELSE MEI

plic_init ==
  [priority |-> [n \in Source |-> 0], pending |-> {},
   contexts |-> [c \in Context |->
                   [enable |-> {}, threshold |-> 0, claim |-> 0, pendingClaims |-> {}]]]

-----------------------------------------------------------------------------
\* The pending interrupt of the highest priority, the lowest number among
\* equals; 0 if none has a priority above 0.
Best(m) ==
  LET P == {n \in m.pending \cap Source : m.priority[n] > 0}
      higher(a, b) == \/ m.priority[a] > m.priority[b]
                      \/ m.priority[a] = m.priority[b] /\ a < b
  IN IF P = {} THEN 0 ELSE CHOOSE n \in P : \A k \in P \ {n} : higher(n, k)

\* Whether interrupt n is to be delivered to context c.
Due(m, c, n) ==
  /\ n # 0
  /\ m.priority[n] > m.contexts[c].threshold
  /\ n \notin m.contexts[c].pendingClaims
  /\ n \in m.contexts[c].enable

\* Mutant: the two contexts raise each other's interrupt.
MutantDeliver(m, c, n) ==
  IF Due(m, c, n)
  THEN rv_setInterrupt([m EXCEPT !.contexts[c].claim = n], ContextCause(1 - c))
  ELSE rv_clearInterrupt([m EXCEPT !.contexts[c].claim = 0], ContextCause(1 - c))

Deliver(m, c, n) ==
  IF Due(m, c, n)
  THEN rv_setInterrupt([m EXCEPT !.contexts[c].claim = n], ContextCause(c))
  ELSE rv_clearInterrupt([m EXCEPT !.contexts[c].claim = 0], ContextCause(c))

_processInterrupts(m) == Deliver(Deliver(m, 0, Best(m)), 1, Best(m))

\* A read of the claim register of context c, after its value was returned.
_claimInterrupts(m, c) ==
  LET n == m.contexts[c].claim
  IN _processInterrupts([m EXCEPT !.contexts[c].pendingClaims = @ \cup {n},
                                  !.pending = @ \ {n}])

\* Mutant: completion drops an interrupt that arrived while in service.
Mutant_completeInterrupts(m, c, n) ==
  _processInterrupts(
    IF n \in m.contexts[c].enable
    THEN [m EXCEPT !.contexts[c].pendingClaims = @ \ {n}, !.pending = @ \ {n}] ELSE m)

\* A write to the claim register of context c.
_completeInterrupts(m, c, n) ==
  _processInterrupts(
    IF n \in m.contexts[c].enable THEN [m EXCEPT !.contexts[c].pendingClaims = @ \ {n}] ELSE m)

\* Mutant: a new priority or threshold has no effect until the next interrupt.
MutantPlicWrite(m, c, reg, val) ==
  CASE reg = "priority"  -> [m EXCEPT !.priority[1] = val]
    [] reg = "enable"    -> [m EXCEPT !.contexts[c].enable = val]
    [] reg = "threshold" -> [m EXCEPT !.contexts[c].threshold = val]
    [] reg = "claim"     -> _completeInterrupts(m, c, val)

\* _cbWrite, by the register the store falls on: it reprocesses always
PlicWrite(m, c, reg, val) ==
  CASE reg = "priority"  -> _processInterrupts([m EXCEPT !.priority[1] = val])
    [] reg = "enable"    -> _processInterrupts([m EXCEPT !.contexts[c].enable = val])
    [] reg = "threshold" -> _processInterrupts([m EXCEPT !.contexts[c].threshold = val])
    [] reg = "claim"     -> _completeInterrupts(m, c, val)

\* _cbRead: only the read of a claim register has an effect
PlicRead(m, c, reg) == IF reg = "claim" THEN _claimInterrupts(m, c) ELSE m

plic_interrupt(m, n) ==
  IF n \notin Source THEN m ELSE _processInterrupts([m EXCEPT !.pending = @ \cup {n}])
=============================================================================
