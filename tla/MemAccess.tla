----------------------------- MODULE MemAccess -----------------------------
(***************************************************************************)
(* The hart's accesses to the bus: _fetch of cpu/rv.c with its instruction *)
(* cache of one line, and the loads, stores, AMOs, CBO.ZERO and fences of  *)
(* cpu/rv_instr.h as the sequences of _readMem, _writeMem and _writeReg    *)
(* that they are.  Everything is counted in halfwords.  Data is left out:  *)
(* the line remembers where it was loaded from and what was stored there   *)
(* since.  An odd program counter traps before anything is read.           *)
(***************************************************************************)
EXTENDS Bus

CONSTANTS ICACHE_LINE_SIZE, DCACHE_LINE_SIZE,
          Sizes,      \* the sizes of loads, stores and AMOs, powers of two
          Reach       \* bound: the highest address the guest accesses

ASSUME AccessAssumption ==
  /\ ICACHE_LINE_SIZE \in Nat /\ ICACHE_LINE_SIZE >= 2 /\ DCACHE_LINE_SIZE \in Nat \ {0}
  /\ Sizes \subseteq 1 .. AddrMod - 1
  /\ Reach \in 0 .. AddrMod - 1

NoLine == -1            \* CPU_ADDR_MAX

VARIABLES base,         \* icache.base
          line,         \* where icache.line was loaded from
          changed,      \* history: what of the line was stored to since it was loaded
          fenced,       \* history: a fence was executed since the line was loaded
          paired,       \* history: no SC since the last LR, nor a store inside its bytes
          out           \* what the last fetch or instruction did, before the next

accessVars == <<devices, reservation, base, line, changed, fenced, paired, out>>

Booted == Len(devices) = Len(Devices)
Idle == [kind |-> "idle"]

\* rv_init clears the line and rv_reset flushes it
AccessInit ==
  /\ bus_init
  /\ base = NoLine /\ line = 0
  /\ changed = {} /\ fenced = TRUE /\ paired = FALSE
  /\ out = Idle

Register ==
  /\ bus_register
  /\ UNCHANGED <<base, line, changed, fenced, paired, out>>

-----------------------------------------------------------------------------
Readable(a, n) == _findDevice(a, n).dev # 0

\* Mutant: a line is taken to hold an instruction word of which it has half.
MutantHit(pc) == base # NoLine /\ pc >= base /\ pc - base <= ICACHE_LINE_SIZE - 1

\* The word at pc is in the line; pc - base is unsigned, so huge below base, unless
\* the line was read across the top of the address space, out of its device.
Hit(pc) == base # NoLine /\ pc >= base /\ pc - base <= ICACHE_LINE_SIZE - 2

\* Where the two halves of a word came from, and whether memory is newer
FromLine(offset) ==
  [k \in {0, 1} |-> IF offset + k < ICACHE_LINE_SIZE
                    THEN [addr |-> line + offset + k, old |-> line + offset + k \in changed]
                    ELSE [addr |-> -1, old |-> FALSE]]
FromMemory(pc) == [k \in {0, 1} |-> [addr |-> pc + k, old |-> FALSE]]

Fetched(pc, w, reads) == [kind |-> "fetch", pc |-> pc, w |-> w, reads |-> reads, fenced |-> fenced]

FetchHit(pc) ==
  /\ Hit(pc)
  /\ out' = Fetched(pc, FromLine(pc - base), {})
  /\ UNCHANGED <<base, line, changed, fenced>>

FetchLine(pc) ==
  /\ ~Hit(pc) /\ Readable(pc, ICACHE_LINE_SIZE)
  /\ base' = pc /\ line' = pc
  /\ changed' = {} /\ fenced' = FALSE
  /\ out' = Fetched(pc, FromMemory(pc), {_findDevice(pc, ICACHE_LINE_SIZE)})

\* "Very end of the memory, less than a cache line size"
FetchWord(pc) ==
  /\ ~Hit(pc) /\ ~Readable(pc, ICACHE_LINE_SIZE) /\ Readable(pc, 2)
  /\ out' = Fetched(pc, FromMemory(pc), {_findDevice(pc, 2)})
  /\ UNCHANGED <<base, line, changed, fenced>>

\* _trap(TRAP_INST_AF)
FetchFault(pc) ==
  /\ ~Hit(pc) /\ ~Readable(pc, ICACHE_LINE_SIZE) /\ ~Readable(pc, 2)
  /\ out' = [kind |-> "INST_AF", pc |-> pc]
  /\ UNCHANGED <<base, line, changed, fenced>>

_fetch(pc) ==
  /\ Booted /\ out = Idle
  /\ FetchHit(pc) \/ FetchLine(pc) \/ FetchWord(pc) \/ FetchFault(pc)
  /\ UNCHANGED <<busVars, paired>>

-----------------------------------------------------------------------------
(* An instruction as it proceeds: the trap it has raised, what it has      *)
(* written to rd, the accesses it has made, and the reservation.           *)
Begin(op) == [kind |-> "exec", op |-> op, trap |-> "none", rd |-> "kept", reads |-> {}, writes |-> {},
              res |-> reservation]

_trap(i, cause) == [i EXCEPT !.trap = cause]

_readMem(i, a, s) ==
  IF i.trap # "none" THEN i
  ELSE IF ~Readable(a, s) THEN _trap(i, "LD_AF")
  ELSE [i EXCEPT !.reads = @ \cup {_findDevice(a, s)}]

\* Mutant: a trap raised earlier in the instruction does not hold the store back.
Mutant_writeMem(i, a, s) ==
  IF ~Readable(a, s) THEN _trap(i, "ST_AF")
  ELSE [i EXCEPT !.writes = @ \cup {_findDevice(a, s)}, !.res = AfterWrite(@, a, s)]

_writeMem(i, a, s) ==
  IF i.trap # "none" THEN i
  ELSE IF ~Readable(a, s) THEN _trap(i, "ST_AF")
  ELSE [i EXCEPT !.writes = @ \cup {_findDevice(a, s)}, !.res = AfterWrite(@, a, s)]

_writeReg(i, rd, v) == IF rd = 0 \/ i.trap # "none" THEN i ELSE [i EXCEPT !.rd = v]

_doLOAD(a, s, rd) == _writeReg(_readMem(Begin("LOAD"), a, s), rd, "data")
_doSTORE(a, s) == _writeMem(Begin("STORE"), a, s)

\* A funct5 that is none of the operations, and LR with an rs2, trap, and go on
\* to the end of the function.
_doAMO(op, a, s, rd) ==
  LET i == _readMem(Begin(op), a, s)
      granted == bus_reservationCheck(reservation, a, s)
      asked == [i EXCEPT !.res = Invalidated(@)]
  IN IF a % s # 0 THEN _trap(Begin(op), "ST_ALLIGN")
     ELSE
     CASE op = "rmw"  -> _writeMem(_writeReg(i, rd, "data"), a, s)
       [] op = "ill"  -> _writeMem(_writeReg(_trap(i, "INST_ILL"), rd, "zero"), a, s)
       [] op = "LR"   -> _writeReg([i EXCEPT !.res = bus_reservationCreate(a, s)], rd, "data")
       [] op = "SC"   -> IF granted THEN _writeMem(_writeReg(asked, rd, "zero"), a, s)
                         ELSE _writeReg(asked, rd, "one")

\* CBO.ZERO, if menvcfg and senvcfg permit it in the mode
_doCBOZERO(a, permitted) ==
  IF permitted THEN _writeMem(Begin("CBO"), a - (a % DCACHE_LINE_SIZE), DCACHE_LINE_SIZE)
  ELSE _trap(Begin("CBO"), "INST_ILL")

-----------------------------------------------------------------------------
\* The addresses that the accesses in S touch
Touched(S) == UNION {devices[d.dev].base + d.addr .. devices[d.dev].base + d.addr + d.size - 1 : d \in S}

Reserved == reservation.addr .. reservation.addr + reservation.size - 1

Execute(i) ==
  /\ Booted /\ out = Idle
  /\ out' = i
  /\ reservation' = i.res
  /\ changed' = changed \cup (Touched(i.writes) \cap line .. line + ICACHE_LINE_SIZE - 1)
  /\ UNCHANGED <<devices, base, line, fenced>>

\* A store whose bytes all lie in the reservation ends it.
KeepsPaired(i) == \A d \in i.writes : ~(Touched({d}) \subseteq Reserved)

Load(a, s, rd) == Execute(_doLOAD(a, s, rd)) /\ UNCHANGED paired
Store(a, s) == Execute(_doSTORE(a, s)) /\ paired' = (paired /\ KeepsPaired(out'))
ReadModifyWrite(a, s, rd) == Execute(_doAMO("rmw", a, s, rd)) /\ paired' = (paired /\ KeepsPaired(out'))
IllegalAMO(a, s, rd) == Execute(_doAMO("ill", a, s, rd)) /\ UNCHANGED paired
LR(a, s, rd) == Execute(_doAMO("LR", a, s, rd)) /\ paired' = (paired \/ a % s = 0)
SC(a, s, rd) == Execute(_doAMO("SC", a, s, rd)) /\ paired' = (paired /\ a % s # 0)
CBOZERO(a, permitted) == Execute(_doCBOZERO(a, permitted)) /\ paired' = (paired /\ KeepsPaired(out'))

\* FENCE and FENCE.I
_flushIcache ==
  /\ Booted /\ out = Idle
  /\ base' = NoLine
  /\ fenced' = TRUE
  /\ UNCHANGED <<busVars, line, changed, paired, out>>

NextInstr ==
  /\ out # Idle
  /\ out' = Idle
  /\ UNCHANGED <<busVars, base, line, changed, fenced, paired>>

AccessNext ==
  \/ Register \/ NextInstr \/ _flushIcache
  \/ \E pc \in 0 .. Reach : _fetch(pc)
  \/ \E a \in 0 .. Reach, s \in Sizes, rd \in {0, 1} :
       \/ Load(a, s, rd) \/ ReadModifyWrite(a, s, rd) \/ IllegalAMO(a, s, rd)
       \/ LR(a, s, rd) \/ SC(a, s, rd)
  \/ \E a \in 0 .. Reach, s \in Sizes : Store(a, s)
  \/ \E a \in 0 .. Reach, permitted \in BOOLEAN : CBOZERO(a, permitted)

AccessSpec == AccessInit /\ [][AccessNext]_accessVars

-----------------------------------------------------------------------------
\* assert(addr < self->dev.size); assert(size <= self->dev.size - addr)
\* (memory.c:352-353 and 378-379): no access that the bus passes on leaves the
\* device it is passed to, whether of a load, a store, an AMO, CBO.ZERO or a fetch
\* of a line or a word.  It does not hold: for an access that reaches the top of
\* the address space the sum of _includes (bus.c:16) wraps below the device's end.
InDevice ==
  \A d \in CASE out.kind = "exec" -> out.reads \cup out.writes
             [] out.kind = "fetch" -> out.reads
             [] OTHER -> {} :
    /\ d.addr < devices[d.dev].size
    /\ d.size <= devices[d.dev].size - d.addr

\* An instruction is all or nothing.  One that traps has written no register
\* and no device, although _doAMO goes on after a trap and writes rd before
\* memory; one that does not trap and stores what it computed from memory
\* stores where it read; and SC reports success exactly if it stored.
AllOrNothing ==
  out.kind = "exec" =>
    /\ out.trap # "none" => out.rd = "kept" /\ out.writes = {}
    /\ out.writes # {} /\ out.reads # {} => out.writes = out.reads
    /\ out.rd = "one" => out.writes = {}
    /\ out.rd = "zero" => out.writes # {}

\* An SC stores only if it follows an LR with no other SC in between and no
\* store inside the bytes reserved: never twice for one LR.
ScPaired ==
  [][(out'.kind = "exec" /\ out'.op = "SC" /\ out'.writes # {}) => paired]_accessVars

\* The hart executes what memory holds: every halfword _fetch returns comes
\* from its own address and is the current one, unless the guest has stored to
\* it and neither fenced nor had the line reloaded since; and a four-byte
\* instruction that lies in a device is never an access fault.  Jumps back into
\* the line, past its end and to the end of RAM, where no line fits, included.
FetchesMemory ==
  /\ out.kind = "fetch" =>
       \A k \in {0, 1} : /\ out.w[k].addr = out.pc + k
                         /\ out.w[k].old => ~out.fenced
  /\ out.kind = "INST_AF" => ~Readable(out.pc, 2)
=============================================================================
