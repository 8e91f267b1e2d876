-------------------------- MODULE MemAccessProofs --------------------------
(***************************************************************************)
(* The hart's accesses to the bus, for every board, cache line and size of *)
(* access: an instruction that traps has done nothing, what is fetched is  *)
(* what memory holds, and an SC stores once for each LR.  The last holds   *)
(* for a guest that keeps below the top of the address space: an access    *)
(* across it wraps in _includes, which InDevice is the finding about.      *)
(***************************************************************************)
EXTENDS MemAccess, WellFoundedInduction, TLAPS

\* The guest accesses no address from which an access wraps.
NoWrap ==
  /\ \A s \in Sizes : Reach + s < AddrMod
  /\ Reach + DCACHE_LINE_SIZE < AddrMod

Device == [base : Nat, size : Nat \ {0}]

\* What is registered so far is the beginning of the board.
BoardOK ==
  /\ devices \in Seq(Device)
  /\ Len(devices) <= Len(Devices)
  /\ \A k \in 1 .. Len(devices) : devices[k] = Devices[k]

\* A line in the cache was loaded from its own address, after the last fence.
LineOK ==
  /\ base # NoLine => base = line /\ ~fenced
  /\ base = NoLine \/ base \in Nat
  /\ fenced \in BOOLEAN

\* A fetch or instruction is over only once the board is complete.
OutOK == out = Idle \/ Booted

AccessInv == BoardOK /\ LineOK /\ OutOK /\ FetchesMemory /\ AllOrNothing

-----------------------------------------------------------------------------
\* An instruction in progress: what AllOrNothing says of one that is over.
Sound(i) ==
  /\ i.kind = "exec"
  /\ i.trap # "none" => i.rd = "kept" /\ i.writes = {}
  /\ i.writes # {} /\ i.reads # {} => i.writes = i.reads
  /\ i.rd = "one" => i.writes = {}
  /\ i.rd = "zero" => i.writes # {}

\* A set of numbers that is not empty has a least element.
LEMMA LeastElement ==
  ASSUME NEW T, T \subseteq Nat, T # {} PROVE \E x \in T : \A j \in T : x <= j
<1>1. PICK x \in T : \A j \in T : ~(<<j, x>> \in OpToRel(<, Nat))
  BY NatLessThanWellFounded, WFMin, Zenon
<1>2. ASSUME NEW j \in Nat, NEW y \in Nat, j < y PROVE <<j, y>> \in OpToRel(<, Nat)
  BY <1>2 DEF OpToRel
<1>3. \A j \in T : ~(j < x)
  BY <1>1, <1>2
<1>. QED
  BY <1>3

\* Below AddrMod nothing wraps.
LEMMA ModSmall == ASSUME NEW x \in 0 .. AddrMod - 1 PROVE x % AddrMod = x
BY BusAssumption

\* A record with the fields of an instruction in progress
Instruction(i) ==
  i = [kind |-> i.kind, op |-> i.op, trap |-> i.trap, rd |-> i.rd, reads |-> i.reads,
       writes |-> i.writes, res |-> i.res]

\* Begin starts an instruction that has done nothing.
LEMMA BeginFields ==
  ASSUME NEW op
  PROVE  LET j == Begin(op) IN
         /\ Instruction(j) /\ j.kind = "exec" /\ j.op = op /\ j.trap = "none" /\ j.rd = "kept"
         /\ j.reads = {} /\ j.writes = {} /\ j.res = reservation
BY DEF Begin, Instruction

\* _trap notes the cause, and nothing else.
LEMMA TrapFields ==
  ASSUME NEW i, Instruction(i), NEW cause
  PROVE  LET j == _trap(i, cause) IN
         /\ Instruction(j) /\ j.kind = i.kind /\ j.op = i.op /\ j.trap = cause /\ j.rd = i.rd
         /\ j.reads = i.reads /\ j.writes = i.writes /\ j.res = i.res
BY DEF _trap, Instruction

\* A change of the reservation is nothing else.
LEMMA ResFields ==
  ASSUME NEW i, Instruction(i), NEW r
  PROVE  LET j == [i EXCEPT !.res = r] IN
         /\ Instruction(j) /\ j.kind = i.kind /\ j.op = i.op /\ j.trap = i.trap /\ j.rd = i.rd
         /\ j.reads = i.reads /\ j.writes = i.writes /\ j.res = r
BY DEF Instruction

\* _writeReg writes the register unless the instruction has trapped.
LEMMA RegFields ==
  ASSUME NEW i, Instruction(i), NEW rd, NEW v
  PROVE  LET j == _writeReg(i, rd, v) IN
         /\ Instruction(j) /\ j.kind = i.kind /\ j.op = i.op /\ j.trap = i.trap
         /\ j.reads = i.reads /\ j.writes = i.writes /\ j.res = i.res
         /\ (j.rd = i.rd \/ (i.trap = "none" /\ j.rd = v))
<1>1. CASE rd = 0 \/ i.trap # "none"
  BY <1>1 DEF _writeReg
<1>2. CASE ~(rd = 0 \/ i.trap # "none")
  <2>1. _writeReg(i, rd, v) = [i EXCEPT !.rd = v]
    BY <1>2 DEF _writeReg
  <2>. QED
    BY <1>2, <2>1 DEF Instruction
<1>. QED
  BY <1>1, <1>2

\* _readMem reads the device that was found, or traps, unless it is too late.
LEMMA ReadFields ==
  ASSUME NEW i, Instruction(i), i.reads = {}, NEW a, NEW s
  PROVE  LET j == _readMem(i, a, s) IN
         /\ Instruction(j) /\ j.kind = i.kind /\ j.op = i.op /\ j.rd = i.rd
         /\ j.writes = i.writes /\ j.res = i.res
         /\ \/ j.trap # "none" /\ j.reads = {}
            \/ i.trap = "none" /\ j.trap = "none" /\ Readable(a, s) /\ j.reads = {_findDevice(a, s)}
<1>1. CASE i.trap # "none"
  BY <1>1 DEF _readMem
<1>2. CASE i.trap = "none" /\ ~Readable(a, s)
  <2>1. _readMem(i, a, s) = _trap(i, "LD_AF")
    BY <1>2 DEF _readMem
  <2>. QED
    BY <2>1, TrapFields
<1>3. CASE i.trap = "none" /\ Readable(a, s)
  <2>. DEFINE d == _findDevice(a, s)
              j == _readMem(i, a, s)
  <2>1. j = [i EXCEPT !.reads = @ \cup {d}]
    BY <1>3 DEF _readMem
  <2>2. i.reads \cup {d} = {d}
    OBVIOUS
  <2>. HIDE DEF d, j
  <2>3. /\ Instruction(j) /\ j.kind = i.kind /\ j.op = i.op /\ j.rd = i.rd /\ j.trap = i.trap
        /\ j.writes = i.writes /\ j.res = i.res /\ j.reads = i.reads \cup {d}
    BY <2>1 DEF Instruction
  <2>. QED
    BY <1>3, <2>2, <2>3, Zenon DEF d, j
<1>. QED
  BY <1>1, <1>2, <1>3

\* _writeMem writes the device that was found and has the bus check the reservation,
\* or traps, unless it is too late.
LEMMA WriteFields ==
  ASSUME NEW i, Instruction(i), i.writes = {}, NEW a, NEW s
  PROVE  LET j == _writeMem(i, a, s) IN
         /\ Instruction(j) /\ j.kind = i.kind /\ j.op = i.op /\ j.rd = i.rd /\ j.reads = i.reads
         /\ \/ /\ j.trap # "none" /\ j.writes = {} /\ j.res = i.res
               /\ (i.trap # "none" \/ ~Readable(a, s))
            \/ /\ i.trap = "none" /\ j.trap = "none" /\ Readable(a, s)
               /\ j.writes = {_findDevice(a, s)} /\ j.res = AfterWrite(i.res, a, s)
<1>1. CASE i.trap # "none"
  BY <1>1 DEF _writeMem
<1>2. CASE i.trap = "none" /\ ~Readable(a, s)
  <2>1. _writeMem(i, a, s) = _trap(i, "ST_AF")
    BY <1>2 DEF _writeMem
  <2>. QED
    BY <1>2, <2>1, TrapFields
<1>3. CASE i.trap = "none" /\ Readable(a, s)
  <2>. DEFINE d == _findDevice(a, s)
              r == AfterWrite(i.res, a, s)
              j == _writeMem(i, a, s)
  <2>1. j = [i EXCEPT !.writes = @ \cup {d}, !.res = AfterWrite(@, a, s)]
    BY <1>3 DEF _writeMem
  <2>2. i.writes \cup {d} = {d}
    OBVIOUS
  <2>. HIDE DEF d, j
  <2>3. /\ Instruction(j) /\ j.kind = i.kind /\ j.op = i.op /\ j.rd = i.rd /\ j.trap = i.trap
        /\ j.reads = i.reads /\ j.writes = i.writes \cup {d} /\ j.res = r
    BY <2>1 DEF Instruction
  <2>. QED
    BY <1>3, <2>2, <2>3, Zenon DEF d, j
<1>. QED
  BY <1>1, <1>2, <1>3

\* _doLOAD leaves an instruction that is all or nothing, whatever it meets.
LEMMA LoadSound ==
  ASSUME NEW a, NEW s, NEW rd PROVE Sound(_doLOAD(a, s, rd))
<1>. DEFINE i == _readMem(Begin("LOAD"), a, s)
            j == _writeReg(i, rd, "data")
<1>1. Instruction(i) /\ i.kind = "exec" /\ i.rd = "kept" /\ i.writes = {}
  BY BeginFields, ReadFields
<1>2. j.kind = "exec" /\ j.trap = i.trap /\ j.writes = {} /\ (j.rd = "kept" \/ (i.trap = "none" /\ j.rd = "data"))
  BY <1>1, RegFields
<1>. QED
  BY <1>2 DEF Sound, _doLOAD

\* _doSTORE leaves an instruction that is all or nothing.
LEMMA StoreSound ==
  ASSUME NEW a, NEW s PROVE Sound(_doSTORE(a, s))
<1>. DEFINE i == Begin("STORE")
            j == _writeMem(i, a, s)
<1>1. Instruction(i) /\ i.kind = "exec" /\ i.rd = "kept" /\ i.reads = {} /\ i.writes = {}
  BY BeginFields
<1>2. j.kind = "exec" /\ j.rd = "kept" /\ j.reads = {} /\ (j.trap = "none" \/ j.writes = {})
  BY <1>1, WriteFields
<1>. QED
  BY <1>2 DEF Sound, _doSTORE

\* CBO.ZERO leaves an instruction that is all or nothing, permitted or not.
LEMMA CboSound ==
  ASSUME NEW a, NEW permitted \in BOOLEAN PROVE Sound(_doCBOZERO(a, permitted))
<1>. DEFINE i == Begin("CBO")
            j == _doCBOZERO(a, permitted)
<1>1. Instruction(i) /\ i.kind = "exec" /\ i.rd = "kept" /\ i.reads = {} /\ i.writes = {}
  BY BeginFields
<1>2. \/ j = _writeMem(i, a - (a % DCACHE_LINE_SIZE), DCACHE_LINE_SIZE)
      \/ j = _trap(i, "INST_ILL")
  BY DEF _doCBOZERO
<1>3. j.kind = "exec" /\ j.rd = "kept" /\ j.reads = {} /\ (j.trap = "none" \/ j.writes = {})
  BY <1>1, <1>2, WriteFields, TrapFields
<1>. QED
  BY <1>3 DEF Sound

\* An AMO that is not aligned does nothing but trap.
LEMMA AmoMisaligned ==
  ASSUME NEW op, NEW a, NEW s, NEW rd, a % s # 0
  PROVE  _doAMO(op, a, s, rd) = _trap(Begin(op), "ST_ALLIGN")
BY DEF _doAMO

\* What each of the aligned AMOs is made of
LEMMA AmoSteps ==
  ASSUME NEW a, NEW s, NEW rd, a % s = 0
  PROVE  /\ _doAMO("rmw", a, s, rd) = _writeMem(_writeReg(_readMem(Begin("rmw"), a, s), rd, "data"), a, s)
         /\ _doAMO("ill", a, s, rd) =
              _writeMem(_writeReg(_trap(_readMem(Begin("ill"), a, s), "INST_ILL"), rd, "zero"), a, s)
         /\ _doAMO("LR", a, s, rd) =
              _writeReg([_readMem(Begin("LR"), a, s) EXCEPT !.res = bus_reservationCreate(a, s)], rd, "data")
         /\ LET i == _readMem(Begin("SC"), a, s)
                asked == [i EXCEPT !.res = Invalidated(i.res)]
            IN _doAMO("SC", a, s, rd) = IF bus_reservationCheck(reservation, a, s)
                                        THEN _writeMem(_writeReg(asked, rd, "zero"), a, s)
                                        ELSE _writeReg(asked, rd, "one")
BY DEF _doAMO

\* The part of an aligned AMO that reads
LEMMA AmoReads ==
  ASSUME NEW op, NEW a, NEW s
  PROVE  LET i == _readMem(Begin(op), a, s) IN
         /\ Instruction(i) /\ i.kind = "exec" /\ i.op = op /\ i.rd = "kept" /\ i.writes = {}
         /\ i.res = reservation
         /\ \/ i.trap # "none" /\ i.reads = {}
            \/ i.trap = "none" /\ Readable(a, s) /\ i.reads = {_findDevice(a, s)}
BY BeginFields, ReadFields

\* _doAMO, which goes on after a trap, leaves an instruction that is all or nothing.
LEMMA AmoSound ==
  ASSUME NEW op \in {"rmw", "ill", "LR", "SC"}, NEW a, NEW s, NEW rd
  PROVE  Sound(_doAMO(op, a, s, rd))
<1>. DEFINE i == _readMem(Begin(op), a, s)
            j == _doAMO(op, a, s, rd)
<1>1. CASE a % s # 0
  <2>1. j = _trap(Begin(op), "ST_ALLIGN")
    BY <1>1, AmoMisaligned
  <2>2. j.kind = "exec" /\ j.rd = "kept" /\ j.reads = {} /\ j.writes = {}
    BY <2>1, BeginFields, TrapFields
  <2>. QED
    BY <2>2 DEF Sound
<1>2. CASE a % s = 0 /\ op = "rmw"
  <2>. DEFINE w == _writeReg(i, rd, "data")
  <2>1. j = _writeMem(w, a, s)
    BY <1>2, AmoSteps
  <2>2. /\ Instruction(w) /\ w.kind = "exec" /\ w.trap = i.trap /\ w.reads = i.reads /\ w.writes = {}
        /\ (w.rd = "kept" \/ (i.trap = "none" /\ w.rd = "data"))
    BY AmoReads, RegFields
  <2>. HIDE DEF w, j, i
  <2>3. /\ j.kind = "exec" /\ j.rd = w.rd /\ j.reads = i.reads
        /\ \/ j.trap # "none" /\ j.writes = {} /\ (i.trap # "none" \/ ~Readable(a, s))
           \/ i.trap = "none" /\ j.trap = "none" /\ j.writes = {_findDevice(a, s)}
    BY <2>1, <2>2, WriteFields
  <2>4. i.trap # "none" \/ (Readable(a, s) /\ i.reads = {_findDevice(a, s)})
    BY AmoReads DEF i
  <2>. QED
    BY <2>2, <2>3, <2>4, Zenon DEF Sound, j
<1>3. CASE a % s = 0 /\ op = "ill"
  <2>. DEFINE t == _trap(i, "INST_ILL")
              w == _writeReg(t, rd, "zero")
  <2>1. j = _writeMem(w, a, s)
    BY <1>3, AmoSteps
  <2>2. Instruction(t) /\ t.kind = "exec" /\ t.trap # "none" /\ t.rd = "kept" /\ t.writes = {}
    BY AmoReads, TrapFields
  <2>. HIDE DEF t
  <2>3. Instruction(w) /\ w.kind = "exec" /\ w.trap # "none" /\ w.rd = "kept" /\ w.writes = {}
    BY <2>2, RegFields
  <2>. HIDE DEF w
  <2>4. j.kind = "exec" /\ j.rd = "kept" /\ j.writes = {}
    BY <2>1, <2>3, WriteFields
  <2>. QED
    BY <2>4 DEF Sound
<1>4. CASE a % s = 0 /\ op = "LR"
  <2>. DEFINE t == [i EXCEPT !.res = bus_reservationCreate(a, s)]
  <2>1. j = _writeReg(t, rd, "data")
    BY <1>4, AmoSteps
  <2>2. Instruction(t) /\ t.kind = "exec" /\ t.rd = "kept" /\ t.writes = {}
    BY AmoReads, ResFields
  <2>. HIDE DEF t
  <2>3. j.kind = "exec" /\ j.writes = {} /\ (j.rd = "kept" \/ (j.trap = "none" /\ j.rd = "data"))
    BY <2>1, <2>2, RegFields
  <2>. QED
    BY <2>3 DEF Sound
<1>5. CASE a % s = 0 /\ op = "SC"
  <2>. DEFINE t == [i EXCEPT !.res = Invalidated(i.res)]
              w == _writeReg(t, rd, "zero")
  <2>1. j = IF bus_reservationCheck(reservation, a, s) THEN _writeMem(w, a, s) ELSE _writeReg(t, rd, "one")
    BY <1>5, AmoSteps
  <2>2. /\ Instruction(t) /\ t.kind = "exec" /\ t.rd = "kept" /\ t.writes = {} /\ t.trap = i.trap
        /\ t.reads = i.reads
    BY AmoReads, ResFields
  <2>. HIDE DEF t
  <2>3. /\ Instruction(w) /\ w.kind = "exec" /\ w.trap = i.trap /\ w.reads = i.reads /\ w.writes = {}
        /\ (w.rd = "kept" \/ (i.trap = "none" /\ w.rd = "zero"))
    BY <2>2, RegFields
  <2>4. i.trap # "none" \/ (Readable(a, s) /\ i.reads = {_findDevice(a, s)})
    BY AmoReads
  <2>. HIDE DEF w, j, i
  <2>5. CASE bus_reservationCheck(reservation, a, s)
    <3>1. /\ j.kind = "exec" /\ j.rd = w.rd /\ j.reads = i.reads
          /\ \/ j.trap # "none" /\ j.writes = {} /\ (i.trap # "none" \/ ~Readable(a, s))
             \/ i.trap = "none" /\ j.trap = "none" /\ j.writes = {_findDevice(a, s)}
      BY <2>1, <2>3, <2>5, WriteFields
    <3>. QED
      BY <2>3, <2>4, <3>1, Zenon DEF Sound, j
  <2>6. CASE ~bus_reservationCheck(reservation, a, s)
    <3>1. /\ j.kind = "exec" /\ j.trap = i.trap /\ j.writes = {}
          /\ (j.rd = "kept" \/ (i.trap = "none" /\ j.rd = "one"))
      BY <2>1, <2>2, <2>6, RegFields
    <3>. QED
      BY <3>1 DEF Sound, j
  <2>. QED
    BY <2>5, <2>6
<1>. QED
  BY <1>1, <1>2, <1>3, <1>4, <1>5

-----------------------------------------------------------------------------
\* Executing an instruction that is all or nothing keeps the invariant.
LEMMA ExecuteInv ==
  ASSUME AccessInv, NEW i, Sound(i), Execute(i)
  PROVE  AccessInv'
<1>1. /\ Booted /\ out' = i /\ UNCHANGED <<devices, base, line, fenced>>
  BY DEF Execute
<1>2. BoardOK' /\ LineOK' /\ Booted'
  BY <1>1 DEF AccessInv, BoardOK, LineOK, Booted
<1>3. FetchesMemory' /\ AllOrNothing'
  BY <1>1 DEF Sound, FetchesMemory, AllOrNothing
<1>. QED
  BY <1>2, <1>3 DEF AccessInv, OutOK

\* _fetch keeps the invariant on each of its paths: the hit, the line, the word at the
\* end of memory and the fault.
LEMMA FetchInv ==
  ASSUME AccessInv, NEW pc \in 0 .. Reach, _fetch(pc)
  PROVE  AccessInv'
<1>1. Booted /\ UNCHANGED <<devices, reservation>>
  BY DEF _fetch, busVars
<1>2. BoardOK' /\ Booted' /\ OutOK'
  BY <1>1 DEF AccessInv, BoardOK, Booted, OutOK
<1>3. CASE FetchHit(pc)
  <2>1. /\ base # NoLine /\ base = line /\ base \in Nat /\ ~fenced
        /\ pc >= base /\ pc - base <= ICACHE_LINE_SIZE - 2
    BY <1>3 DEF FetchHit, Hit, AccessInv, LineOK, NoLine
  <2>2. out' = Fetched(pc, FromLine(pc - base), {})
    BY <1>3 DEF FetchHit
  <2>3. \A k \in {0, 1} : FromLine(pc - base)[k].addr = pc + k
    BY <2>1, AccessAssumption DEF FromLine
  <2>4. /\ out'.kind = "fetch" /\ out'.pc = pc /\ out'.w = FromLine(pc - base)
        /\ ~out'.fenced
    BY <2>1, <2>2 DEF Fetched
  <2>5. FetchesMemory'
    BY <2>3, <2>4 DEF FetchesMemory
  <2>. QED
    BY <1>2, <1>3, <2>4, <2>5 DEF AccessInv, AllOrNothing, FetchHit, LineOK
<1>4. ASSUME NEW reads, out' = Fetched(pc, FromMemory(pc), reads) PROVE FetchesMemory' /\ AllOrNothing'
  <2>1. /\ out'.kind = "fetch" /\ out'.pc = pc /\ out'.w = FromMemory(pc)
    BY <1>4 DEF Fetched
  <2>. QED
    BY <2>1 DEF FetchesMemory, FromMemory, AllOrNothing
<1>5. CASE FetchLine(pc)
  <2>1. LineOK'
    <3>1. pc \in Nat
      BY BusAssumption, AccessAssumption
    <3>. QED
      BY <1>5, <3>1 DEF FetchLine, LineOK
  <2>. QED
    BY <1>2, <1>4, <1>5, <2>1 DEF AccessInv, FetchLine
<1>6. CASE FetchWord(pc)
  BY <1>2, <1>4, <1>6 DEF AccessInv, FetchWord, LineOK
<1>7. CASE FetchFault(pc)
  <2>1. /\ out'.kind = "INST_AF" /\ out'.pc = pc /\ ~Readable(pc, 2)
    BY <1>7 DEF FetchFault
  <2>2. ~Readable(pc, 2)'
    BY <1>1, <2>1 DEF Readable, _findDevice
  <2>. QED
    BY <1>2, <1>7, <2>1, <2>2 DEF AccessInv, FetchFault, LineOK, FetchesMemory, AllOrNothing
<1>. QED
  BY <1>3, <1>5, <1>6, <1>7 DEF _fetch

\* Registering the next device keeps what is registered the beginning of the board.
LEMMA RegisterBoard ==
  ASSUME BoardOK, Len(devices) < Len(Devices),
         devices' = Append(devices, Devices[Len(devices) + 1])
  PROVE  BoardOK'
<1>1. Devices \in Seq(Device) /\ devices \in Seq(Device)
  BY BusAssumption DEF Device, BoardOK
<1>2. Devices[Len(devices) + 1] \in Device
  BY <1>1
<1>3. /\ devices' \in Seq(Device) /\ Len(devices') = Len(devices) + 1
      /\ devices'[Len(devices) + 1] = Devices[Len(devices) + 1]
      /\ \A k \in 1 .. Len(devices) : devices'[k] = devices[k]
  BY <1>1, <1>2
<1>. QED
  BY <1>1, <1>3 DEF BoardOK

\* The invariant holds after rv_reset.
LEMMA AccessInitInv == AccessInit => AccessInv
BY BusAssumption DEF AccessInit, bus_init, AccessInv, BoardOK, LineOK, OutOK, FetchesMemory,
                     AllOrNothing, Idle, NoLine

\* Every step keeps the invariant.
LEMMA AccessStepInv == AccessInv /\ [AccessNext]_accessVars => AccessInv'
<1>. SUFFICES ASSUME AccessInv, [AccessNext]_accessVars PROVE AccessInv'
  OBVIOUS
<1>1. CASE Register
  <2>1. /\ Len(devices) < Len(Devices)
        /\ devices' = Append(devices, Devices[Len(devices) + 1])
        /\ UNCHANGED <<base, line, fenced, out>>
    BY <1>1 DEF Register, bus_register
  <2>2. out = Idle
    BY <2>1 DEF AccessInv, OutOK, Booted
  <2>3. BoardOK'
    BY <2>1, RegisterBoard DEF AccessInv
  <2>. QED
    BY <2>1, <2>2, <2>3 DEF AccessInv, LineOK, OutOK, FetchesMemory, AllOrNothing, Idle
<1>2. CASE NextInstr
  BY <1>2 DEF NextInstr, busVars, AccessInv, BoardOK, LineOK, OutOK, FetchesMemory, AllOrNothing, Idle
<1>3. CASE _flushIcache
  BY <1>3 DEF _flushIcache, busVars, AccessInv, BoardOK, LineOK, OutOK, FetchesMemory, AllOrNothing, Idle
<1>4. ASSUME NEW pc \in 0 .. Reach, _fetch(pc) PROVE AccessInv'
  BY <1>4, FetchInv
<1>5. ASSUME NEW a \in 0 .. Reach, NEW s \in Sizes, NEW rd \in {0, 1},
             \/ Load(a, s, rd) \/ ReadModifyWrite(a, s, rd) \/ IllegalAMO(a, s, rd)
             \/ LR(a, s, rd) \/ SC(a, s, rd)
      PROVE  AccessInv'
  BY <1>5, ExecuteInv, LoadSound, AmoSound DEF Load, ReadModifyWrite, IllegalAMO, LR, SC
<1>6. ASSUME NEW a \in 0 .. Reach, NEW s \in Sizes, Store(a, s) PROVE AccessInv'
  BY <1>6, ExecuteInv, StoreSound DEF Store
<1>7. ASSUME NEW a \in 0 .. Reach, NEW permitted \in BOOLEAN, CBOZERO(a, permitted) PROVE AccessInv'
  BY <1>7, ExecuteInv, CboSound DEF CBOZERO
<1>8. CASE UNCHANGED accessVars
  BY <1>8 DEF accessVars, AccessInv, BoardOK, LineOK, OutOK, FetchesMemory, AllOrNothing, Booted, Readable,
              _findDevice
<1>. QED
  BY <1>1, <1>2, <1>3, <1>4, <1>5, <1>6, <1>7, <1>8 DEF AccessNext

\* For every board and cache line: what the hart executes is what memory holds,
\* unless the guest has stored to it without a fence, and a word that lies in a
\* device is never an access fault.
THEOREM FetchCorrect == AccessSpec => []FetchesMemory
<1>1. AccessInv => FetchesMemory
  BY DEF AccessInv
<1>. QED
  BY <1>1, AccessInitInv, AccessStepInv, PTL DEF AccessSpec

\* For every board and size of access: an instruction that traps has written
\* neither register nor device, and one that does not has done all it does.
THEOREM InstructionsAtomic == AccessSpec => []AllOrNothing
<1>1. AccessInv => AllOrNothing
  BY DEF AccessInv
<1>. QED
  BY <1>1, AccessInitInv, AccessStepInv, PTL DEF AccessSpec

-----------------------------------------------------------------------------
\* An access that does not wrap and is passed on lies inside its device.
LEMMA FoundInDevice ==
  ASSUME BoardOK, NEW a \in Nat, NEW s \in Nat \ {0}, a + s < AddrMod, Readable(a, s)
  PROVE  LET d == _findDevice(a, s) IN
           /\ d.dev \in 1 .. Len(devices)
           /\ d.addr = a - devices[d.dev].base /\ d.size = s
           /\ a >= devices[d.dev].base
           /\ a + s <= devices[d.dev].base + devices[d.dev].size
<1>. DEFINE d == _findDevice(a, s)
            I == {k \in 1 .. Len(devices) : _includes(devices[k].base, devices[k].size, a, s)}
            k == CHOOSE k \in I : \A j \in I : k <= j
<1>1. d = IF I = {} THEN None ELSE [dev |-> k, addr |-> (a - devices[k].base) % AddrMod, size |-> s]
  BY DEF _findDevice
<1>2. I # {}
  BY <1>1 DEF Readable, None
<1>3. k \in I
  <2>1. I \subseteq Nat
    OBVIOUS
  <2>2. \E x \in I : \A j \in I : x <= j
    BY <1>2, <2>1, LeastElement
  <2>. QED
    BY <2>2
<1>5. k \in 1 .. Len(devices) /\ _includes(devices[k].base, devices[k].size, a, s)
  BY <1>3
<1>. HIDE DEF d, I, k
<1>4. /\ d.dev = k /\ d.addr = (a - devices[k].base) % AddrMod /\ d.size = s
  BY <1>1, <1>2
<1>6. devices[k] \in Device /\ devices[k].base + devices[k].size < AddrMod
  <2>1. devices \in Seq(Device) /\ devices[k] = Devices[k] /\ k \in 1 .. Len(Devices)
    <3>1. Len(devices) \in Nat /\ Len(Devices) \in Nat
      BY BusAssumption DEF BoardOK
    <3>. QED
      BY <1>5, <3>1 DEF BoardOK
  <2>2. Devices[k].base + Devices[k].size < AddrMod
    BY <2>1, BusAssumption
  <2>. QED
    BY <1>5, <2>1, <2>2
<1>7. /\ devices[k].base \in Nat /\ devices[k].size \in Nat \ {0}
      /\ devices[k].base + devices[k].size \in 0 .. AddrMod - 1
      /\ a + s \in 0 .. AddrMod - 1
  BY <1>6, BusAssumption DEF Device
<1>8. a >= devices[k].base /\ a + s <= devices[k].base + devices[k].size
  <2>1. (a + s) % AddrMod = a + s
    BY <1>7, ModSmall
  <2>2. (devices[k].base + devices[k].size) % AddrMod = devices[k].base + devices[k].size
    BY <1>7, ModSmall
  <2>. QED
    BY <1>5, <2>1, <2>2 DEF _includes
<1>9. a - devices[k].base \in 0 .. AddrMod - 1
  <2>. DEFINE b == devices[k].base
              l == b + devices[k].size
  <2>1. b \in Nat /\ l \in 0 .. AddrMod - 1 /\ a >= b /\ a + s <= l /\ AddrMod \in Nat
    BY <1>7, <1>8, BusAssumption
  <2>. HIDE DEF b, l
  <2>2. a - b \in 0 .. AddrMod - 1
    BY <2>1
  <2>. QED
    BY <2>2 DEF b
<1>10. (a - devices[k].base) % AddrMod = a - devices[k].base
  BY <1>9, ModSmall
<1>. QED
  BY <1>4, <1>5, <1>8, <1>10 DEF d

-----------------------------------------------------------------------------
\* The accesses in S are the one at a of size s, if a device was found for it.
Passed(S, a, s) == \A d \in S : Readable(a, s) /\ d = _findDevice(a, s)

\* i has stored s at a, or has not stored; the bus has treated the reservation
\* r accordingly.
Wrote(i, r, a, s) ==
  \/ i.writes = {} /\ i.res = r
  \/ Readable(a, s) /\ i.writes = {_findDevice(a, s)} /\ i.res = AfterWrite(r, a, s)

\* What _doLOAD passes to the bus.
LEMMA LoadEffect ==
  ASSUME NEW a, NEW s, NEW rd
  PROVE  LET i == _doLOAD(a, s, rd) IN
         i.kind = "exec" /\ i.op = "LOAD" /\ Passed(i.reads, a, s) /\ i.writes = {} /\ i.res = reservation
<1>. DEFINE i == _readMem(Begin("LOAD"), a, s)
            j == _writeReg(i, rd, "data")
<1>1. Passed(i.reads, a, s)
  BY AmoReads DEF Passed
<1>2. /\ j.kind = "exec" /\ j.op = "LOAD" /\ j.reads = i.reads /\ j.writes = {} /\ j.res = reservation
  BY AmoReads, RegFields
<1>. QED
  BY <1>1, <1>2 DEF _doLOAD

\* What _doSTORE passes to the bus.
LEMMA StoreEffect ==
  ASSUME NEW a, NEW s
  PROVE  LET i == _doSTORE(a, s) IN i.kind = "exec" /\ i.op = "STORE" /\ i.reads = {} /\ Wrote(i, reservation, a, s)
<1>. DEFINE i == Begin("STORE")
<1>1. Instruction(i) /\ i.kind = "exec" /\ i.op = "STORE" /\ i.reads = {} /\ i.writes = {} /\ i.res = reservation
  BY BeginFields
<1>. HIDE DEF i
<1>. QED
  BY <1>1, WriteFields DEF _doSTORE, Wrote, i

\* What CBO.ZERO passes to the bus: the line that the address lies in.
LEMMA CboEffect ==
  ASSUME NEW a, NEW permitted \in BOOLEAN
  PROVE  LET i == _doCBOZERO(a, permitted) IN
         /\ i.kind = "exec" /\ i.op = "CBO" /\ i.reads = {}
         /\ Wrote(i, reservation, a - (a % DCACHE_LINE_SIZE), DCACHE_LINE_SIZE)
<1>. DEFINE i == Begin("CBO")
            j == _doCBOZERO(a, permitted)
            line0 == a - (a % DCACHE_LINE_SIZE)
<1>1. Instruction(i) /\ i.kind = "exec" /\ i.op = "CBO" /\ i.reads = {} /\ i.writes = {} /\ i.res = reservation
  BY BeginFields
<1>2. j = _writeMem(i, line0, DCACHE_LINE_SIZE) \/ j = _trap(i, "INST_ILL")
  BY DEF _doCBOZERO
<1>. HIDE DEF i, j, line0
<1>3. CASE j = _writeMem(i, line0, DCACHE_LINE_SIZE)
  BY <1>1, <1>3, WriteFields DEF Wrote, j, line0
<1>4. CASE j = _trap(i, "INST_ILL")
  <2>1. j.kind = "exec" /\ j.op = "CBO" /\ j.reads = {} /\ j.writes = {} /\ j.res = reservation
    BY <1>1, <1>4, TrapFields
  <2>. QED
    BY <2>1 DEF Wrote, j
<1>. QED
  BY <1>2, <1>3, <1>4

\* A misaligned AMO passes nothing to the bus.
LEMMA MisalignedEffect ==
  ASSUME NEW op, NEW a, NEW s, NEW rd, a % s # 0
  PROVE  LET i == _doAMO(op, a, s, rd) IN
         i.kind = "exec" /\ i.op = op /\ i.reads = {} /\ i.writes = {} /\ i.res = reservation
<1>1. _doAMO(op, a, s, rd) = _trap(Begin(op), "ST_ALLIGN")
  BY AmoMisaligned
<1>. QED
  BY <1>1, BeginFields, TrapFields

\* What the AMOs that compute pass to the bus.
LEMMA RmwEffect ==
  ASSUME NEW a, NEW s, NEW rd
  PROVE  LET i == _doAMO("rmw", a, s, rd) IN
         i.kind = "exec" /\ i.op = "rmw" /\ Passed(i.reads, a, s) /\ Wrote(i, reservation, a, s)
<1>. DEFINE i == _readMem(Begin("rmw"), a, s)
            w == _writeReg(i, rd, "data")
            j == _doAMO("rmw", a, s, rd)
<1>1. Passed(i.reads, a, s)
  BY AmoReads DEF Passed
<1>2. CASE a % s # 0
  BY <1>2, MisalignedEffect DEF Passed, Wrote
<1>3. CASE a % s = 0
  <2>1. j = _writeMem(w, a, s)
    BY <1>3, AmoSteps
  <2>2. /\ Instruction(w) /\ w.kind = "exec" /\ w.op = "rmw" /\ w.reads = i.reads /\ w.writes = {}
        /\ w.res = reservation
    BY AmoReads, RegFields
  <2>. HIDE DEF i, w, j
  <2>3. j.kind = "exec" /\ j.op = "rmw" /\ j.reads = i.reads
    BY <2>1, <2>2, WriteFields
  <2>4. Wrote(j, reservation, a, s)
    BY <2>1, <2>2, WriteFields DEF Wrote
  <2>. QED
    BY <1>1, <2>3, <2>4 DEF j
<1>. QED
  BY <1>2, <1>3

\* An illegal AMO reads, and then does nothing else.
LEMMA IllEffect ==
  ASSUME NEW a, NEW s, NEW rd
  PROVE  LET i == _doAMO("ill", a, s, rd) IN
         /\ i.kind = "exec" /\ i.op = "ill" /\ Passed(i.reads, a, s)
         /\ i.writes = {} /\ i.res = reservation
<1>. DEFINE i == _readMem(Begin("ill"), a, s)
            t == _trap(i, "INST_ILL")
            w == _writeReg(t, rd, "zero")
            j == _doAMO("ill", a, s, rd)
<1>1. Passed(i.reads, a, s)
  BY AmoReads DEF Passed
<1>2. CASE a % s # 0
  BY <1>2, MisalignedEffect DEF Passed
<1>3. CASE a % s = 0
  <2>1. j = _writeMem(w, a, s)
    BY <1>3, AmoSteps
  <2>2. /\ Instruction(t) /\ t.kind = "exec" /\ t.op = "ill" /\ t.reads = i.reads /\ t.writes = {}
        /\ t.res = reservation /\ t.trap # "none"
    BY AmoReads, TrapFields
  <2>. HIDE DEF i, t
  <2>3. /\ Instruction(w) /\ w.kind = "exec" /\ w.op = "ill" /\ w.reads = i.reads /\ w.writes = {}
        /\ w.res = reservation /\ w.trap # "none"
    BY <2>2, RegFields
  <2>. HIDE DEF w, j
  <2>4. j.kind = "exec" /\ j.op = "ill" /\ j.reads = i.reads /\ j.writes = {} /\ j.res = reservation
    BY <2>1, <2>3, WriteFields
  <2>. QED
    BY <1>1, <2>4 DEF j
<1>. QED
  BY <1>2, <1>3

\* LR reads, and reserves what it reads if that is aligned.
LEMMA LREffect ==
  ASSUME NEW a, NEW s, NEW rd
  PROVE  LET i == _doAMO("LR", a, s, rd) IN
         /\ i.kind = "exec" /\ i.op = "LR" /\ Passed(i.reads, a, s) /\ i.writes = {}
         /\ a % s = 0 => i.res = bus_reservationCreate(a, s)
         /\ a % s # 0 => i.res = reservation
<1>. DEFINE i == _readMem(Begin("LR"), a, s)
            t == [i EXCEPT !.res = bus_reservationCreate(a, s)]
            j == _doAMO("LR", a, s, rd)
<1>1. Passed(i.reads, a, s)
  BY AmoReads DEF Passed
<1>2. CASE a % s # 0
  BY <1>2, MisalignedEffect DEF Passed
<1>3. CASE a % s = 0
  <2>1. j = _writeReg(t, rd, "data")
    BY <1>3, AmoSteps
  <2>2. /\ Instruction(t) /\ t.kind = "exec" /\ t.op = "LR" /\ t.reads = i.reads /\ t.writes = {}
        /\ t.res = bus_reservationCreate(a, s)
    BY AmoReads, ResFields
  <2>. HIDE DEF i, t, j
  <2>3. /\ j.kind = "exec" /\ j.op = "LR" /\ j.reads = i.reads /\ j.writes = {}
        /\ j.res = bus_reservationCreate(a, s)
    BY <2>1, <2>2, RegFields
  <2>. QED
    BY <1>1, <1>3, <2>3 DEF j
<1>. QED
  BY <1>2, <1>3

\* SC stores only if the bus grants it, and drops the reservation if it is aligned.
LEMMA SCEffect ==
  ASSUME NEW a, NEW s, NEW rd
  PROVE  LET i == _doAMO("SC", a, s, rd) IN
         /\ i.kind = "exec" /\ i.op = "SC" /\ Passed(i.reads, a, s) /\ Passed(i.writes, a, s)
         /\ i.writes # {} => bus_reservationCheck(reservation, a, s)
         /\ a % s # 0 => i.writes = {} /\ i.res = reservation
         /\ a % s = 0 => Wrote(i, Invalidated(reservation), a, s)
<1>. DEFINE i == _readMem(Begin("SC"), a, s)
            r == Invalidated(reservation)
            t == [i EXCEPT !.res = Invalidated(i.res)]
            w == _writeReg(t, rd, "zero")
            j == _doAMO("SC", a, s, rd)
<1>1. Passed(i.reads, a, s)
  BY AmoReads DEF Passed
<1>2. CASE a % s # 0
  BY <1>2, MisalignedEffect DEF Passed
<1>3. CASE a % s = 0
  <2>1. j = IF bus_reservationCheck(reservation, a, s) THEN _writeMem(w, a, s) ELSE _writeReg(t, rd, "one")
    BY <1>3, AmoSteps
  <2>2. Instruction(t) /\ t.kind = "exec" /\ t.op = "SC" /\ t.reads = i.reads /\ t.writes = {} /\ t.res = r
    BY AmoReads, ResFields
  <2>. HIDE DEF i, t, r
  <2>3. Instruction(w) /\ w.kind = "exec" /\ w.op = "SC" /\ w.reads = i.reads /\ w.writes = {} /\ w.res = r
    BY <2>2, RegFields
  <2>. HIDE DEF w, j
  <2>4. CASE bus_reservationCheck(reservation, a, s)
    <3>1. j.kind = "exec" /\ j.op = "SC" /\ j.reads = i.reads
      BY <2>1, <2>3, <2>4, WriteFields
    <3>2. Wrote(j, r, a, s)
      BY <2>1, <2>3, <2>4, WriteFields DEF Wrote
    <3>3. Passed(j.writes, a, s)
      BY <3>2 DEF Wrote, Passed
    <3>. QED
      BY <1>1, <1>3, <2>4, <3>1, <3>2, <3>3 DEF j, r
  <2>5. CASE ~bus_reservationCheck(reservation, a, s)
    <3>1. j.kind = "exec" /\ j.op = "SC" /\ j.reads = i.reads /\ j.writes = {} /\ j.res = r
      BY <2>1, <2>2, <2>5, RegFields
    <3>2. Wrote(j, r, a, s) /\ Passed(j.writes, a, s)
      BY <3>1 DEF Wrote, Passed
    <3>. QED
      BY <1>1, <1>3, <3>1, <3>2 DEF j, r
  <2>. QED
    BY <2>4, <2>5
<1>. QED
  BY <1>2, <1>3

-----------------------------------------------------------------------------
Reservation == [addr : Nat, size : Nat, valid : BOOLEAN]

\* A reservation that an SC would be granted was made by an LR with no SC since
\* and no store inside it: the bus has the same opinion as the history.
ResOK ==
  /\ reservation \in Reservation
  /\ reservation.addr + reservation.size < AddrMod
  /\ paired \in BOOLEAN
  /\ reservation.valid => paired

\* What holds in addition while no access wraps.
NoWrapInv == BoardOK /\ OutOK /\ ResOK

\* An access as NoWrap permits it
Straight(a, s) == a \in Nat /\ s \in Nat \ {0} /\ a + s < AddrMod

\* A store inside the reservation is one that the bus takes the reservation for.
LEMMA StoreBreaks ==
  ASSUME BoardOK, ResOK, NEW a, NEW s, Straight(a, s), Readable(a, s),
         Touched({_findDevice(a, s)}) \subseteq Reserved
  PROVE  _includes(reservation.addr, reservation.size, a, s)
<1>. DEFINE d == _findDevice(a, s)
            v == devices[d.dev]
            r == reservation
<1>1. d.dev \in 1 .. Len(devices) /\ d.addr = a - v.base /\ d.size = s
  BY FoundInDevice DEF Straight
<1>2. v \in Device
  BY <1>1 DEF BoardOK
<1>3. v.base \in Nat /\ a \in Nat /\ s \in Nat \ {0} /\ a + s < AddrMod
  BY <1>2 DEF Device, Straight
<1>4. r.addr \in Nat /\ r.size \in Nat /\ r.addr + r.size < AddrMod
  BY DEF ResOK, Reservation
<1>5. v.base + d.addr .. v.base + d.addr + d.size - 1 \subseteq r.addr .. r.addr + r.size - 1
  BY DEF Touched, Reserved
<1>. HIDE DEF d, v, r
<1>6. a \in r.addr .. r.addr + r.size - 1 /\ a + s - 1 \in r.addr .. r.addr + r.size - 1
  <2>1. v.base + d.addr = a /\ v.base + d.addr + d.size - 1 = a + s - 1
    BY <1>1, <1>3
  <2>. QED
    BY <1>3, <1>5, <2>1
<1>7. a >= r.addr /\ a + s <= r.addr + r.size
  BY <1>3, <1>4, <1>6
<1>8. (a + s) % AddrMod = a + s /\ (r.addr + r.size) % AddrMod = r.addr + r.size
  <2>1. a + s \in 0 .. AddrMod - 1 /\ r.addr + r.size \in 0 .. AddrMod - 1
    BY <1>3, <1>4, BusAssumption
  <2>. QED
    BY <2>1, ModSmall
<1>. QED
  BY <1>7, <1>8 DEF _includes, r

\* A store keeps ResOK, whichever the instruction.
LEMMA WroteOK ==
  ASSUME BoardOK, ResOK, NEW a, NEW s, Straight(a, s), NEW i, Wrote(i, reservation, a, s)
  PROVE  /\ i.res \in Reservation
         /\ i.res.addr + i.res.size < AddrMod
         /\ i.res.valid => paired /\ KeepsPaired(i)
<1>1. CASE i.writes = {} /\ i.res = reservation
  BY <1>1 DEF ResOK, KeepsPaired
<1>2. CASE Readable(a, s) /\ i.writes = {_findDevice(a, s)} /\ i.res = AfterWrite(reservation, a, s)
  <2>1. /\ i.res \in Reservation /\ i.res.addr = reservation.addr /\ i.res.size = reservation.size
        /\ i.res.valid => reservation.valid /\ ~_includes(reservation.addr, reservation.size, a, s)
    BY <1>2 DEF AfterWrite, ResOK, Reservation
  <2>2. i.res.valid => ~(Touched({_findDevice(a, s)}) \subseteq Reserved)
    BY <1>2, <2>1, StoreBreaks
  <2>. QED
    BY <1>2, <2>1, <2>2 DEF ResOK, KeepsPaired
<1>. QED
  BY <1>1, <1>2 DEF Wrote

\* What executing an instruction has to show.
LEMMA ExecuteNoWrap ==
  ASSUME NoWrapInv, NEW i, Execute(i),
         i.res \in Reservation, i.res.addr + i.res.size < AddrMod,
         paired' \in BOOLEAN, i.res.valid => paired'
  PROVE  NoWrapInv'
<1>1. Booted /\ out' = i /\ reservation' = i.res /\ devices' = devices
  BY DEF Execute
<1>2. BoardOK' /\ OutOK'
  BY <1>1 DEF NoWrapInv, BoardOK, OutOK, Booted
<1>3. ResOK'
  BY <1>1 DEF ResOK
<1>. QED
  BY <1>2, <1>3 DEF NoWrapInv

\* Below Reach every access is straight, the cache line's that CBO.ZERO writes included.
LEMMA NoWrapStraight ==
  ASSUME NoWrap, NEW a \in 0 .. Reach
  PROVE  /\ \A s \in Sizes : Straight(a, s)
         /\ Straight(a - (a % DCACHE_LINE_SIZE), DCACHE_LINE_SIZE)
<1>1. Reach \in Nat /\ a \in Nat /\ AddrMod \in Nat /\ a <= Reach
  BY BusAssumption, AccessAssumption
<1>2. ASSUME NEW s \in Sizes PROVE Straight(a, s)
  <2>1. s \in Nat \ {0}
    BY AccessAssumption, BusAssumption
  <2>. QED
    BY <1>1, <2>1 DEF NoWrap, Straight
<1>3. DCACHE_LINE_SIZE \in Nat \ {0}
  BY AccessAssumption
<1>4. a % DCACHE_LINE_SIZE \in 0 .. a
  BY <1>1, <1>3
<1>. QED
  BY <1>1, <1>2, <1>3, <1>4 DEF NoWrap, Straight

\* Every step keeps what holds while no access wraps.
LEMMA NoWrapStep == ASSUME NoWrap, NoWrapInv, [AccessNext]_accessVars PROVE NoWrapInv'
<1>. USE DEF NoWrapInv
<1>1. CASE Register
  <2>1. /\ Len(devices) < Len(Devices) /\ devices' = Append(devices, Devices[Len(devices) + 1])
        /\ UNCHANGED <<reservation, paired, out>>
    BY <1>1 DEF Register, bus_register
  <2>2. out = Idle
    BY <2>1 DEF OutOK, Booted
  <2>3. BoardOK'
    BY <2>1, RegisterBoard
  <2>. QED
    BY <2>1, <2>2, <2>3 DEF OutOK, ResOK, Idle
<1>2. CASE NextInstr
  BY <1>2 DEF NextInstr, busVars, BoardOK, OutOK, ResOK, Idle
<1>3. CASE _flushIcache
  BY <1>3 DEF _flushIcache, busVars, BoardOK, OutOK, ResOK, Idle
<1>4. ASSUME NEW pc \in 0 .. Reach, _fetch(pc) PROVE NoWrapInv'
  <2>1. Booted /\ UNCHANGED <<devices, reservation, paired>>
    BY <1>4 DEF _fetch, busVars
  <2>. QED
    BY <2>1 DEF BoardOK, OutOK, ResOK, Booted
<1>5. ASSUME NEW a \in 0 .. Reach, NEW s \in Sizes, NEW rd \in {0, 1}, Load(a, s, rd) PROVE NoWrapInv'
  <2>. DEFINE i == _doLOAD(a, s, rd)
  <2>1. i.res = reservation
    BY LoadEffect
  <2>. HIDE DEF i
  <2>2. Execute(i) /\ paired' = paired
    BY <1>5 DEF Load, i
  <2>. QED
    BY <2>1, <2>2, ExecuteNoWrap DEF ResOK
<1>6. ASSUME NEW a \in 0 .. Reach, NEW s \in Sizes, NEW rd \in {0, 1}, ReadModifyWrite(a, s, rd)
      PROVE  NoWrapInv'
  <2>. DEFINE i == _doAMO("rmw", a, s, rd)
  <2>1. Wrote(i, reservation, a, s)
    BY RmwEffect
  <2>. HIDE DEF i
  <2>2. Execute(i) /\ paired' = (paired /\ KeepsPaired(i))
    BY <1>6 DEF ReadModifyWrite, i, Execute
  <2>. QED
    BY <2>1, <2>2, NoWrapStraight, WroteOK, ExecuteNoWrap DEF ResOK, KeepsPaired
<1>7. ASSUME NEW a \in 0 .. Reach, NEW s \in Sizes, NEW rd \in {0, 1}, IllegalAMO(a, s, rd) PROVE NoWrapInv'
  <2>. DEFINE i == _doAMO("ill", a, s, rd)
  <2>1. i.res = reservation
    BY IllEffect
  <2>. HIDE DEF i
  <2>2. Execute(i) /\ paired' = paired
    BY <1>7 DEF IllegalAMO, i
  <2>. QED
    BY <2>1, <2>2, ExecuteNoWrap DEF ResOK
<1>8. ASSUME NEW a \in 0 .. Reach, NEW s \in Sizes, NEW rd \in {0, 1}, LR(a, s, rd) PROVE NoWrapInv'
  <2>. DEFINE i == _doAMO("LR", a, s, rd)
  <2>1. /\ a % s = 0 => i.res = bus_reservationCreate(a, s)
        /\ a % s # 0 => i.res = reservation
    BY LREffect
  <2>. HIDE DEF i
  <2>2. Execute(i) /\ paired' = (paired \/ a % s = 0)
    BY <1>8 DEF LR, i
  <2>3. Straight(a, s)
    BY NoWrapStraight
  <2>4. i.res \in Reservation /\ i.res.addr + i.res.size < AddrMod /\ (i.res.valid => paired')
    <3>1. CASE a % s = 0
      <4>1. i.res = [addr |-> a, size |-> s, valid |-> TRUE]
        BY <2>1, <3>1 DEF bus_reservationCreate
      <4>2. paired' = TRUE
        BY <2>2, <3>1
      <4>. QED
        BY <2>3, <4>1, <4>2 DEF Reservation, Straight
    <3>2. CASE a % s # 0
      BY <2>1, <2>2, <3>2 DEF ResOK
    <3>. QED
      BY <3>1, <3>2
  <2>. QED
    BY <2>1, <2>2, <2>4, ExecuteNoWrap DEF ResOK
<1>9. ASSUME NEW a \in 0 .. Reach, NEW s \in Sizes, NEW rd \in {0, 1}, SC(a, s, rd) PROVE NoWrapInv'
  <2>. DEFINE i == _doAMO("SC", a, s, rd)
  <2>1. /\ a % s # 0 => i.res = reservation
        /\ a % s = 0 => Wrote(i, Invalidated(reservation), a, s)
    BY SCEffect
  <2>. HIDE DEF i
  <2>2. Execute(i) /\ paired' = (paired /\ a % s # 0)
    BY <1>9 DEF SC, i
  <2>3. /\ i.res \in Reservation /\ i.res.addr + i.res.size < AddrMod
        /\ a % s = 0 => ~i.res.valid
    BY <2>1 DEF Wrote, Invalidated, AfterWrite, Reservation, ResOK
  <2>. QED
    BY <2>1, <2>2, <2>3, ExecuteNoWrap DEF ResOK
<1>10. ASSUME NEW a \in 0 .. Reach, NEW s \in Sizes, Store(a, s) PROVE NoWrapInv'
  <2>. DEFINE i == _doSTORE(a, s)
  <2>1. Wrote(i, reservation, a, s)
    BY StoreEffect
  <2>. HIDE DEF i
  <2>2. Execute(i) /\ paired' = (paired /\ KeepsPaired(i))
    BY <1>10 DEF Store, i, Execute
  <2>. QED
    BY <2>1, <2>2, NoWrapStraight, WroteOK, ExecuteNoWrap DEF ResOK, KeepsPaired
<1>11. ASSUME NEW a \in 0 .. Reach, NEW permitted \in BOOLEAN, CBOZERO(a, permitted) PROVE NoWrapInv'
  <2>. DEFINE i == _doCBOZERO(a, permitted)
              b == a - (a % DCACHE_LINE_SIZE)
  <2>1. Wrote(i, reservation, b, DCACHE_LINE_SIZE)
    BY CboEffect
  <2>2. Straight(b, DCACHE_LINE_SIZE)
    BY NoWrapStraight
  <2>. HIDE DEF i, b
  <2>3. Execute(i) /\ paired' = (paired /\ KeepsPaired(i))
    BY <1>11 DEF CBOZERO, i, Execute
  <2>. QED
    BY <2>1, <2>2, <2>3, WroteOK, ExecuteNoWrap DEF ResOK, KeepsPaired
<1>12. CASE UNCHANGED accessVars
  BY <1>12 DEF accessVars, BoardOK, OutOK, ResOK, Booted
<1>. QED
  BY <1>1, <1>2, <1>3, <1>4, <1>5, <1>6, <1>7, <1>8, <1>9, <1>10, <1>11, <1>12 DEF AccessNext

\* What holds while no access wraps holds after rv_reset.
LEMMA NoWrapInit == AccessInit => NoWrapInv
<1>. SUFFICES ASSUME AccessInit PROVE NoWrapInv
  OBVIOUS
<1>1. BoardOK /\ OutOK
  BY AccessInitInv DEF AccessInv
<1>3. reservation = [addr |-> 0, size |-> 0, valid |-> FALSE] /\ paired = FALSE
  BY DEF AccessInit, bus_init
<1>4. reservation \in Reservation
  BY <1>3 DEF Reservation
<1>5. reservation.addr = 0 /\ reservation.size = 0 /\ ~reservation.valid
  BY <1>3
<1>6. 0 + 0 < AddrMod
  BY BusAssumption
<1>7. paired \in BOOLEAN
  BY <1>3
<1>8. ResOK
  BY <1>4, <1>5, <1>6, <1>7 DEF ResOK
<1>. QED
  BY <1>1, <1>8 DEF NoWrapInv

\* For every board and size of access: an SC that stores follows an LR, with no
\* other SC and no store inside the reserved bytes in between.
THEOREM OneScForEachLr == NoWrap => (AccessSpec => ScPaired)
<1>. SUFFICES ASSUME NoWrap PROVE AccessSpec => ScPaired
  OBVIOUS
<1>. DEFINE P == (out'.kind = "exec" /\ out'.op = "SC" /\ out'.writes # {}) => paired
<1>1. NoWrapInv /\ [AccessNext]_accessVars => NoWrapInv'
  BY NoWrapStep
<1>2. NoWrapInv /\ [AccessNext]_accessVars => [P]_accessVars
  <2>. SUFFICES ASSUME NoWrapInv, AccessNext, out'.kind = "exec", out'.op = "SC", out'.writes # {}
                PROVE  paired
    BY DEF accessVars
  <2>1. PICK a \in 0 .. Reach, s \in Sizes, rd \in {0, 1} : SC(a, s, rd)
    <3>1. ~Register /\ ~NextInstr /\ ~_flushIcache
      BY DEF Register, NextInstr, _flushIcache, bus_register, NoWrapInv, OutOK, Booted, Idle
    <3>2. ASSUME NEW pc \in 0 .. Reach PROVE ~_fetch(pc)
      BY DEF _fetch, FetchHit, FetchLine, FetchWord, FetchFault, Fetched
    <3>3. ASSUME NEW a \in 0 .. Reach, NEW s \in Sizes, NEW rd \in {0, 1}
          PROVE  ~(Load(a, s, rd) \/ ReadModifyWrite(a, s, rd) \/ IllegalAMO(a, s, rd) \/ LR(a, s, rd))
      BY LoadEffect, RmwEffect, IllEffect, LREffect DEF Load, ReadModifyWrite, IllegalAMO, LR, Execute
    <3>4. ASSUME NEW a \in 0 .. Reach, NEW s \in Sizes PROVE ~Store(a, s)
      BY StoreEffect DEF Store, Execute
    <3>5. ASSUME NEW a \in 0 .. Reach, NEW permitted \in BOOLEAN PROVE ~CBOZERO(a, permitted)
      BY CboEffect DEF CBOZERO, Execute
    <3>. QED
      BY <3>1, <3>2, <3>3, <3>4, <3>5 DEF AccessNext
  <2>2. bus_reservationCheck(reservation, a, s)
    BY <2>1, SCEffect DEF SC, Execute
  <2>. QED
    BY <2>2 DEF bus_reservationCheck, NoWrapInv, ResOK
<1>. QED
  BY <1>1, <1>2, NoWrapInit, PTL DEF AccessSpec, ScPaired
=============================================================================
