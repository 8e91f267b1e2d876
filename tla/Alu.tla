-------------------------------- MODULE Alu --------------------------------
(***************************************************************************)
(* What the integer instructions of cpu/rv_instr.h compute.  A word is a   *)
(* number below 2^XLEN.  For RV32, which the CMake files build, XLEN       *)
(* stands for 32, and the high words are those of ..._RV32.  With          *)
(* CONFIG_RV64 it stands for 64 and HALF for 32: only that build has the   *)
(* products of halves and the instructions on halves, whose sign extension *)
(* is on RV32 that of a whole word.  "ILL" stands for _doILL.  A value     *)
(* that the C leaves undefined is a set of outcomes, so every operation    *)
(* returns a set.                                                          *)
(***************************************************************************)
EXTENDS Integers

CONSTANT XLEN

\* The powers of two, up to that of a double word
Pow2 ==
  LET power[k \in 0 .. 2 * XLEN] == IF k = 0 THEN 1 ELSE 2 * power[k - 1]
  IN [k \in 0 .. 2 * XLEN |-> power[k]]

\* A power of two itself, because CPU_SHIFT_MASK is one less.
ASSUME XLENAssumption == XLEN \in Nat /\ \E k \in 2 .. XLEN : XLEN = Pow2[k]

HALF == XLEN \div 2
Word == 0 .. Pow2[XLEN] - 1
CPU_UINT_MAX == Pow2[XLEN] - 1
CPU_SIGN_BIT == Pow2[XLEN - 1]
CPU_SHIFT_MASK == XLEN - 1

\* The conversions to cpu_word_t, uint32_t, cpu_sword_t and int32_t
W(x) == x % Pow2[XLEN]
Lo(x) == x % Pow2[HALF]
SignedOf(x, width) == IF x >= Pow2[width - 1] THEN x - Pow2[width] ELSE x
Signed(x) == SignedOf(x, XLEN)

\* SIGN_EXTEND(v, width - 1, cpu_word_t)
SignExtend(v, width) == W(SignedOf(v, width))

Bool(p) == IF p THEN 1 ELSE 0

\* The bits that are set in a word, and the word that has these bits set, from
\* the highest down; so C's a & b, a | b and a ^ b.
Bits(a) == {i \in 0 .. XLEN - 1 : (a \div Pow2[i]) % 2 = 1}
Number(bits) ==
  LET top[k \in 0 .. XLEN] == IF k = 0 THEN 0 ELSE 2 * top[k - 1] + Bool(XLEN - k \in bits)
  IN top[XLEN]
And(a, b) == Number(Bits(a) \cap Bits(b))
Or(a, b) == Number(Bits(a) \cup Bits(b))
Xor(a, b) == Number((Bits(a) \cup Bits(b)) \ (Bits(a) \cap Bits(b)))

\* C's division, which rounds towards zero, and the remainder that goes with it.
CDiv(a, b) ==
  LET abs(x) == IF x < 0 THEN -x ELSE x
      q == abs(a) \div abs(b)
  IN IF (a < 0) = (b < 0) THEN q ELSE -q
CRem(a, b) == a - CDiv(a, b) * b

\* a << s and a >> s of a width-bit unsigned, s below the width
Shl(a, s, width) == (a * Pow2[s]) % Pow2[width]
Shr(a, s) == a \div Pow2[s]

\* The sign that SRA, SRAI and their 32-bit forms put in front:
\* ~(((x & sign bit) >> shift) - 1)
Sra(a, s, width) ==
  LET sign == Pow2[width] - 1 - ((Shr(And(a, Pow2[width - 1]), s) - 1) % Pow2[width])
  IN Or(Shr(a, s), sign)

-----------------------------------------------------------------------------
\* Mutant: the carry out of the middle products is dropped.
MutantProduct(ma, mb) ==
  LET p0 == Lo(ma) * Lo(mb)
      p1 == Lo(ma) * Shr(mb, HALF)
      p2 == Shr(ma, HALF) * Lo(mb)
      p3 == Shr(ma, HALF) * Shr(mb, HALF)
      mid == Shr(p0, HALF) + Lo(p1) + Lo(p2)
  IN [lo |-> Lo(p0) + Shl(mid, HALF, XLEN), hi |-> W(p3 + Shr(p1, HALF) + Shr(p2, HALF))]

\* The product of two unsigned words from their halves.
Product(ma, mb) ==
  LET p0 == Lo(ma) * Lo(mb)
      p1 == Lo(ma) * Shr(mb, HALF)
      p2 == Shr(ma, HALF) * Lo(mb)
      p3 == Shr(ma, HALF) * Shr(mb, HALF)
      mid == Shr(p0, HALF) + Lo(p1) + Lo(p2)
  IN [lo |-> Lo(p0) + Shl(mid, HALF, XLEN),
      hi |-> W(p3 + Shr(p1, HALF) + Shr(p2, HALF) + Shr(mid, HALF))]

Magnitude(a) == IF Signed(a) < 0 THEN W(0 - a) ELSE a

\* hi = ~hi + (lo == 0)
NegatedHigh(p) == W(Pow2[XLEN] - 1 - p.hi + Bool(p.lo = 0))

MULH(a, b) ==
  LET p == Product(Magnitude(a), Magnitude(b))
  IN IF (Signed(a) < 0) # (Signed(b) < 0) THEN NegatedHigh(p) ELSE p.hi

MULHSU(a, b) ==
  LET p == Product(Magnitude(a), b)
  IN IF Signed(a) < 0 THEN NegatedHigh(p) ELSE p.hi

MULHU(a, b) == Product(a, b).hi

\* The RV32 build has one multiplication of uint64_t, twice the word, for each:
\* the operands are converted to int64_t, or left unsigned, and p >> 32 is left.
HighRV32(x, y) == Shr((x * y) % Pow2[2 * XLEN], XLEN)
MULH_RV32(a, b) == HighRV32(Signed(a), Signed(b))
MULHSU_RV32(a, b) == HighRV32(Signed(a), b)
MULHU_RV32(a, b) == HighRV32(a, b)

\* Mutant: the quotient that does not fit is left to the division.
MutantDIV(a, b) ==
  IF b = 0 THEN CPU_UINT_MAX
  ELSE IF a = CPU_SIGN_BIT /\ b = CPU_UINT_MAX THEN CPU_UINT_MAX ELSE W(CDiv(Signed(a), Signed(b)))

DIV(a, b) ==
  IF b = 0 THEN CPU_UINT_MAX
  ELSE IF a = CPU_SIGN_BIT /\ b = CPU_UINT_MAX THEN CPU_SIGN_BIT ELSE W(CDiv(Signed(a), Signed(b)))

DIVU(a, b) == IF b = 0 THEN CPU_UINT_MAX ELSE a \div b

REM(a, b) ==
  IF b = 0 THEN a
  ELSE IF a = CPU_SIGN_BIT /\ b = CPU_UINT_MAX THEN 0 ELSE W(CRem(Signed(a), Signed(b)))

REMU(a, b) == IF b = 0 THEN a ELSE a % b

\* _doOP: by funct7 and funct3
OP(f3, f7, a, b) ==
  LET s == And(b, CPU_SHIFT_MASK) IN
  CASE <<f7, f3>> = <<0, 0>>  -> {W(a + b)}
    [] <<f7, f3>> = <<32, 0>> -> {W(a - b)}
    [] <<f7, f3>> = <<0, 1>>  -> {Shl(a, s, XLEN)}
    [] <<f7, f3>> = <<0, 2>>  -> {Bool(Signed(a) < Signed(b))}
    [] <<f7, f3>> = <<0, 3>>  -> {Bool(a < b)}
    [] <<f7, f3>> = <<0, 4>>  -> {Xor(a, b)}
    [] <<f7, f3>> = <<0, 5>>  -> {Shr(a, s)}
    [] <<f7, f3>> = <<32, 5>> -> {Sra(a, s, XLEN)}
    [] <<f7, f3>> = <<0, 6>>  -> {Or(a, b)}
    [] <<f7, f3>> = <<0, 7>>  -> {And(a, b)}
    [] <<f7, f3>> = <<1, 0>>  -> {W(a * b)}
    [] <<f7, f3>> = <<1, 1>>  -> {MULH(a, b)}
    [] <<f7, f3>> = <<1, 2>>  -> {MULHSU(a, b)}
    [] <<f7, f3>> = <<1, 3>>  -> {MULHU(a, b)}
    [] <<f7, f3>> = <<1, 4>>  -> {DIV(a, b)}
    [] <<f7, f3>> = <<1, 5>>  -> {DIVU(a, b)}
    [] <<f7, f3>> = <<1, 6>>  -> {REM(a, b)}
    [] <<f7, f3>> = <<1, 7>>  -> {REMU(a, b)}
    [] OTHER                  -> {"ILL"}

\* _doOPIMM: the immediate is sign-extended; select is iimm >> 6
OPIMM(f3, select, a, imm) ==
  LET s == And(imm, CPU_SHIFT_MASK) IN
  CASE f3 = 1 -> IF select = 0 THEN {Shl(a, s, XLEN)} ELSE {"ILL"}
    [] f3 = 5 -> IF select = 0 THEN {Shr(a, s)}
                 ELSE IF select = 16 THEN {Sra(a, s, XLEN)} ELSE {"ILL"}
    [] OTHER  -> OP(f3, 0, a, imm)

-----------------------------------------------------------------------------
\* Mutant: the shift amount keeps a bit too many.
MutantShift32(b) == And(b, CPU_SHIFT_MASK)

\* rs2Val & 0x1F
Shift32(b) == And(b, HALF - 1)

\* _doOP32: both operands are cut to uint32_t and the result sign-extended.
\* SLLW masks its shift with CPU_SHIFT_MASK: from HALF on the shift of a
\* uint32_t is undefined, and yields what the machine's instruction makes of
\* it, a shift by less or no bits at all.
OP32(f3, f7, ra, rb) ==
  LET a == Lo(ra)
      b == Lo(rb)
      sa == SignedOf(a, HALF)
      sb == SignedOf(b, HALF)
      ext(x) == {SignExtend(Lo(x), HALF)}
      overflows == a = Pow2[HALF - 1] /\ b = Pow2[HALF] - 1
      sll == And(b, CPU_SHIFT_MASK)
  IN CASE <<f7, f3>> = <<0, 0>>  -> ext(a + b)
       [] <<f7, f3>> = <<32, 0>> -> ext(a - b)
       [] <<f7, f3>> = <<1, 0>>  -> ext(a * b)
       [] <<f7, f3>> = <<0, 1>>  -> IF sll < HALF THEN ext(Shl(a, sll, HALF))
                                    ELSE ext(Shl(a, sll % HALF, HALF)) \cup {0}
       [] <<f7, f3>> = <<0, 5>>  -> ext(Shr(a, Shift32(b)))
       [] <<f7, f3>> = <<32, 5>> -> ext(Sra(a, Shift32(b), HALF))
       [] <<f7, f3>> = <<1, 4>>  -> IF b = 0 THEN {CPU_UINT_MAX}
                                    ELSE IF overflows THEN {W(-Pow2[HALF - 1])} ELSE ext(CDiv(sa, sb))
       [] <<f7, f3>> = <<1, 5>>  -> IF b = 0 THEN {CPU_UINT_MAX} ELSE ext(a \div b)
       [] <<f7, f3>> = <<1, 6>>  -> IF b = 0 THEN ext(a)
                                    ELSE IF overflows THEN {0} ELSE ext(CRem(sa, sb))
       [] <<f7, f3>> = <<1, 7>>  -> IF b = 0 THEN ext(a) ELSE ext(a % b)
       [] OTHER                  -> {"ILL"}

\* _doOPIMM32: select is iimm >> 5
OPIMM32(f3, select, ra, imm) ==
  CASE f3 = 0 -> {SignExtend(Lo(imm + Lo(ra)), HALF)}
    [] f3 = 1 /\ select = 0  -> {SignExtend(Shl(Lo(ra), Shift32(imm), HALF), HALF)}
    [] f3 = 5 /\ select = 0  -> {SignExtend(Shr(Lo(ra), Shift32(imm)), HALF)}
    [] f3 = 5 /\ select = 32 -> {SignExtend(Sra(Lo(ra), Shift32(imm), HALF), HALF)}
    [] OTHER -> {"ILL"}

-----------------------------------------------------------------------------
\* _doBRANCH: whether the branch is taken
Taken(f3, a, b) ==
  CASE f3 = 0 -> a = b
    [] f3 = 1 -> a # b
    [] f3 = 4 -> Signed(a) < Signed(b)
    [] f3 = 5 -> Signed(a) >= Signed(b)
    [] f3 = 6 -> a < b
    [] f3 = 7 -> a >= b

\* Where rv_run goes on: _doBRANCH, _doJAL and _doJALR take the size off that
\* rv_run adds afterwards.  JAL and JALR also write pc + size to rd, JALR after it
\* has read rs1; only the target is followed here.
BranchTarget(f3, a, b, pc, imm, size) ==
  W((IF Taken(f3, a, b) THEN W(pc + imm - size) ELSE pc) + size)
JalTarget(pc, imm, size) == W(W(W(pc + imm) - size) + size)
JalrTarget(a, imm, size) == W(W(And(W(a + imm), Pow2[XLEN] - 2) - size) + size)

\* _doLUI and _doAUIPC: the immediate has the width of a uint32_t.
LUI(uimm) == SignExtend(Lo(uimm), HALF)
AUIPC(pc, uimm) == W(pc + SignExtend(Lo(uimm), HALF))

\* Mutant: what is loaded is compared as it is, not sign-extended.
MutantAmoOperands(rb, mem, width) ==
  [rs2Val |-> SignExtend(rb % Pow2[width], width), data |-> mem]

\* _doAMO: register and memory cut to the size of the access and sign-extended
AmoOperands(rb, mem, width) ==
  [rs2Val |-> SignExtend(rb % Pow2[width], width), data |-> SignExtend(mem, width)]

\* The word that _doAMO stores, of which the bus takes width bits; mem is what
\* it has read.
AMO(f5, rb, mem, width) ==
  LET o == AmoOperands(rb, mem, width)
      stored(x) == x % Pow2[width]
  IN CASE f5 = 0  -> stored(o.data + o.rs2Val)
       [] f5 = 1  -> stored(o.rs2Val)
       [] f5 = 3  -> stored(o.rs2Val)
       [] f5 = 4  -> stored(Xor(o.data, o.rs2Val))
       [] f5 = 8  -> stored(Or(o.data, o.rs2Val))
       [] f5 = 12 -> stored(And(o.data, o.rs2Val))
       [] f5 = 16 -> stored(IF Signed(o.rs2Val) < Signed(o.data) THEN o.rs2Val ELSE o.data)
       [] f5 = 20 -> stored(IF Signed(o.rs2Val) > Signed(o.data) THEN o.rs2Val ELSE o.data)
       [] f5 = 24 -> stored(IF o.rs2Val < o.data THEN o.rs2Val ELSE o.data)
       [] f5 = 28 -> stored(IF o.rs2Val > o.data THEN o.rs2Val ELSE o.data)

\* _doLOAD: what the register gets of width bits that were read
LOAD(isSigned, mem, width) == IF isSigned THEN SignExtend(mem, width) ELSE mem
=============================================================================
