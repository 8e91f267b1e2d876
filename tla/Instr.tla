------------------------------- MODULE Instr -------------------------------
(***************************************************************************)
(* The instructions, decoded (Decode) and computed (Alu), against the      *)
(* RISC-V unprivileged specification.  A step gives the decoders a word,   *)
(* or the arithmetic one operand and then the other; each is checked for   *)
(* all that can be given, two-byte words exhaustively, four-byte words by  *)
(* the bits of their immediates, since each bit is moved by itself.        *)
(***************************************************************************)
EXTENDS Decode, Alu

VARIABLES word,             \* the instruction given to the decoders
          rs1Val, rs2Val    \* the operands given to the arithmetic

instrVars == <<word, rs1Val, rs2Val>>

InstrInit == word = {} /\ rs1Val = 0 /\ rs2Val = 0

\* It is the arithmetic's turn, not the decoders'.
Computing == word = {}

Given == word # {} \/ rs1Val # 0 \/ rs2Val # 0

\* rv_run: a word whose low bits are not both set goes to _execCext
FetchTwoBytes ==
  /\ ~Given
  /\ \E w \in SUBSET (2 .. 15), q \in {{}, {0}, {1}} : word' = w \cup q
  /\ UNCHANGED <<rs1Val, rs2Val>>

\* the others go to _execInstr: any opcode, and up to two bits of the rest
FetchFourBytes ==
  /\ ~Given
  /\ \E op \in SUBSET (2 .. 6), i, j \in 7 .. 31 : word' = {0, 1, i, j} \cup op
  /\ UNCHANGED <<rs1Val, rs2Val>>

\* _readReg of one operand, then of the other
ReadRs1 ==
  /\ ~Given
  /\ rs1Val' \in Word
  /\ UNCHANGED <<word, rs2Val>>

ReadRs2 ==
  /\ Computing /\ rs2Val = 0
  /\ rs2Val' \in Word
  /\ UNCHANGED <<word, rs1Val>>

Retire ==
  /\ Given
  /\ word' = {} /\ rs1Val' = 0 /\ rs2Val' = 0

InstrNext == FetchTwoBytes \/ FetchFourBytes \/ ReadRs1 \/ ReadRs2 \/ Retire

InstrSpec == InstrInit /\ [][InstrNext]_instrVars

-----------------------------------------------------------------------------
(* The formats of the specification: for each bit of the instruction, from *)
(* the highest down, the bit of the immediate it carries, or -1.           *)

ImmAt(w, top, layout) == {layout[top + 1 - b] : b \in w \cap (top + 1 - Len(layout)) .. top} \ {-1}
PutImm(imm, top, layout) == {top + 1 - k : k \in {j \in DOMAIN layout : layout[j] \in imm}}

FormatI == <<11, 10, 9, 8, 7, 6, 5, 4, 3, 2, 1, 0>>
FormatS == <<11, 10, 9, 8, 7, 6, 5, -1, -1, -1, -1, -1, -1, -1, -1, -1, -1, -1, -1, -1, 4, 3, 2, 1, 0>>
FormatB == <<12, 10, 9, 8, 7, 6, 5, -1, -1, -1, -1, -1, -1, -1, -1, -1, -1, -1, -1, -1, 4, 3, 2, 1, 11>>
FormatU == <<31, 30, 29, 28, 27, 26, 25, 24, 23, 22, 21, 20, 19, 18, 17, 16, 15, 14, 13, 12>>
FormatJ == <<20, 10, 9, 8, 7, 6, 5, 4, 3, 2, 1, 11, 19, 18, 17, 16, 15, 14, 13, 12>>

\* A number as a field of the instruction, and the four-byte instructions
Put(n, at) == {b + at : b \in {c \in 0 .. 6 : (n \div 2 ^ c) % 2 = 1}}
Head4(opcode, f3) == {0, 1} \cup Put(opcode, 2) \cup Put(f3, 12)
IType(opcode, f3, rd, rs1, imm) ==
  Head4(opcode, f3) \cup Put(rd, 7) \cup Put(rs1, 15) \cup PutImm(imm, 31, FormatI)
SType(f3, rs1, rs2, imm) == Head4(8, f3) \cup Put(rs1, 15) \cup Put(rs2, 20) \cup PutImm(imm, 31, FormatS)
BType(f3, rs1, imm) == Head4(24, f3) \cup Put(rs1, 15) \cup PutImm(imm, 31, FormatB)
RType(opcode, f3, f7, rd, rs1, rs2) ==
  Head4(opcode, f3) \cup Put(rd, 7) \cup Put(rs1, 15) \cup Put(rs2, 20) \cup Put(f7, 25)
LUIType(rd, imm) == Head4(13, 0) \cup Put(rd, 7) \cup PutImm(imm, 31, FormatU)
JType(rd, imm) == Head4(27, 0) \cup Put(rd, 7) \cup PutImm(imm, 31, FormatJ)

(* The four-byte instruction that the specification gives for a two-byte   *)
(* one, or Hint or Illegal.  The layouts are those of bits 12 to 2.        *)
Hint == {-1}
Illegal == {-2}

Expansion(w, rv64) ==
  LET q == Num(w \cap {0, 1})
      f == Num(SR(w, 13, 0 .. 2))
      r == Reg(w, 7)
      r2 == Reg(w, 2)
      p == RegP(w, 7)
      p2 == RegP(w, 2)
      L(layout) == ImmAt(w, 12, layout)
      ci == L(<<5, -1, -1, -1, -1, -1, 4, 3, 2, 1, 0>>)
      simm == SIGN_EXTEND(ci, 5, 12)
      iw == L(<<5, 4, 3, -1, -1, -1, 2, 6, -1, -1, -1>>)
      id == L(<<5, 4, 3, -1, -1, -1, 7, 6, -1, -1, -1>>)
      spn == L(<<5, 4, 9, 8, 7, 6, 2, 3, -1, -1, -1>>)
      sp16 == SIGN_EXTEND(L(<<9, -1, -1, -1, -1, -1, 4, 6, 8, 7, 5>>), 9, 12)
      lui == SIGN_EXTEND(L(<<17, -1, -1, -1, -1, -1, 16, 15, 14, 13, 12>>), 17, 32)
      j == SIGN_EXTEND(L(<<11, 4, 9, 8, 10, 6, 7, 3, 2, 1, 5>>), 11, 21)
      b == SIGN_EXTEND(L(<<8, 4, 3, -1, -1, -1, 7, 6, 2, 1, 5>>), 8, 13)
      lwsp == L(<<5, -1, -1, -1, -1, -1, 4, 3, 2, 7, 6>>)
      ldsp == L(<<5, -1, -1, -1, -1, -1, 4, 3, 8, 7, 6>>)
      swsp == L(<<5, 4, 3, 2, 7, 6, -1, -1, -1, -1, -1>>)
      sdsp == L(<<5, 4, 3, 8, 7, 6, -1, -1, -1, -1, -1>>)
      sub == Num(SR(w, 10, 0 .. 1))
      op == Num(SR(w, 5, 0 .. 1))
  IN CASE q = 0 /\ f = 0 /\ spn # {}             -> IType(4, 0, p2, 2, spn)
       [] q = 0 /\ f = 2                         -> IType(0, 2, p2, p, iw)
       [] q = 0 /\ f = 3 /\ rv64                 -> IType(0, 3, p2, p, id)
       [] q = 0 /\ f = 6                         -> SType(2, p, p2, iw)
       [] q = 0 /\ f = 7 /\ rv64                 -> SType(3, p, p2, id)
       [] q = 1 /\ f = 0                         -> IF r = 0 \/ ci = {} THEN Hint ELSE IType(4, 0, r, r, simm)
       [] q = 1 /\ f = 1 /\ ~rv64                -> JType(1, j)
       [] q = 1 /\ f = 1 /\ rv64 /\ r # 0        -> IType(6, 0, r, r, simm)
       [] q = 1 /\ f = 2                         -> IF r = 0 THEN Hint ELSE IType(4, 0, r, 0, simm)
       [] q = 1 /\ f = 3 /\ r = 2 /\ sp16 # {}   -> IType(4, 0, 2, 2, sp16)
       [] q = 1 /\ f = 3 /\ r # 2 /\ (lui # {} \/ r = 0)
                                                 -> IF r = 0 THEN Hint ELSE LUIType(r, lui)
       [] q = 1 /\ f = 4 /\ sub = 0              -> IType(4, 5, p, p, ci)
       [] q = 1 /\ f = 4 /\ sub = 1              -> IType(4, 5, p, p, ci \cup {10})
       [] q = 1 /\ f = 4 /\ sub = 2              -> IType(4, 7, p, p, simm)
       [] q = 1 /\ f = 4 /\ sub = 3 /\ 12 \notin w
                              -> RType(12, <<0, 4, 6, 7>>[op + 1], IF op = 0 THEN 32 ELSE 0, p, p, p2)
       [] q = 1 /\ f = 4 /\ sub = 3 /\ 12 \in w /\ op < 2 /\ rv64
                                                 -> RType(14, 0, IF op = 0 THEN 32 ELSE 0, p, p, p2)
       [] q = 1 /\ f = 5                         -> JType(0, j)
       [] q = 1 /\ f \in {6, 7}                  -> BType(f - 6, p, b)
       [] q = 2 /\ f = 0                         -> IF r = 0 \/ ci = {} THEN Hint ELSE IType(4, 1, r, r, ci)
       [] q = 2 /\ f = 2 /\ r # 0                -> IType(0, 2, r, 2, lwsp)
       [] q = 2 /\ f = 3 /\ r # 0 /\ rv64        -> IType(0, 3, r, 2, ldsp)
       [] q = 2 /\ f = 4 /\ r2 # 0
              -> IF r = 0 THEN Hint ELSE RType(12, 0, 0, r, IF 12 \in w THEN r ELSE 0, r2)
       [] q = 2 /\ f = 4 /\ r2 = 0 /\ r # 0      -> IType(25, 0, IF 12 \in w THEN 1 ELSE 0, r, {})
       [] q = 2 /\ f = 4 /\ r2 = 0 /\ r = 0 /\ 12 \in w
                                                 -> IType(28, 0, 0, 0, {0})
       [] q = 2 /\ f = 6                         -> SType(2, 2, r2, swsp)
       [] q = 2 /\ f = 7 /\ rv64                 -> SType(3, 2, r2, sdsp)
       [] OTHER                                  -> Illegal

\* What a _do... function makes of its immediate: the bit from which it sign-extends it.
ImmBit(do) == CASE do = "JAL" -> 20 [] do = "BRANCH" -> 12 [] do \in {"LUI", "AUIPC"} -> 31 [] OTHER -> 11

\* A call as its function sees it, without the instruction's size
Called(i) ==
  [x \in DOMAIN i \ {"size"} |-> IF x = "imm" THEN SIGN_EXTEND(i.imm, ImmBit(i.do), 64) ELSE i[x]]

-----------------------------------------------------------------------------
\* The decoders agree with the specification and with each other.  Every
\* two-byte instruction does what the four-byte instruction does that the
\* specification gives for it, through the other decoder: the same function,
\* registers and immediate; hints do nothing, and what is reserved or needs
\* floating point is illegal.  (c.lui x0 with a zero immediate, reserved too, is
\* taken for a hint.)  The immediates of the four-byte formats, each scattered
\* over the word in its own way, are put together as they are laid out.
DecodesRight ==
  IF {0, 1} \subseteq word
  THEN LET i == _execInstr(word, TRUE)
           layout == CASE i.do = "STORE" -> FormatS
                       [] i.do = "BRANCH" -> FormatB
                       [] i.do \in {"LUI", "AUIPC"} -> FormatU
                       [] i.do = "JAL" -> FormatJ
                       [] OTHER -> FormatI
       IN "imm" \in DOMAIN i => i.imm = ImmAt(word, 31, layout)
  ELSE \A rv64 \in BOOLEAN :
         LET e == Expansion(word, rv64)
             c == _execCext(word, rv64)
         IN CASE e = Hint    -> c = _cextNop
              [] e = Illegal -> c = _doILL
              [] OTHER       -> /\ Called(c) = Called(_execInstr(e, rv64))
                                /\ "size" \in DOMAIN c => c.size = 2

\* MUL and the high word of MULH, MULHSU and MULHU, put together from the
\* products of halves and negated afterwards, make up the exact product of the
\* operands as signed or unsigned numbers, as they do in the RV32 build, which
\* multiplies once in twice the width; MULW is the low half.
ProductsRight ==
  Computing =>
  /\ \A t \in {<<1, Signed(rs1Val), Signed(rs2Val)>>, <<2, Signed(rs1Val), rs2Val>>,
               <<3, rs1Val, rs2Val>>} :
       /\ OP(t[1], 1, rs1Val, rs2Val) = {W((t[2] * t[3]) \div Pow2[XLEN])}
       /\ OP(0, 1, rs1Val, rs2Val) = {(t[2] * t[3]) % Pow2[XLEN]}
       /\ {<<MULH_RV32(rs1Val, rs2Val), MULHSU_RV32(rs1Val, rs2Val), MULHU_RV32(rs1Val, rs2Val)>>[t[1]]}
            = OP(t[1], 1, rs1Val, rs2Val)
  /\ OP32(0, 1, rs1Val, rs2Val) = {SignExtend((rs1Val * rs2Val) % Pow2[HALF], HALF)}

\* Quotient and remainder belong together: n = q * d + r with r smaller than d
\* and of the sign of n; a zero divisor gives -1 and n, and the one quotient
\* that overflows gives itself and 0.  DIV with REM, DIVU with REMU, and both
\* pairs on 32 bits.
DivisionsRight ==
  Computing =>
  LET abs(x) == IF x < 0 THEN -x ELSE x
      right(n, d, q, r) ==
        CASE d = 0 -> q = -1 /\ r = n
          [] OTHER -> /\ n = q * d + r
                      /\ abs(r) < abs(d)
                      /\ r = 0 \/ (r < 0) = (n < 0)
      a32 == SignedOf(rs1Val % Pow2[HALF], HALF)
      b32 == SignedOf(rs2Val % Pow2[HALF], HALF)
      D(f3) == OP(f3, 1, rs1Val, rs2Val)
      D32(f3) == OP32(f3, 1, rs1Val, rs2Val)
  IN /\ IF Signed(rs1Val) = -Pow2[XLEN - 1] /\ Signed(rs2Val) = -1
        THEN D(4) = {rs1Val} /\ D(6) = {0}
        ELSE \A q \in D(4), r \in D(6) : right(Signed(rs1Val), Signed(rs2Val), Signed(q), Signed(r))
     /\ IF rs2Val = 0 THEN D(5) = {Pow2[XLEN] - 1} /\ D(7) = {rs1Val}
        ELSE \A q \in D(5), r \in D(7) : right(rs1Val, rs2Val, q, r)
     /\ IF a32 = -Pow2[HALF - 1] /\ b32 = -1
        THEN D32(4) = {W(a32)} /\ D32(6) = {0}
        ELSE \A q \in D32(4), r \in D32(6) : right(a32, b32, Signed(q), Signed(r))
     /\ IF Lo(rs2Val) = 0 THEN D32(5) = {Pow2[XLEN] - 1} /\ D32(7) = {W(a32)}
        ELSE \A q \in D32(5), r \in D32(7) : right(Lo(rs1Val), Lo(rs2Val), Lo(q), Lo(r))

\* A shift multiplies or divides by a power of two, an arithmetic one rounding
\* down: the sign that is computed by itself and put in front is right at
\* every amount, zero and the largest included, on words and on halves, for
\* amounts from registers and immediates.  SLLW is right for amounts in the
\* half's range; for larger ones C leaves the value open.
ShiftsRight ==
  Computing =>
  LET s == rs2Val % XLEN
      h == rs2Val % HALF
      lo == Lo(rs1Val)
      slo == SignedOf(lo, HALF)
      ext(x) == {SignExtend(x % Pow2[HALF], HALF)}
  IN /\ OP(1, 0, rs1Val, rs2Val) = {W(rs1Val * Pow2[s])}
     /\ OP(5, 0, rs1Val, rs2Val) = {rs1Val \div Pow2[s]}
     /\ OP(5, 32, rs1Val, rs2Val) = {W(Signed(rs1Val) \div Pow2[s])}
     /\ OPIMM(5, 16, rs1Val, rs2Val) = OP(5, 32, rs1Val, rs2Val)
     /\ OP32(5, 0, rs1Val, rs2Val) = ext(lo \div Pow2[h])
     /\ OP32(5, 32, rs1Val, rs2Val) = ext(slo \div Pow2[h])
     /\ OPIMM32(5, 32, rs1Val, rs2Val) = ext(slo \div Pow2[h])
     /\ OPIMM32(1, 0, rs1Val, rs2Val) = ext(lo * Pow2[h])
     /\ Lo(rs2Val) % XLEN < HALF => OP32(1, 0, rs1Val, rs2Val) = ext(lo * Pow2[h])

\* All that compares agrees on the two orders of the words: SLT, SLTU and
\* their immediates, the branches, each the opposite of its partner and
\* landing on its target or behind itself although rv_run adds the size
\* afterwards (so do JAL and JALR, the latter on an even one, and what AUIPC
\* computes is where JAL would go), and the minima and maxima of the AMOs, also
\* those narrower than a word, which compare sign-extended values as unsigned
\* ones; and what is loaded compares as it does in memory.
OrderRight ==
  Computing =>
  LET less == Signed(rs1Val) < Signed(rs2Val)
      below == rs1Val < rs2Val
      lands(f3, taken) ==
        \A size \in {2, 4} : \A pc \in {0, Pow2[XLEN] - 2} :
          BranchTarget(f3, rs1Val, rs2Val, pc, rs2Val, size) =
            (IF taken THEN pc + rs2Val ELSE pc + size) % Pow2[XLEN]
      jumps ==
        \A size \in {2, 4} :
          /\ JalTarget(rs1Val, rs2Val, size) = (rs1Val + rs2Val) % Pow2[XLEN]
          /\ JalrTarget(rs1Val, rs2Val, size) = 2 * (((rs1Val + rs2Val) % Pow2[XLEN]) \div 2)
          /\ AUIPC(rs1Val, rs2Val) = JalTarget(rs1Val, LUI(rs2Val), size)
          /\ Signed(LUI(rs2Val)) = SignedOf(rs2Val % Pow2[HALF], HALF)
      ordered(isLess, x, y) == IF isLess THEN <<x, y>> ELSE <<y, x>>
  IN /\ OP(2, 0, rs1Val, rs2Val) = {Bool(less)} /\ OP(3, 0, rs1Val, rs2Val) = {Bool(below)}
     /\ jumps
     /\ lands(0, rs1Val = rs2Val) /\ lands(1, rs1Val # rs2Val)
     /\ lands(4, less) /\ lands(5, ~less) /\ lands(6, below) /\ lands(7, ~below)
     /\ \A width \in {HALF, XLEN} :
          LET mem == rs2Val % Pow2[width]
              reg == rs1Val % Pow2[width]
              signedLess == SignedOf(reg, width) < SignedOf(mem, width)
          IN /\ OP(2, 0, LOAD(TRUE, reg, width), LOAD(TRUE, mem, width)) = {Bool(signedLess)}
             /\ OP(2, 0, LOAD(FALSE, reg, HALF), LOAD(FALSE, mem, HALF)) = {Bool(reg < mem)} \/ width = XLEN
             /\ <<AMO(16, rs1Val, mem, width), AMO(20, rs1Val, mem, width)>> = ordered(signedLess, reg, mem)
             /\ <<AMO(24, rs1Val, mem, width), AMO(28, rs1Val, mem, width)>> = ordered(reg < mem, reg, mem)
=============================================================================
