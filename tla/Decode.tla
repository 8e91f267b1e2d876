------------------------------- MODULE Decode -------------------------------
(***************************************************************************)
(* The two decoders: _execInstr of cpu/rv_base.h for four-byte             *)
(* instructions and _execCext of cpu/rv_cext.h for two-byte ones.  An      *)
(* instruction, and an immediate, is the set of its bits that are set.     *)
(* A decoder's value is the _do... function it calls and the arguments it  *)
(* passes; rv64 tells CONFIG_RV64.                                         *)
(***************************************************************************)
EXTENDS Integers, Sequences, FiniteSetsExt

\* (w >> k) & mask and (w << k) & mask
SR(w, k, mask) == {b - k : b \in w} \cap mask
SL(w, k, mask) == {b + k : b \in w} \cap mask

\* The number a few bits stand for.
Num(w) == MapThenSumSet(LAMBDA b : 2 ^ b, w)

SIGN_EXTEND(v, signBit, width) == IF signBit \in v THEN v \cup signBit .. width - 1 ELSE v

\* The calls
_doILL == [do |-> "ILL"]
_cextNop == [do |-> "NOP"]
_doOPIMM(f3, imm, rd, rs1) == [do |-> "OPIMM", f3 |-> f3, imm |-> imm, rd |-> rd, rs1 |-> rs1]
_doOPIMM32(f3, imm, rd, rs1) == [_doOPIMM(f3, imm, rd, rs1) EXCEPT !.do = "OPIMM32"]
_doLOAD(f3, imm, rd, rs1) == [_doOPIMM(f3, imm, rd, rs1) EXCEPT !.do = "LOAD"]
_doSTORE(f3, imm, rs1, rs2) == [do |-> "STORE", f3 |-> f3, imm |-> imm, rs1 |-> rs1, rs2 |-> rs2]
_doOP(f3, f7, rd, rs1, rs2) ==
  [do |-> "OP", f3 |-> f3, f7 |-> f7, rd |-> rd, rs1 |-> rs1, rs2 |-> rs2]
_doOP32(f3, f7, rd, rs1, rs2) == [_doOP(f3, f7, rd, rs1, rs2) EXCEPT !.do = "OP32"]
_doLUI(imm, rd) == [do |-> "LUI", imm |-> imm, rd |-> rd]
_doJAL(imm, rd, size) == [do |-> "JAL", imm |-> imm, rd |-> rd, size |-> size]
_doJALR(f3, imm, rd, rs1, size) ==
  [do |-> "JALR", f3 |-> f3, imm |-> imm, rd |-> rd, rs1 |-> rs1, size |-> size]
_doBRANCH(f3, imm, rs1, rs2, size) ==
  [do |-> "BRANCH", f3 |-> f3, imm |-> imm, rs1 |-> rs1, rs2 |-> rs2, size |-> size]
_doSYSTEM(f3, imm, rd, rs1, size) == [_doJALR(f3, imm, rd, rs1, size) EXCEPT !.do = "SYSTEM"]

-----------------------------------------------------------------------------
\* The fields of a two-byte instruction: a register, one of x8 to x15, and
\* the immediate that the CI format shares.
Reg(w, k) == Num(SR(w, k, 0 .. 4))
RegP(w, k) == Num(SR(w, k, 0 .. 2)) + 8
CImm(w) == SR(w, 2, 0 .. 4) \cup SR(w, 7, {5})
SP == 2

_decodeCextQ0_0(w) ==
  LET imm == SR(w, 2, {3}) \cup SR(w, 4, {2}) \cup SR(w, 1, 6 .. 9) \cup SR(w, 7, 4 .. 5)
  IN IF imm # {} THEN _doOPIMM(0, imm, RegP(w, 2), SP) ELSE _doILL

\* The offsets of c.lw and c.sw, and of c.ld and c.sd
OffsetW(w) == SR(w, 7, 3 .. 5) \cup SL(w, 1, {6}) \cup SR(w, 4, {2})
OffsetD(w) == SR(w, 7, 3 .. 5) \cup SL(w, 1, 6 .. 7)

_decodeCextQ0_2(w) == _doLOAD(2, OffsetW(w), RegP(w, 2), RegP(w, 7))
_decodeCextQ0_3(w, rv64) == IF rv64 THEN _doLOAD(3, OffsetD(w), RegP(w, 2), RegP(w, 7)) ELSE _doILL
_decodeCextQ0_6(w) == _doSTORE(2, OffsetW(w), RegP(w, 7), RegP(w, 2))
_decodeCextQ0_7(w, rv64) == IF rv64 THEN _doSTORE(3, OffsetD(w), RegP(w, 7), RegP(w, 2)) ELSE _doILL

_decodeCextQ1_0(w) ==
  LET rd == Reg(w, 7)
  IN IF rd # 0 /\ CImm(w) # {} THEN _doOPIMM(0, SIGN_EXTEND(CImm(w), 5, 32), rd, rd) ELSE _cextNop

\* Mutant: bits 6 and 7 of the offset swapped, as in the format of c.lwsp.
Mutant_ASSEMBLE_11(w) ==
  LET to == <<5, 1, 2, 3, 6, 7, 10, 8, 9, 4, 11>>
  IN {to[b - 1] : b \in w \cap 2 .. 12}

\* ASSEMBLE_11 of the offset of c.j and c.jal: bit k + 2 of the instruction
\* goes to the k-th of the places.
_ASSEMBLE_11(w) ==
  LET to == <<5, 1, 2, 3, 7, 6, 10, 8, 9, 4, 11>>
  IN {to[b - 1] : b \in w \cap 2 .. 12}

_decodeCextQ1_1(w, rv64) ==
  LET rd == Reg(w, 7)
  IN IF ~rv64 THEN _doJAL(SIGN_EXTEND(_ASSEMBLE_11(w), 11, 32), 1, 2)
     ELSE IF rd # 0 THEN _doOPIMM32(0, SIGN_EXTEND(CImm(w), 5, 32), rd, rd) ELSE _doILL

_decodeCextQ1_2(w) ==
  LET rd == Reg(w, 7)
  IN IF rd # 0 THEN _doOPIMM(0, SIGN_EXTEND(CImm(w), 5, 32), rd, 0) ELSE _cextNop

_decodeCextQ1_3(w) ==
  LET rd == Reg(w, 7)
      imm == SR(w, 2, {4}) \cup SL(w, 3, {5}) \cup SL(w, 1, {6}) \cup SL(w, 4, 7 .. 8) \cup SR(w, 3, {9})
  IN CASE rd = 0  -> _cextNop
       [] rd = SP -> IF imm # {} THEN _doOPIMM(0, SIGN_EXTEND(imm, 9, 32), SP, SP) ELSE _doILL
       [] OTHER   -> IF CImm(w) # {} THEN _doLUI(SL(SIGN_EXTEND(CImm(w), 5, 32), 12, 0 .. 31), rd)
                     ELSE _doILL

_decodeCextQ1_4(w, rv64) ==
  LET rd == RegP(w, 7)
      rs2 == RegP(w, 2)
      op == Num(SR(w, 5, 0 .. 1))
  IN CASE Num(SR(w, 10, 0 .. 1)) = 0 -> _doOPIMM(5, CImm(w), rd, rd)
       [] Num(SR(w, 10, 0 .. 1)) = 1 -> _doOPIMM(5, CImm(w) \cup {10}, rd, rd)
       [] Num(SR(w, 10, 0 .. 1)) = 2 -> _doOPIMM(7, SIGN_EXTEND(CImm(w), 5, 32), rd, rd)
       [] OTHER ->
            IF 12 \in w
            THEN IF rv64 /\ op < 2 THEN _doOP32(0, <<32, 0>>[op + 1], rd, rd, rs2) ELSE _doILL
            ELSE _doOP(<<0, 4, 6, 7>>[op + 1], <<32, 0, 0, 0>>[op + 1], rd, rd, rs2)

_decodeCextQ1_5(w) == _doJAL(SIGN_EXTEND(_ASSEMBLE_11(w), 11, 32), 0, 2)

OffsetB(w) ==
  SIGN_EXTEND(SL(w, 3, {5}) \cup SR(w, 2, 1 .. 2) \cup SL(w, 1, 6 .. 7) \cup SR(w, 7, 3 .. 4)
                \cup SR(w, 4, {8}), 8, 32)

_decodeCextQ1_6(w) == _doBRANCH(0, OffsetB(w), RegP(w, 7), 0, 2)
_decodeCextQ1_7(w) == _doBRANCH(1, OffsetB(w), RegP(w, 7), 0, 2)

_decodeCextQ2_0(w) ==
  LET rd == Reg(w, 7)
  IN IF CImm(w) # {} /\ rd # 0 THEN _doOPIMM(1, CImm(w), rd, rd) ELSE _cextNop

_decodeCextQ2_2(w) ==
  LET imm == SL(w, 4, 6 .. 7) \cup SR(w, 2, 2 .. 4) \cup SR(w, 7, {5})
  IN IF Reg(w, 7) # 0 THEN _doLOAD(2, imm, Reg(w, 7), SP) ELSE _doILL

_decodeCextQ2_3(w, rv64) ==
  LET imm == SL(w, 4, 6 .. 8) \cup SR(w, 2, 3 .. 4) \cup SR(w, 7, {5})
  IN IF rv64 /\ Reg(w, 7) # 0 THEN _doLOAD(3, imm, Reg(w, 7), SP) ELSE _doILL

_decodeCextQ2_4(w) ==
  LET uimm5 == 12 \in w
      rs1 == Reg(w, 7)
      rs2 == Reg(w, 2)
  IN CASE rs2 # 0 /\ rs1 # 0          -> _doOP(0, 0, rs1, IF uimm5 THEN rs1 ELSE 0, rs2)
       [] rs2 # 0 /\ rs1 = 0          -> _cextNop
       [] rs2 = 0 /\ rs1 # 0          -> _doJALR(0, {}, IF uimm5 THEN 1 ELSE 0, rs1, 2)
       [] rs2 = 0 /\ rs1 = 0          -> IF uimm5 THEN _doSYSTEM(0, {0}, 0, 0, 2) ELSE _doILL

_decodeCextQ2_6(w) == _doSTORE(2, SR(w, 7, 2 .. 5) \cup SR(w, 1, 6 .. 7), SP, Reg(w, 2))

_decodeCextQ2_7(w, rv64) ==
  IF rv64 THEN _doSTORE(3, SR(w, 7, 3 .. 5) \cup SR(w, 1, 6 .. 8), SP, Reg(w, 2)) ELSE _doILL

\* The jump table; what it does not name here is illegal: Q0_1, Q0_4, Q0_5,
\* Q2_1 and Q2_5.
_execCext(w, rv64) ==
  LET idx == <<Num(w \cap 0 .. 1), Num(SR(w, 13, 0 .. 2))>>
  IN CASE idx = <<0, 0>> -> _decodeCextQ0_0(w)
       [] idx = <<0, 2>> -> _decodeCextQ0_2(w)
       [] idx = <<0, 3>> -> _decodeCextQ0_3(w, rv64)
       [] idx = <<0, 6>> -> _decodeCextQ0_6(w)
       [] idx = <<0, 7>> -> _decodeCextQ0_7(w, rv64)
       [] idx = <<1, 0>> -> _decodeCextQ1_0(w)
       [] idx = <<1, 1>> -> _decodeCextQ1_1(w, rv64)
       [] idx = <<1, 2>> -> _decodeCextQ1_2(w)
       [] idx = <<1, 3>> -> _decodeCextQ1_3(w)
       [] idx = <<1, 4>> -> _decodeCextQ1_4(w, rv64)
       [] idx = <<1, 5>> -> _decodeCextQ1_5(w)
       [] idx = <<1, 6>> -> _decodeCextQ1_6(w)
       [] idx = <<1, 7>> -> _decodeCextQ1_7(w)
       [] idx = <<2, 0>> -> _decodeCextQ2_0(w)
       [] idx = <<2, 2>> -> _decodeCextQ2_2(w)
       [] idx = <<2, 3>> -> _decodeCextQ2_3(w, rv64)
       [] idx = <<2, 4>> -> _decodeCextQ2_4(w)
       [] idx = <<2, 6>> -> _decodeCextQ2_6(w)
       [] idx = <<2, 7>> -> _decodeCextQ2_7(w, rv64)
       [] OTHER          -> _doILL

-----------------------------------------------------------------------------
\* DECODE_JIMM and its like
DECODE_JIMM(w) == (w \cap 12 .. 19) \cup SR(w, 20, 1 .. 10) \cup SR(w, 9, {11}) \cup SR(w, 11, {20})
DECODE_IIMM(w) == SR(w, 20, 0 .. 11)
DECODE_BIMM(w) == SR(w, 7, 1 .. 4) \cup SR(w, 20, 5 .. 10) \cup SL(w, 4, {11}) \cup SR(w, 19, {12})
DECODE_UIMM(w) == w \cap 12 .. 31
DECODE_SIMM(w) == SR(w, 7, 0 .. 4) \cup SR(w, 20, 5 .. 11)
DECODE_RD(w) == Reg(w, 7)
DECODE_RS1(w) == Reg(w, 15)
DECODE_RS2(w) == Reg(w, 20)
DECODE_FUNCT3(w) == Num(SR(w, 12, 0 .. 2))
DECODE_FUNCT5(w) == Num(SR(w, 27, 0 .. 4))
DECODE_FUNCT7(w) == Num(SR(w, 25, 0 .. 6))

\* The jump table over bits 2 to 6.  _doAUIPC, _doMISCMEM and _doAMO are called
\* from here only.
_execInstr(w, rv64) ==
  LET opcode == Reg(w, 2)
      f3 == DECODE_FUNCT3(w)
      f7 == DECODE_FUNCT7(w)
      rd == DECODE_RD(w)
      rs1 == DECODE_RS1(w)
      rs2 == DECODE_RS2(w)
  IN CASE opcode = 0  -> _doLOAD(f3, DECODE_IIMM(w), rd, rs1)
       [] opcode = 3  -> [_doOPIMM(f3, DECODE_IIMM(w), rd, rs1) EXCEPT !.do = "MISCMEM"]
       [] opcode = 4  -> _doOPIMM(f3, DECODE_IIMM(w), rd, rs1)
       [] opcode = 5  -> [_doLUI(DECODE_UIMM(w), rd) EXCEPT !.do = "AUIPC"]
       [] opcode = 6  -> IF rv64 THEN _doOPIMM32(f3, DECODE_IIMM(w), rd, rs1) ELSE _doILL
       [] opcode = 8  -> _doSTORE(f3, DECODE_SIMM(w), rs1, rs2)
       [] opcode = 11 -> [do |-> "AMO", f3 |-> f3, f5 |-> DECODE_FUNCT5(w), rd |-> rd,
                          rs1 |-> rs1, rs2 |-> rs2]
       [] opcode = 12 -> _doOP(f3, f7, rd, rs1, rs2)
       [] opcode = 13 -> _doLUI(DECODE_UIMM(w), rd)
       [] opcode = 14 -> IF rv64 THEN _doOP32(f3, f7, rd, rs1, rs2) ELSE _doILL
       [] opcode = 24 -> _doBRANCH(f3, DECODE_BIMM(w), rs1, rs2, 4)
       [] opcode = 25 -> _doJALR(f3, DECODE_IIMM(w), rd, rs1, 4)
       [] opcode = 27 -> _doJAL(DECODE_JIMM(w), rd, 4)
       [] opcode = 28 -> _doSYSTEM(f3, DECODE_IIMM(w), rd, rs1, 4)
       [] OTHER       -> _doILL
=============================================================================
