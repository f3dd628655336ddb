--------------------------------- MODULE Isa --------------------------------
(***************************************************************************)
(* What the interpreter's integer instructions compute (src/sets): the     *)
(* value each exec_* function writes to rd, from the operand values a =    *)
(* GPR[rs1] and b = GPR[rs2] or the signed immediate imm.  Instructions of *)
(* one format share an operator; the literals 64, 63 and 0x3f are XLEN,    *)
(* XLEN - 1 and % XLEN, 32, 31 and 0x1F are WLEN, WLEN - 1 and % WLEN.     *)
(***************************************************************************)
EXTENDS Word, FiniteSets, FiniteSetsExt, Folds

exec_R(op, a, b) ==
    CASE op = "ADD" -> Wrap(a + b)
      [] op = "SUB" -> Wrap(a - b)
      [] op = "XOR" -> a ^^ b
      [] op = "OR"  -> a | b
      [] op = "AND" -> a & b
      [] op = "SLL" -> Shl(a, b % XLEN, XLEN)
      [] op = "SRL" -> Shr(a, b % XLEN, XLEN)
      [] op = "SRA" -> Sar(a, b % XLEN, XLEN)
      [] op = "SLT" -> Flag(Signed(a, XLEN) < Signed(b, XLEN))
      [] op = "SLTU" -> Flag(a < b)

exec_RW(op, a, b) ==
    CASE op = "ADDW" -> Sext(Low(a, WLEN) + Low(b, WLEN), WLEN)
      [] op = "SUBW" -> Sext(Low(a, WLEN) - Low(b, WLEN), WLEN)
      [] op = "SLLW" -> Sext(Shl(a, b % WLEN, WLEN), WLEN)
      [] op = "SRLW" -> Sext(Shr(a, b % WLEN, WLEN), WLEN)
      [] op = "SRAW" -> Sext(Sar(a, b % WLEN, WLEN), WLEN)

exec_I(op, a, imm) ==
    CASE op = "ADDI" -> Wrap(a + imm)
      [] op = "XORI" -> a ^^ Wrap(imm)
      [] op = "ORI"  -> a | Wrap(imm)
      [] op = "ANDI" -> a & Wrap(imm)
      [] op = "SLLI" -> Shl(a, imm, XLEN)
      [] op = "SRLI" -> Shr(a, imm, XLEN)
      [] op = "SRAI" -> Sar(a, imm, XLEN)
      [] op = "SLTI" -> Flag(Signed(a, XLEN) < imm)
      [] op = "SLTIU" -> Flag(a < Wrap(imm))

exec_IW(op, a, imm) ==
    CASE op = "ADDIW" -> Sext(Low(a, WLEN) + imm, WLEN)
      [] op = "SLLIW" -> Sext(Shl(a, imm, WLEN), WLEN)
      [] op = "SRLIW" -> Sext(Shr(a, imm, WLEN), WLEN)
      [] op = "SRAIW" -> Sext(Sar(a, imm, WLEN), WLEN)

exec_U(op, pc, imm) == IF op = "LUI" THEN Wrap(imm) ELSE Wrap(pc + imm)

\* The compressed forms; a is the old value of rd (or of sp).
exec_C(op, a, b, imm) ==
    CASE op \in {"C_ADDI4SPN", "C_ADDI", "C_ADDI16SP"} -> Wrap(a + imm)
      [] op = "C_ADDIW" -> Sext(Wrap(a + imm), WLEN)
      [] op \in {"C_LI", "C_LUI"} -> Wrap(imm)
      [] op = "C_SLLI" -> Shl(a, imm, XLEN)
      [] op = "C_SRLI" -> Shr(a, imm, XLEN)
      [] op = "C_SRAI" -> Sar(a, imm, XLEN)
      [] op = "C_ANDI" -> a & Wrap(imm)
      [] op = "C_SUB" -> Wrap(a - b)
      [] op = "C_XOR" -> a ^^ b
      [] op = "C_OR" -> a | b
      [] op = "C_AND" -> a & b
      [] op = "C_SUBW" -> Sext(Wrap(a - b), WLEN)
      [] op = "C_ADDW" -> Sext(Wrap(a + b), WLEN)
      [] op = "C_MV" -> b
      [] op = "C_ADD" -> Wrap(a + b)

exec_M(op, a, b) ==
    LET sa == Signed(a, XLEN)
        sb == Signed(b, XLEN)
        overflow == sa = -(2^(XLEN - 1)) /\ sb = -1
    IN  CASE op = "MUL" -> Wrap(a * b)
          [] op = "MULH" -> Wrap((sa * sb) \div 2^XLEN)
          [] op = "MULHSU" -> Wrap((sa * b) \div 2^XLEN)
          [] op = "MULHU" -> Wrap((a * b) \div 2^XLEN)
          [] op = "DIV" -> IF b = 0 THEN Ones ELSE IF a = 0 THEN 0
                           ELSE IF overflow THEN a ELSE Wrap(Quot(sa, sb))
          [] op = "DIVU" -> IF b = 0 THEN Ones ELSE IF a = 0 THEN 0 ELSE a \div b
          [] op = "REM" -> IF b = 0 THEN a ELSE IF overflow THEN 0 ELSE Wrap(Rem(sa, sb))
          [] op = "REMU" -> IF b = 0 THEN a ELSE a % b

exec_MW(op, a, b) ==
    LET ua == Low(a, WLEN)
        ub == Low(b, WLEN)
        sa == Signed(a, WLEN)
        sb == Signed(b, WLEN)
        overflow == sa = -(2^(WLEN - 1)) /\ sb = -1
    IN  CASE op = "MULW" -> Sext(sa * sb, WLEN)
          [] op = "DIVW" -> IF sb = 0 THEN Ones ELSE IF sa = 0 THEN 0
                           ELSE IF overflow THEN Wrap(sa) ELSE Wrap(Quot(sa, sb))
          [] op = "DIVUW" -> IF ub = 0 THEN Ones ELSE IF ua = 0 THEN 0 ELSE Sext(ua \div ub, WLEN)
          [] op = "REMW" -> IF sb = 0 THEN Wrap(sa) ELSE IF overflow THEN 0 ELSE Wrap(Rem(sa, sb))
          [] op = "REMUW" -> IF ub = 0 THEN a ELSE Sext(ua % ub, WLEN)

(***************************************************************************)
(* Zba, Zbb, Zbc and Zbs.  The loops of the source run over bit positions: *)
(* FoldBits folds a commutative operation over the positions in S.         *)
(***************************************************************************)
FoldBits(f(_, _), base, S) == FoldSet(LAMBDA i, acc: f(acc, i), base, S)

exec_Zba(op, a, b) ==
    LET u == Low(a, WLEN)
    IN  CASE op = "ADD_UW" -> Wrap(b + u)
          [] op = "SH1ADD" -> Wrap(b + Shl(a, 1, XLEN))
          [] op = "SH2ADD" -> Wrap(b + Shl(a, 2, XLEN))
          [] op = "SH3ADD" -> Wrap(b + Shl(a, 3, XLEN))
          [] op = "SH1ADD_UW" -> Wrap(b + Shl(u, 1, XLEN))
          [] op = "SH2ADD_UW" -> Wrap(b + Shl(u, 2, XLEN))
          [] op = "SH3ADD_UW" -> Wrap(b + Shl(u, 3, XLEN))

\* CLZ scans down for the first set bit and keeps -1 when there is none.
\* Mutant: it keeps 0.
exec_CLZ_zero(a, w) ==
    LET set == {i \in 0 .. w - 1 : Bit(Low(a, w), i) = 1}
        c   == IF set = {} THEN 0 ELSE Max(set)
    IN  Wrap(w - 1 - c)
exec_CLZ(a, w) ==
    LET set == {i \in 0 .. w - 1 : Bit(Low(a, w), i) = 1}
        c   == IF set = {} THEN -1 ELSE Max(set)
    IN  Wrap(w - 1 - c)
exec_CTZ(a, w) ==
    LET set == {i \in 0 .. w - 1 : Bit(Low(a, w), i) = 1}
    IN  IF set = {} THEN w ELSE Min(set)
exec_CPOP(a, w) == FoldBits(LAMBDA n, i: n + Bit(Low(a, w), i), 0, 0 .. w - 1)

exec_Zbb_logic(op, a, b) ==
    CASE op = "ANDN" -> a & Inv(b)
      [] op = "ORN" -> a | Inv(b)
      [] op = "XNOR" -> Inv(a ^^ b)
      [] op = "MAX" -> Wrap(Max({Signed(a, XLEN), Signed(b, XLEN)}))
      [] op = "MAXU" -> Max({a, b})
      [] op = "MIN" -> Wrap(Min({Signed(a, XLEN), Signed(b, XLEN)}))
      [] op = "MINU" -> Min({a, b})
      [] op = "SEXT_B" -> Sext(a, BYTE)
      [] op = "SEXT_H" -> Sext(a, 2 * BYTE)
      [] op = "ZEXT_H" -> Low(a, 2 * BYTE)

\* With a shift count of zero the source shifts by the full width, which C++
\* leaves undefined; the host's shift takes the count modulo the width.  The W
\* forms shift a 64-bit value that holds 32 bits.
exec_Zbb_rotate(op, a, b) ==
    LET u == Low(a, WLEN)
        n == b % XLEN
        m == b % WLEN
    IN  CASE op = "ROL" -> Shl(a, n, XLEN) | Shr(a, (XLEN - n) % XLEN, XLEN)
          [] op = "ROR" -> Shr(a, n, XLEN) | Shl(a, (XLEN - n) % XLEN, XLEN)
          [] op = "ROLW" -> Sext(Shl(u, m, XLEN) | Shr(u, WLEN - m, XLEN), WLEN)
          [] op = "RORW" -> Sext(Shr(u, m, XLEN) | Shl(u, WLEN - m, XLEN), WLEN)

ByteAt(x, i) == Low(Shr(x, i * BYTE, XLEN), BYTE)
exec_ORC_B(a) ==
    FoldBits(LAMBDA out, i: out | Shl(IF ByteAt(a, i) = 0 THEN 0 ELSE 2^BYTE - 1, i * BYTE, XLEN),
             0, 0 .. 7)
exec_REV8(a) == FoldBits(LAMBDA out, i: out | Shl(ByteAt(a, i), (7 - i) * BYTE, XLEN), 0, 0 .. 7)

exec_Zbc(op, a, b) ==
    CASE op = "CLMUL" ->
            FoldBits(LAMBDA out, i: IF Bit(b, i) = 1 THEN out ^^ Shl(a, i, XLEN) ELSE out,
                     0, 0 .. XLEN - 1)
      [] op = "CLMULH" ->
            FoldBits(LAMBDA out, i: IF Bit(b, i) = 1 THEN out ^^ Shr(a, XLEN - i, XLEN) ELSE out,
                     0, 1 .. XLEN - 1)
      [] op = "CLMULR" ->
            FoldBits(LAMBDA out, i: IF Bit(b, i) = 1 THEN out ^^ Shr(a, XLEN - 1 - i, XLEN) ELSE out,
                     0, 0 .. XLEN - 1)

\* n is GPR[rs2] in BCLR and its like, inst.imm in BCLRI and its like.
exec_Zbs(op, a, n) ==
    LET one == 2^(n % XLEN)
    IN  CASE op = "BCLR" -> a & Inv(one)
          [] op = "BEXT" -> Bit(a, n % XLEN)
          [] op = "BINV" -> a ^^ one
          [] op = "BSET" -> a | one
=============================================================================
