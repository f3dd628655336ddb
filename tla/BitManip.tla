------------------------------ MODULE BitManip ------------------------------
(***************************************************************************)
(* The bit manipulation instructions of src/sets/zba.cpp, zbb.cpp, zbc.cpp *)
(* and zbs.cpp, checked bit by bit against what each one is defined to do. *)
(***************************************************************************)
EXTENDS Isa, Patterns

CONSTANT Operands      \* operand values

VARIABLE run           \* <<op, a, b>>: the instruction and its operands
bitVars == <<run>>

Counting == {"CLZ", "CTZ", "CPOP"}
CountingW == {"CLZW", "CTZW", "CPOPW"}
Logic == {"ANDN", "ORN", "XNOR", "MAX", "MAXU", "MIN", "MINU", "SEXT_B", "SEXT_H", "ZEXT_H"}
Rotates == {"ROL", "ROR", "ROLW", "RORW"}
Zba == {"ADD_UW", "SH1ADD", "SH2ADD", "SH3ADD", "SH1ADD_UW", "SH2ADD_UW", "SH3ADD_UW"}
Zbc == {"CLMUL", "CLMULH", "CLMULR"}
Zbs == {"BCLR", "BEXT", "BINV", "BSET"}
Immediates_ == {"RORI", "RORIW", "SLLI_UW", "BCLRI", "BEXTI", "BINVI", "BSETI"}

\* inst.imm after decode_inst_slow: 0 when the pattern names no decoder.
DecodedImm(op, n) ==
    IF \E p \in Range(init_zba) \union Range(init_zbb) \union Range(init_zbs) : p.name = op /\ p.imm = NoImm
    THEN 0 ELSE n

\* RORI, RORIW and SLLI_UW; RORI by 0 shifts left by 64, which the host takes as 0.
exec_Zb_shift(op, a, imm) ==
    LET u == Low(a, WLEN)
    IN  CASE op = "RORI" -> Shr(a, imm, XLEN) | Shl(a, (XLEN - imm) % XLEN, XLEN)
          [] op = "RORIW" -> Shr(u, imm, XLEN) | Shl(u, WLEN - imm, XLEN)
          [] op = "SLLI_UW" -> Shl(u, imm, XLEN)
RegisterForm(op) == CASE op = "BCLRI" -> "BCLR" [] op = "BEXTI" -> "BEXT" [] op = "BINVI" -> "BINV" [] op = "BSETI" -> "BSET"

Result(op, a, b) ==
    CASE op = "CLZ" -> exec_CLZ(a, XLEN) [] op = "CLZW" -> exec_CLZ(a, WLEN)
      [] op = "CTZ" -> exec_CTZ(a, XLEN) [] op = "CTZW" -> exec_CTZ(a, WLEN)
      [] op = "CPOP" -> exec_CPOP(a, XLEN) [] op = "CPOPW" -> exec_CPOP(a, WLEN)
      [] op \in Logic -> exec_Zbb_logic(op, a, b)
      [] op \in Rotates -> exec_Zbb_rotate(op, a, b)
      [] op = "ORC_B" -> exec_ORC_B(a) [] op = "REV8" -> exec_REV8(a)
      [] op \in Zba -> exec_Zba(op, a, b)
      [] op \in Zbc -> exec_Zbc(op, a, b)
      [] op \in Zbs -> exec_Zbs(op, a, b)
      [] op \in {"RORI", "RORIW", "SLLI_UW"} -> exec_Zb_shift(op, a, DecodedImm(op, b))
      [] OTHER -> exec_Zbs(RegisterForm(op), a, DecodedImm(op, b))

RegisterOps == Counting \union CountingW \union Logic \union Rotates \union {"ORC_B", "REV8"} \union Zba \union Zbc \union Zbs

BitInit == run = <<>>
BitNext ==
    /\ run = <<>>
    /\ \E op \in RegisterOps \union Immediates_, a \in Operands, b \in Operands :
        /\ op \in Immediates_ => b < (IF op = "RORIW" THEN WLEN ELSE XLEN)
        /\ run' = <<op, a, b>>

-----------------------------------------------------------------------------
(* The definitions, by the set of positions whose bit is one.              *)
Set(x) == {i \in 0 .. XLEN - 1 : Bit(x, i) = 1}
FromSet(s) == MapThenSumSet(LAMBDA i : 2^i, s)
Half(s) == s \intersect 0 .. WLEN - 1
SextHalf(s) == IF WLEN - 1 \in s THEN s \union WLEN .. XLEN - 1 ELSE s
All == 0 .. XLEN - 1
ByteOf(i) == i \div BYTE

\* Bit k of the carry-less product: the parity of the pairs that meet in it.
Product(A, B, k) == (Cardinality({i \in A : k - i \in B}) % 2) = 1

Defined(op, a, b) ==
    LET A == Set(a)
        B == Set(b)
        n == b % XLEN
        m == b % WLEN
    IN  CASE op = "CLZ" -> Cardinality({i \in All : \A j \in i .. XLEN - 1 : j \notin A})
          [] op = "CTZ" -> Cardinality({i \in All : \A j \in 0 .. i : j \notin A})
          [] op = "CPOP" -> Cardinality(A)
          [] op = "CLZW" -> Cardinality({i \in Half(All) : \A j \in i .. WLEN - 1 : j \notin A})
          [] op = "CTZW" -> Cardinality({i \in Half(All) : \A j \in 0 .. i : j \notin A})
          [] op = "CPOPW" -> Cardinality(Half(A))
          [] op = "ANDN" -> FromSet(A \ B)
          [] op = "ORN" -> FromSet(A \union (All \ B))
          [] op = "XNOR" -> FromSet({i \in All : (i \in A) = (i \in B)})
          [] op = "MAX" -> IF (XLEN - 1 \in A) # (XLEN - 1 \in B) THEN (IF XLEN - 1 \in A THEN b ELSE a)
                           ELSE (IF a < b THEN b ELSE a)
          [] op = "MIN" -> IF (XLEN - 1 \in A) # (XLEN - 1 \in B) THEN (IF XLEN - 1 \in A THEN a ELSE b)
                           ELSE (IF a < b THEN a ELSE b)
          [] op = "MAXU" -> IF a < b THEN b ELSE a
          [] op = "MINU" -> IF a < b THEN a ELSE b
          [] op = "SEXT_B" -> FromSet({i \in All : Min({i, BYTE - 1}) \in A})
          [] op = "SEXT_H" -> FromSet({i \in All : Min({i, 2 * BYTE - 1}) \in A})
          [] op = "ZEXT_H" -> FromSet({i \in A : i < 2 * BYTE})
          [] op = "ROL" -> FromSet({i \in All : (i - n) % XLEN \in A})
          [] op \in {"ROR", "RORI"} -> FromSet({i \in All : (i + n) % XLEN \in A})
          [] op = "ROLW" -> FromSet(SextHalf({i \in Half(All) : (i - m) % WLEN \in A}))
          [] op \in {"RORW", "RORIW"} -> FromSet(SextHalf({i \in Half(All) : (i + m) % WLEN \in A}))
          [] op = "ORC_B" -> FromSet({i \in All : \E j \in A : ByteOf(j) = ByteOf(i)})
          [] op = "REV8" -> FromSet({i \in All : (7 - ByteOf(i)) * BYTE + (i % BYTE) \in A})
          [] op = "CLMUL" -> FromSet({k \in All : Product(A, B, k)})
          [] op = "CLMULH" -> FromSet({k \in All : Product(A, B, k + XLEN)})
          [] op = "CLMULR" -> FromSet({k \in All : Product(A, B, k + XLEN - 1)})
          [] op \in {"BCLR", "BCLRI"} -> FromSet(A \ {n})
          [] op \in {"BSET", "BSETI"} -> FromSet(A \union {n})
          [] op \in {"BINV", "BINVI"} -> FromSet(IF n \in A THEN A \ {n} ELSE A \union {n})
          [] op \in {"BEXT", "BEXTI"} -> IF n \in A THEN 1 ELSE 0
          [] op = "SLLI_UW" -> FromSet({i \in All : i - n \in Half(A)})
          [] op = "ADD_UW" -> (b + FromSet(Half(A))) % 2^XLEN
          [] op = "SH1ADD" -> (b + 2 * a) % 2^XLEN
          [] op = "SH2ADD" -> (b + 4 * a) % 2^XLEN
          [] op = "SH3ADD" -> (b + 8 * a) % 2^XLEN
          [] op = "SH1ADD_UW" -> (b + 2 * FromSet(Half(A))) % 2^XLEN
          [] op = "SH2ADD_UW" -> (b + 4 * FromSet(Half(A))) % 2^XLEN
          [] op = "SH3ADD_UW" -> (b + 8 * FromSet(Half(A))) % 2^XLEN

\* Every register form of Zba, Zbb, Zbc and Zbs computes what its extension
\* defines, bit by bit, for zero, for all shift counts and for words with no
\* bit set, where the loops of the source end without finding one.
BitManipAgrees ==
    (run # <<>> /\ run[1] \in RegisterOps) => Result(run[1], run[2], run[3]) = Defined(run[1], run[2], run[3])

\* README.md lists Zba, Zbb and Zbs as done: their immediate forms shift by, and
\* pick the bit of, the immediate of the instruction.
ImmediateFormsAgree ==
    (run # <<>> /\ run[1] \in Immediates_) => Result(run[1], run[2], run[3]) = Defined(run[1], run[2], run[3])
=============================================================================
