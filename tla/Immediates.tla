----------------------------- MODULE Immediates -----------------------------
(***************************************************************************)
(* The immediate decoders of include/decode.hpp.  A word is the function   *)
(* from bit numbers to bits; At places inst[hi:lo] at bit pos, what the    *)
(* source's shifts and masks do.                                           *)
(***************************************************************************)
EXTENDS Integers, FiniteSets, FiniteSetsExt, Folds

VARIABLE case        \* <<kind, imm>>: an immediate put into an instruction

get_bits(b, hi, lo) == MapThenSumSet(LAMBDA i : b[i] * 2^(i - lo), lo .. hi)
At(b, hi, lo, pos) == get_bits(b, hi, lo) * 2^pos
sext(v, bits) == IF v >= 2^(bits - 1) THEN v - 2^bits ELSE v

imm_Zicsr(b) == get_bits(b, 31, 20)
imm_I(b) == sext(get_bits(b, 31, 20), 12)
imm_S(b) == sext(At(b, 11, 7, 0) + At(b, 31, 25, 5), 12)
imm_B_bit7_low(b) == sext(At(b, 11, 8, 1) + At(b, 30, 25, 5) + At(b, 31, 31, 12), 13)
imm_B(b) == sext(At(b, 11, 8, 1) + At(b, 30, 25, 5) + At(b, 7, 7, 11) + At(b, 31, 31, 12), 13)
imm_U(b) == sext(get_bits(b, 31, 12), 20)               \* in units of 4096
imm_J(b) == sext(At(b, 30, 21, 1) + At(b, 20, 20, 11) + At(b, 19, 12, 12) + At(b, 31, 31, 20), 21)
shamt(b) == imm_I(b) % 32
shamt64(b) == imm_I(b) % 64
d_c_uimm(b) == At(b, 10, 7, 6) + At(b, 12, 11, 4) + At(b, 5, 5, 3) + At(b, 6, 6, 2)
d_c_uimm_cl(b) == At(b, 6, 6, 2) + At(b, 12, 10, 3) + At(b, 5, 5, 6)
d_c_uimm_cl1(b) == At(b, 6, 6, 7) + At(b, 12, 10, 3) + At(b, 5, 5, 6)
d_c_nzimm(b) == sext(At(b, 6, 2, 0) + At(b, 12, 12, 5), 6)
d_c_uimm_arith(b) == At(b, 6, 2, 0) + At(b, 12, 12, 5)
d_c_nzimm_9(b) ==
    sext(At(b, 6, 6, 4) + At(b, 2, 2, 5) + At(b, 5, 5, 6) + At(b, 3, 3, 7) + At(b, 4, 4, 8) + At(b, 12, 12, 9), 10)
d_c_j_imm(b) ==
    sext(At(b, 5, 3, 1) + At(b, 11, 11, 4) + At(b, 2, 2, 5) + At(b, 7, 7, 6) + At(b, 6, 6, 7) + At(b, 9, 9, 8)
         + At(b, 10, 10, 9) + At(b, 8, 8, 10) + At(b, 12, 12, 11), 12)
d_c_b_imm(b) == sext(At(b, 4, 3, 1) + At(b, 11, 10, 3) + At(b, 2, 2, 5) + At(b, 6, 5, 6) + At(b, 12, 12, 8), 9)
d_c_uimm_lwsp(b) == At(b, 6, 4, 2) + At(b, 12, 12, 5) + At(b, 3, 2, 6)
d_c_uimm_ldsp(b) == At(b, 6, 5, 3) + At(b, 12, 12, 5) + At(b, 3, 2, 6) + At(b, 4, 4, 8)
d_c_uimm_swsp(b) == At(b, 12, 9, 2) + At(b, 7, 7, 6) + At(b, 8, 8, 7)
d_c_uimm_sdsp(b) == At(b, 12, 10, 3) + At(b, 7, 7, 6) + At(b, 8, 8, 7) + At(b, 9, 9, 8)

Decoded(kind, b) ==
    CASE kind = "Zicsr" -> imm_Zicsr(b) [] kind = "I" -> imm_I(b) [] kind = "S" -> imm_S(b)
      [] kind = "B" -> imm_B(b) [] kind = "U" -> imm_U(b) [] kind = "J" -> imm_J(b)
      [] kind = "shamt" -> shamt(b) [] kind = "shamt64" -> shamt64(b)
      [] kind = "uimm" -> d_c_uimm(b) [] kind = "cl" -> d_c_uimm_cl(b) [] kind = "cl1" -> d_c_uimm_cl1(b)
      [] kind = "nzimm" -> d_c_nzimm(b) [] kind = "arith" -> d_c_uimm_arith(b) [] kind = "nzimm_9" -> d_c_nzimm_9(b)
      [] kind = "j" -> d_c_j_imm(b) [] kind = "b" -> d_c_b_imm(b) [] kind = "lwsp" -> d_c_uimm_lwsp(b)
      [] kind = "ldsp" -> d_c_uimm_ldsp(b) [] kind = "swsp" -> d_c_uimm_swsp(b) [] kind = "sdsp" -> d_c_uimm_sdsp(b)

-----------------------------------------------------------------------------
(* The instruction formats as an assembler fills them: word bits from the  *)
(* left, each with the immediate's bit it carries.                         *)
Run(hi, lo, top) == [i \in lo .. hi |-> top - (hi - i)]      \* inst[hi:lo] = imm[top:...]
Put(f, g) == [i \in DOMAIN f \union DOMAIN g |-> IF i \in DOMAIN f THEN f[i] ELSE g[i]]
Layout ==
    [Zicsr |-> Run(31, 20, 11), I |-> Run(31, 20, 11), S |-> Put(Run(31, 25, 11), Run(11, 7, 4)),
     B |-> Put(Put(Run(31, 31, 12), Run(30, 25, 10)), Put(Run(11, 8, 4), Run(7, 7, 11))),
     U |-> Run(31, 12, 19),
     J |-> Put(Put(Run(31, 31, 20), Run(30, 21, 10)), Put(Run(20, 20, 11), Run(19, 12, 19))),
     shamt |-> Run(24, 20, 4), shamt64 |-> Run(25, 20, 5),
     uimm |-> Put(Put(Run(12, 11, 5), Run(10, 7, 9)), Put(Run(6, 6, 2), Run(5, 5, 3))),
     cl |-> Put(Run(12, 10, 5), Put(Run(6, 6, 2), Run(5, 5, 6))), cl1 |-> Put(Run(12, 10, 5), Run(6, 5, 7)),
     nzimm |-> Put(Run(12, 12, 5), Run(6, 2, 4)), arith |-> Put(Run(12, 12, 5), Run(6, 2, 4)),
     nzimm_9 |-> Put(Put(Run(12, 12, 9), Put(Run(6, 6, 4), Run(5, 5, 6))), Put(Run(4, 3, 8), Run(2, 2, 5))),
     j |-> Put(Put(Put(Run(12, 12, 11), Run(11, 11, 4)), Put(Run(10, 9, 9), Run(8, 8, 10))),
               Put(Put(Run(7, 7, 6), Run(6, 6, 7)), Put(Run(5, 3, 3), Run(2, 2, 5)))),
     b |-> Put(Put(Run(12, 12, 8), Run(11, 10, 4)), Put(Run(6, 5, 7), Put(Run(4, 3, 2), Run(2, 2, 5)))),
     lwsp |-> Put(Run(12, 12, 5), Put(Run(6, 4, 4), Run(3, 2, 7))),
     ldsp |-> Put(Run(12, 12, 5), Put(Run(6, 5, 4), Run(4, 2, 8))),
     swsp |-> Put(Run(12, 9, 5), Run(8, 7, 7)), sdsp |-> Put(Run(12, 10, 5), Run(9, 7, 8))]
SignedKinds == {"I", "S", "B", "U", "J", "nzimm", "nzimm_9", "j", "b"}

\* The immediate bits a format carries, and its immediates with at most two of
\* them set or at most two of them clear.
Carried(layout) == {layout[i] : i \in DOMAIN layout}
ValueOf(bits) == MapThenSumSet(LAMBDA i : 2^i, bits)
Sparse(s) == {{x, y} : x \in s, y \in s} \union {{}}
Immediate(kind) ==
    LET all == Carried(Layout[kind])
        top == Max(all)
        Read(bits) == IF kind \in SignedKinds /\ top \in bits THEN ValueOf(bits) - 2^(top + 1) ELSE ValueOf(bits)
    IN  {Read(bits) : bits \in Sparse(all) \union {all \ c : c \in Sparse(all)}}
Bit(v, i) == (v \div 2^i) % 2
Encoded(layout, v, rest) == [i \in 0 .. 31 |-> IF i \in DOMAIN layout THEN Bit(v, layout[i]) ELSE rest]

ImmInit == case = <<>>
ImmNext == case = <<>> /\ \E kind \in DOMAIN Layout : \E v \in Immediate(kind) : case' = <<kind, v>>

\* An immediate that an instruction format carries comes back from the decoder
\* the emulator uses for that format with its value and its sign, whatever the
\* word's other bits are.
ImmediatesDecoded ==
    case # <<>> => \A rest \in {0, 1} : Decoded(case[1], Encoded(Layout[case[1]], case[2], rest)) = case[2]
=============================================================================
