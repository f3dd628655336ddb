--------------------------------- MODULE X86 --------------------------------
(***************************************************************************)
(* The x86-64 encoder of the JIT (include/jit/rvjit_x86_64.hpp): every     *)
(* operator is the byte sequence the function of that name appends to the  *)
(* code buffer.  Only the forms the arithmetic emitters use are here.      *)
(***************************************************************************)
EXTENDS Integers, Sequences

RCX == 1
RDX == 2
REG_TMP == 1
REG_ACC0 == 0
REG_ACC1 == 2
REG_CTX == 12
REG_REGS == 13
RVJIT_HOST_POOL == <<6, 7, 8, 9, 10, 11>>
CTX_OFF_ENTRY == 32

\* CodeBuf::dw, CodeBuf::qw: little-endian immediates of 4 and 8 bytes.
dw(v) == [k \in 1 .. 4 |-> (v \div 256^(k - 1)) % 256]
qw(v) == dw(v) \o [k \in 1 .. 4 |-> IF v < 0 THEN 255 ELSE 0]

\* REX prefix; r and b extend the two register fields to sixteen registers.
rex(w, reg, rm) == <<64 + (IF w THEN 8 ELSE 0) + (IF reg >= 8 THEN 4 ELSE 0)
                        + (IF rm >= 8 THEN 1 ELSE 0)>>
modrm_reg(reg, rm) == <<192 + 8 * (reg % 8) + (rm % 8)>>
\* A base whose low bits are those of RSP needs an SIB byte.
modrm_mem(reg, base, disp) ==
    <<128 + 8 * (reg % 8) + (base % 8)>> \o (IF base % 8 = 4 THEN <<\h24>> ELSE <<>>) \o dw(disp)

mov_rr(dst, src) == rex(TRUE, src, dst) \o <<\h89>> \o modrm_reg(src, dst)
mov_rr32(dst, src) == rex(FALSE, src, dst) \o <<\h89>> \o modrm_reg(src, dst)
mov_mr(dst, base, disp) == rex(TRUE, dst, base) \o <<\h8B>> \o modrm_mem(dst, base, disp)
mov_imm32(dst, imm) == rex(TRUE, 0, dst) \o <<\hC7>> \o modrm_reg(0, dst) \o dw(imm)
mov_imm64(dst, imm) == rex(TRUE, 0, dst) \o <<\hB8 + (dst % 8)>> \o qw(imm)
movzx_r64_r8(dst, src) == rex(TRUE, dst, src) \o <<\h0F, \hB6>> \o modrm_reg(dst, src)
movsxd(dst, src) == rex(TRUE, dst, src) \o <<\h63>> \o modrm_reg(dst, src)

\* add 0, or 1, and 4, sub 5, xor 6, cmp 7.
arith_rr64(field, dst, src) == rex(TRUE, src, dst) \o <<1 + 8 * field>> \o modrm_reg(src, dst)
arith_imm64(field, dst, imm) == rex(TRUE, 0, dst) \o <<\h81>> \o modrm_reg(field, dst) \o dw(imm)
add_rr(dst, src) == arith_rr64(0, dst, src)
or_rr(dst, src) == arith_rr64(1, dst, src)
and_rr(dst, src) == arith_rr64(4, dst, src)
sub_rr(dst, src) == arith_rr64(5, dst, src)
xor_rr(dst, src) == arith_rr64(6, dst, src)
cmp_rr(a, b) == arith_rr64(7, a, b)
add_imm(dst, imm) == arith_imm64(0, dst, imm)
or_imm(dst, imm) == arith_imm64(1, dst, imm)
and_imm(dst, imm) == arith_imm64(4, dst, imm)
xor_imm(dst, imm) == arith_imm64(6, dst, imm)
cmp_imm(dst, imm) == arith_imm64(7, dst, imm)

neg64(dst) == rex(TRUE, 0, dst) \o <<\hF7>> \o modrm_reg(3, dst)
neg32(dst) == rex(FALSE, 0, dst) \o <<\hF7>> \o modrm_reg(3, dst)

\* shl 4, shr 5, sar 7.
shift_r64_imm(field, dst, imm) == rex(TRUE, 0, dst) \o <<\hC1>> \o modrm_reg(field, dst) \o <<imm>>
shift_r32_imm(field, dst, imm) == rex(FALSE, 0, dst) \o <<\hC1>> \o modrm_reg(field, dst) \o <<imm>>
shift_r64_cl(field, dst) == rex(TRUE, 0, dst) \o <<\hD3>> \o modrm_reg(field, dst)
shift_r32_cl(field, dst) == rex(FALSE, 0, dst) \o <<\hD3>> \o modrm_reg(field, dst)

setcc(cc, dst) == rex(FALSE, 0, dst) \o <<\h0F, cc>> \o modrm_reg(0, dst)

mul_r(rm) == rex(TRUE, 0, rm) \o <<\hF7>> \o modrm_reg(4, rm)
imul_r(rm) == rex(TRUE, 0, rm) \o <<\hF7>> \o modrm_reg(5, rm)
imul_rr(dst, src) == rex(TRUE, dst, src) \o <<\h0F, \hAF>> \o modrm_reg(dst, src)
imul_rr32(dst, src) == rex(FALSE, dst, src) \o <<\h0F, \hAF>> \o modrm_reg(dst, src)
div_r(rm) == rex(TRUE, 0, rm) \o <<\hF7>> \o modrm_reg(6, rm)
div_r32(rm) == rex(FALSE, 0, rm) \o <<\hF7>> \o modrm_reg(6, rm)
idiv_r(rm) == rex(TRUE, 0, rm) \o <<\hF7>> \o modrm_reg(7, rm)
idiv_r32(rm) == rex(FALSE, 0, rm) \o <<\hF7>> \o modrm_reg(7, rm)
cqo == rex(TRUE, 0, 0) \o <<\h99>>
cdq == <<\h99>>

\* jcc8 and the patch_rel8 that closes it: a forward jump over `body`.
jcc8(opcode, body) == <<opcode, Len(body)>> \o body
=============================================================================
