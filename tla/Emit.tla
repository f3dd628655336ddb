-------------------------------- MODULE Emit --------------------------------
(***************************************************************************)
(* The arithmetic emitters of the JIT (src/jit/arch/x86_64/emit.cpp): the  *)
(* host code that one RV64I/RV64M instruction compiles to once its guest   *)
(* registers are in host registers.  D, S1 and S2 are the host registers   *)
(* of rd, rs1 and rs2; an operand that is x0 has the register NoReg.       *)
(* Which registers they are is decided by the allocator (module JitBlock): *)
(* D is S1 when rd = rs1, S2 when rd = rs2, and S2 is S1 when rs2 = rs1.   *)
(***************************************************************************)
EXTENDS Word, X86

NoReg == 255
move(d, s) == IF d = s THEN <<>> ELSE mov_rr(d, s)
zero(d) == xor_rr(d, d)

emit_r_add(D, S1, S2) ==
    CASE S1 = NoReg /\ S2 = NoReg -> zero(D)
      [] S1 = NoReg /\ S2 # NoReg -> move(D, S2)
      [] S1 # NoReg /\ S2 = NoReg -> move(D, S1)
      [] OTHER -> IF D = S1 THEN add_rr(D, S2)
                  ELSE IF D = S2 THEN add_rr(D, S1)
                  ELSE mov_rr(D, S1) \o add_rr(D, S2)

\* Mutant: the case D = S2 is not told apart.
emit_r_sub_clobber(D, S1, S2) ==
    CASE S1 = NoReg /\ S2 = NoReg -> zero(D)
      [] S1 # NoReg /\ S2 = NoReg -> move(D, S1)
      [] S1 = NoReg /\ S2 # NoReg -> zero(D) \o sub_rr(D, S2)
      [] OTHER -> move(D, S1) \o sub_rr(D, S2)
emit_r_sub(D, S1, S2) ==
    CASE S1 = NoReg /\ S2 = NoReg -> zero(D)
      [] S1 # NoReg /\ S2 = NoReg -> move(D, S1)
      [] S1 = NoReg /\ S2 # NoReg ->
            IF D = S2 THEN mov_rr(REG_TMP, S2) \o neg64(REG_TMP) \o mov_rr(D, REG_TMP)
            ELSE zero(D) \o sub_rr(D, S2)
      [] OTHER -> IF D = S1 THEN sub_rr(D, S2)
                  ELSE IF D = S2
                  THEN mov_rr(REG_TMP, S1) \o sub_rr(REG_TMP, S2) \o mov_rr(D, REG_TMP)
                  ELSE mov_rr(D, S1) \o sub_rr(D, S2)

LogicField == [XOR |-> 6, OR |-> 1, AND |-> 4]
emit_r_logic(D, S1, S2, op) ==
    LET alu(d, s) == arith_rr64(LogicField[op], d, s)
        pass(s) == IF op = "AND" THEN zero(D) ELSE move(D, s)
    IN  CASE S1 = NoReg /\ S2 = NoReg -> zero(D)
          [] S1 = NoReg /\ S2 # NoReg -> pass(S2)
          [] S1 # NoReg /\ S2 = NoReg -> pass(S1)
          [] OTHER -> IF D = S1 THEN alu(D, S2)
                      ELSE IF D = S2 THEN alu(D, S1)
                      ELSE mov_rr(D, S1) \o alu(D, S2)

ShiftField == [SLL |-> 4, SRL |-> 5, SRA |-> 7]
emit_r_shift(D, S1, S2, op, w) ==
    CASE S1 # NoReg /\ S2 # NoReg ->
            mov_rr(REG_TMP, S2) \o move(D, S1)
                \o (IF w THEN shift_r32_cl(ShiftField[op], D) ELSE shift_r64_cl(ShiftField[op], D))
      [] S1 # NoReg /\ S2 = NoReg -> move(D, S1)
      [] OTHER -> zero(D)

SetField == [SLT |-> \h9C, SLTU |-> \h92]
emit_r_set(D, S1, S2, op) ==
    LET T == REG_TMP
        set(d) == setcc(SetField[op], d) \o movzx_r64_r8(d, d)
    IN  CASE S1 = NoReg /\ S2 = NoReg -> zero(D)
          [] S1 = NoReg /\ S2 # NoReg ->
                IF D = S2 THEN zero(T) \o cmp_rr(T, S2) \o set(T) \o mov_rr(D, T)
                ELSE zero(D) \o cmp_rr(D, S2) \o set(D)
          [] S1 # NoReg /\ S2 = NoReg ->
                IF D = S1 THEN zero(T) \o cmp_rr(S1, T) \o set(T) \o mov_rr(D, T)
                ELSE zero(D) \o cmp_rr(S1, D) \o set(D)
          [] OTHER -> cmp_rr(S1, S2) \o set(D)

widen(D, w) == IF w THEN movsxd(D, D) ELSE <<>>

emit_r_to(D, S1, S2, op, w) ==
    (CASE op = "ADD" -> emit_r_add(D, S1, S2)
       [] op = "SUB" -> emit_r_sub(D, S1, S2)
       [] op \in DOMAIN LogicField -> emit_r_logic(D, S1, S2, op)
       [] op \in DOMAIN ShiftField -> emit_r_shift(D, S1, S2, op, w)
       [] OTHER -> emit_r_set(D, S1, S2, op)) \o widen(D, w)

\* 0x3F scales to XLEN - 1.
emit_i_to(D, S1, imm, op, w) ==
    (CASE op = "ADD" -> IF S1 = NoReg THEN mov_imm32(D, imm) ELSE move(D, S1) \o add_imm(D, imm)
       [] op \in DOMAIN LogicField ->
             IF S1 # NoReg THEN move(D, S1) \o arith_imm64(LogicField[op], D, imm)
             ELSE IF op = "AND" THEN zero(D) ELSE mov_imm32(D, imm)
       [] op \in DOMAIN ShiftField ->
             IF S1 = NoReg THEN zero(D)
             ELSE move(D, S1) \o (IF w THEN shift_r32_imm(ShiftField[op], D, imm % XLEN)
                                  ELSE shift_r64_imm(ShiftField[op], D, imm % XLEN))
       [] OTHER ->
             LET set == setcc(SetField[op], D) \o movzx_r64_r8(D, D)
             IN  IF S1 # NoReg THEN cmp_imm(S1, imm) \o set
                 ELSE IF imm = 0 THEN zero(D) ELSE zero(D) \o cmp_imm(D, imm) \o set)
    \o widen(D, w)

\* AUIPC bakes no address: the pc is the entry in the context plus the offset
\* instr_bytes of the instruction in the block.
emit_u_to(D, imm, op, instr_bytes) ==
    IF op = "LUI" THEN mov_imm64(D, imm)
    ELSE mov_mr(D, REG_CTX, CTX_OFF_ENTRY) \o add_imm(D, imm + instr_bytes)

(***************************************************************************)
(* RV64M.  S1 and S2 are real registers here; r1 and r2 say whether rs1    *)
(* and rs2 are something other than x0.                                    *)
(***************************************************************************)
MulOps == {"MUL", "MULH", "MULHU", "MULHSU"}
RemOps == {"REM", "REMU"}
SignedOps == {"MULH", "MULHSU", "DIV", "REM"}

emit_m_zero(D, S1, r2, op, w) ==
    IF r2 \/ op \in MulOps THEN zero(D)
    ELSE IF op \notin RemOps THEN mov_imm32(D, -1)
    ELSE IF op = "REM" /\ w THEN (IF D = S1 THEN <<>> ELSE mov_rr32(D, S1)) \o movsxd(D, D)
    ELSE move(D, S1)

emit_m_mul(D, S1, S2, w) ==
    LET imul(d, s) == IF w THEN imul_rr32(d, s) \o movsxd(d, d) ELSE imul_rr(d, s)
    IN  IF D = S1 THEN imul(D, S2)
        ELSE IF D = S2 THEN imul(D, S1)
        ELSE (IF w THEN mov_rr32(D, S1) ELSE mov_rr(D, S1)) \o imul(D, S2)

\* The high word is in RDX; 63 scales to XLEN - 1.
emit_m_mulh(D, S1, S2, op) ==
    mov_rr(REG_ACC0, S1)
    \o (CASE op = "MULHSU" -> mul_r(S2) \o mov_rr(REG_TMP, S1) \o shift_r64_imm(7, REG_TMP, XLEN - 1)
                                \o and_rr(REG_TMP, S2) \o sub_rr(REG_ACC1, REG_TMP)
          [] op = "MULH" -> imul_r(S2)
          [] OTHER -> mul_r(S2))
    \o mov_rr(D, REG_ACC1)

\* RAX holds the dividend and RCX the divisor.
emit_m_load(S1, S2, op, w) ==
    LET get(d, s) == IF ~w THEN mov_rr(d, s)
                     ELSE IF op \in SignedOps THEN movsxd(d, s) ELSE mov_rr32(d, s)
    IN  get(REG_TMP, S2) \o get(REG_ACC0, S1)

\* The guard for a zero divisor, where the host division would fault.
emit_m_byzero(D, S1, op, w) ==
    IF op \notin RemOps THEN mov_imm32(D, -1)
    ELSE IF op = "REMU" /\ w THEN move(D, S1) ELSE mov_rr(D, REG_ACC0)

\* The guard for the divisor -1, where MIN / -1 would fault.
emit_m_byminus1(D, op, w) ==
    IF op \in RemOps THEN zero(D)
    ELSE (IF w THEN neg32(REG_ACC0) \o movsxd(REG_ACC0, REG_ACC0) ELSE neg64(REG_ACC0))
         \o mov_rr(D, REG_ACC0)

emit_m_divide(D, op, w) ==
    LET res == IF op \in RemOps THEN REG_ACC1 ELSE REG_ACC0
    IN  (CASE op \in SignedOps /\ w -> cdq \o idiv_r32(REG_TMP)
           [] op \in SignedOps /\ ~w -> cqo \o idiv_r(REG_TMP)
           [] op \notin SignedOps /\ w -> zero(REG_ACC1) \o div_r32(REG_TMP)
           [] OTHER -> zero(REG_ACC1) \o div_r(REG_TMP))
        \o (IF w THEN mov_rr32(D, res) \o movsxd(D, D) ELSE mov_rr(D, res))

\* The branch structure: jne over the guard, jmp over what the guard replaces.
guarded(guard, rest) == jcc8(\h75, guard \o <<\hEB, Len(rest)>>) \o rest

emit_m_div(D, S1, S2, op, w) ==
    LET divide == emit_m_divide(D, op, w)
        checked == IF op \in SignedOps
                   THEN cmp_imm(REG_TMP, -1) \o guarded(emit_m_byminus1(D, op, w), divide)
                   ELSE divide
    IN  emit_m_load(S1, S2, op, w) \o or_rr(REG_TMP, REG_TMP)
        \o guarded(emit_m_byzero(D, S1, op, w), checked)

emit_m_r_to(D, S1, S2, r1, r2, op, w) ==
    IF ~r2 \/ (~r1 /\ op \in MulOps \union RemOps) THEN emit_m_zero(D, S1, r2, op, w)
    ELSE IF op = "MUL" THEN emit_m_mul(D, S1, S2, w)
    ELSE IF op \in MulOps THEN emit_m_mulh(D, S1, S2, op)
    ELSE emit_m_div(D, S1, S2, op, w)
=============================================================================
