------------------------------ MODULE Patterns ------------------------------
(***************************************************************************)
(* The instruction patterns that the init_* functions of src/sets register *)
(* with the decoder, and the immediate decoder each one names.             *)
(*                                                                         *)
(* A 32-bit word is the tuple <<f7, rs2, rs1, f3, rd, op>> of its fields,  *)
(* a 16-bit word the tuple <<f3, b12, f2, r1, g, r2, op>> (bits 15..13,    *)
(* 12, 11..10, 9..7, 6..5, 4..2, 1..0); every registered pattern fixes     *)
(* bits of these fields.                                                   *)
(***************************************************************************)
EXTENDS Integers, Sequences

(* register_instr: a field's bits are fixed ('0' and '1') or free ('*').   *)
\* The bits a pattern fixes in a field lie together, from 2^i = below up to 2^j = above.
Free_  == [below |-> 1, above |-> 1, match |-> 0]
Fix(v) == [below |-> 1, above |-> 128, match |-> v]                    \* the whole field
High(v, k) == [below |-> 2^k, above |-> 128, match |-> v * 2^k]          \* all but k low bits
Low2(v) == [below |-> 1, above |-> 4, match |-> v]

register_instr(name, fields, parse) == [name |-> name, fields |-> fields, imm |-> parse]
NoImm == "none"

\* The shapes of the 32-bit patterns.
R(n, f7, f3, op)         == register_instr(n, <<Fix(f7), Free_, Free_, Fix(f3), Free_, Fix(op)>>, NoImm)
Unary(n, f7, rs2, f3, op) == register_instr(n, <<Fix(f7), Fix(rs2), Free_, Fix(f3), Free_, Fix(op)>>, NoImm)
Sh6(n, f6, f3, op, parse)  == register_instr(n, <<High(f6, 1), Free_, Free_, Fix(f3), Free_, Fix(op)>>, parse)
Sh7(n, f7, f3, op, parse)  == [R(n, f7, f3, op) EXCEPT !.imm = parse]
I(n, f3, op, parse)        == register_instr(n, <<Free_, Free_, Free_, Fix(f3), Free_, Fix(op)>>, parse)
U(n, op, parse)            == register_instr(n, <<Free_, Free_, Free_, Free_, Free_, Fix(op)>>, parse)
Sys(n, f7, rs2)          == register_instr(n, <<Fix(f7), Fix(rs2), Fix(0), Fix(0), Fix(0), Fix(\b1110011)>>, NoImm)
Amo(n, f5, f3)           == register_instr(n, <<High(f5, 2), Free_, Free_, Fix(f3), Free_, Fix(\b0101111)>>, NoImm)
Fma(n, fmt, op)          == register_instr(n, <<Low2(fmt), Free_, Free_, Free_, Free_, Fix(op)>>, NoImm)
Frm(n, f7)               == register_instr(n, <<Fix(f7), Free_, Free_, Free_, Free_, Fix(\b1010011)>>, NoImm)
Fcvt(n, f7, rs2)         == register_instr(n, <<Fix(f7), Fix(rs2), Free_, Free_, Free_, Fix(\b1010011)>>, NoImm)
Fp(n, f7, f3)            == R(n, f7, f3, \b1010011)

OP == \b0110011
OP32 == \b0111011
IMM == \b0010011
IMM32 == \b0011011

init_rv64i ==
    << R("ADD", 0, 0, OP), R("ADDW", 0, 0, OP32), R("SUB", 32, 0, OP), R("SUBW", 32, 0, OP32),
       R("XOR", 0, 4, OP), R("OR", 0, 6, OP), R("AND", 0, 7, OP), R("SLL", 0, 1, OP), R("SLLW", 0, 1, OP32),
       R("SRL", 0, 5, OP), R("SRLW", 0, 5, OP32), R("SRA", 32, 5, OP), R("SRAW", 32, 5, OP32),
       R("SLT", 0, 2, OP), R("SLTU", 0, 3, OP),
       I("ADDI", 0, IMM, "I"), I("ADDIW", 0, IMM32, "I"), I("XORI", 4, IMM, "I"), I("ORI", 6, IMM, "I"),
       I("ANDI", 7, IMM, "I"), Sh6("SLLI", 0, 1, IMM, "shamt64"), Sh7("SLLIW", 0, 1, IMM32, "shamt"),
       Sh7("SRLIW", 0, 5, IMM32, "shamt"), Sh7("SRAIW", 32, 5, IMM32, "shamt"),
       Sh6("SRLI", 0, 5, IMM, "shamt64"), Sh6("SRAI", 16, 5, IMM, "shamt64"),
       I("SLTI", 2, IMM, "I"), I("SLTIU", 3, IMM, "I"),
       I("LB", 0, 3, "I"), I("LH", 1, 3, "I"), I("LW", 2, 3, "I"), I("LD", 3, 3, "I"),
       I("LBU", 4, 3, "I"), I("LHU", 5, 3, "I"), I("LWU", 6, 3, "I"),
       I("SB", 0, \b0100011, "S"), I("SH", 1, \b0100011, "S"), I("SW", 2, \b0100011, "S"), I("SD", 3, \b0100011, "S"),
       I("BEQ", 0, \b1100011, "B"), I("BNE", 1, \b1100011, "B"), I("BLT", 4, \b1100011, "B"),
       I("BGE", 5, \b1100011, "B"), I("BLTU", 6, \b1100011, "B"), I("BGEU", 7, \b1100011, "B"),
       U("JAL", \b1101111, "J"), I("JALR", 0, \b1100111, "I"), U("LUI", \b0110111, "U"), U("AUIPC", \b0010111, "U"),
       Sys("ECALL", 0, 0), Sys("EBREAK", 0, 1),
       register_instr("FENCE", <<High(0, 3), Free_, Fix(0), Fix(0), Fix(0), Fix(\b0001111)>>, "I") >>

init_rv64m ==
    << R("MUL", 1, 0, OP), R("MULW", 1, 0, OP32), R("MULH", 1, 1, OP), R("MULHSU", 1, 2, OP), R("MULHU", 1, 3, OP),
       R("DIV", 1, 4, OP), R("DIVU", 1, 5, OP), R("DIVUW", 1, 5, OP32), R("DIVW", 1, 4, OP32),
       R("REM", 1, 6, OP), R("REMU", 1, 7, OP), R("REMUW", 1, 7, OP32), R("REMW", 1, 6, OP32) >>

AmoNames == << <<"AMOSWAP", 1>>, <<"AMOADD", 0>>, <<"AMOAND", 12>>, <<"AMOXOR", 4>>, <<"AMOOR", 8>>, <<"AMOMIN", 16>>,
               <<"AMOMINU", 24>>, <<"AMOMAX", 20>>, <<"AMOMAXU", 28>>, <<"LR", 2>>, <<"SC", 3>> >>
init_rv64a == [i \in DOMAIN AmoNames |-> Amo(<<AmoNames[i][1], "W">>, AmoNames[i][2], 2)]
              \o [i \in DOMAIN AmoNames |-> Amo(<<AmoNames[i][1], "D">>, AmoNames[i][2], 3)]

\* The rows rv64f.cpp and rv64d.cpp share; p is the format, 0 for S and 1 for D.
FpRows(p, s) ==
    << Fma(<<"FMADD", s>>, p, \b1000011), Fma(<<"FMSUB", s>>, p, \b1000111),
       Fma(<<"FNMADD", s>>, p, \b1001111), Fma(<<"FNMSUB", s>>, p, \b1001011),
       Frm(<<"FADD", s>>, p), Frm(<<"FSUB", s>>, 4 + p), Frm(<<"FMUL", s>>, 8 + p), Frm(<<"FDIV", s>>, 12 + p),
       Fcvt(<<"FSQRT", s>>, 44 + p, 0),
       Fp(<<"FSGNJ", s>>, 16 + p, 0), Fp(<<"FSGNJN", s>>, 16 + p, 1), Fp(<<"FSGNJX", s>>, 16 + p, 2),
       Fp(<<"FMIN", s>>, 20 + p, 0), Fp(<<"FMAX", s>>, 20 + p, 1) >>
    \o [i \in 1 .. 4 |-> Fcvt(<<"FCVT_X", s, i>>, 96 + p, i - 1)]
    \o [i \in 1 .. 4 |-> Fcvt(<<"FCVT_F", s, i>>, 104 + p, i - 1)]
    \o << Unary(<<"FMV_X", s>>, 112 + p, 0, 0, \b1010011), Unary(<<"FMV_F", s>>, 120 + p, 0, 0, \b1010011),
          Fp(<<"FEQ", s>>, 80 + p, 2), Fp(<<"FLT", s>>, 80 + p, 1), Fp(<<"FLE", s>>, 80 + p, 0),
          Unary(<<"FCLASS", s>>, 112 + p, 0, 1, \b1010011),
          I(<<"FL", s>>, 2 + p, \b0000111, "I"), I(<<"FS", s>>, 2 + p, \b0100111, "S") >>
init_rv64f == FpRows(0, "S")
init_rv64d == FpRows(1, "D") \o << Fcvt("FCVT_S_D", 32, 1), Fcvt("FCVT_D_S", 33, 0) >>

init_priv == << Sys("MRET", 24, 2), Sys("SRET", 8, 2), Sys("WFI", 8, 5),
                register_instr("SFENCE_VMA", <<Fix(9), Free_, Free_, Fix(0), Fix(0), Fix(\b1110011)>>, NoImm) >>
init_zicsr == << I("CSRRW", 1, \b1110011, "Zicsr"), I("CSRRS", 2, \b1110011, "Zicsr"), I("CSRRC", 3, \b1110011, "Zicsr"),
                 I("CSRRWI", 5, \b1110011, "Zicsr"), I("CSRRSI", 6, \b1110011, "Zicsr"), I("CSRRCI", 7, \b1110011, "Zicsr") >>
init_zifencei == << I("FENCE_I", 1, \b0001111, NoImm) >>
init_zicboz == << register_instr("cbo_zero", <<Fix(0), Fix(4), Free_, Fix(2), Fix(0), Fix(\b0001111)>>, NoImm) >>
init_zba == << R("ADD_UW", 4, 0, OP32), R("SH1ADD", 16, 2, OP), R("SH1ADD_UW", 16, 2, OP32), R("SH2ADD", 16, 4, OP),
               R("SH2ADD_UW", 16, 4, OP32), R("SH3ADD", 16, 6, OP), R("SH3ADD_UW", 16, 6, OP32),
               Sh6("SLLI_UW", 2, 1, IMM32, NoImm) >>
init_zbb ==
    << R("ANDN", 32, 7, OP), R("ORN", 32, 6, OP), R("XNOR", 32, 4, OP), Unary("CLZ", 48, 0, 1, IMM), Unary("CLZW", 48, 0, 1, IMM32),
       Unary("CTZ", 48, 1, 1, IMM), Unary("CTZW", 48, 1, 1, IMM32), Unary("CPOP", 48, 2, 1, IMM), Unary("CPOPW", 48, 2, 1, IMM32),
       R("MAX", 5, 6, OP), R("MAXU", 5, 7, OP), R("MIN", 5, 4, OP), R("MINU", 5, 5, OP), Unary("SEXT_B", 48, 4, 1, IMM),
       Unary("SEXT_H", 48, 5, 1, IMM), Unary("ZEXT_H", 4, 0, 4, OP32), R("ROL", 48, 1, OP), R("ROLW", 48, 1, OP32),
       R("ROR", 48, 5, OP), Sh6("RORI", 24, 5, IMM, NoImm), R("RORIW", 48, 5, IMM32), R("RORW", 48, 5, OP32),
       Unary("ORC_B", 20, 7, 5, IMM), Unary("REV8", 53, 24, 5, IMM) >>
init_zbc == << R("CLMUL", 5, 1, OP), R("CLMULH", 5, 3, OP), R("CLMULR", 5, 2, OP) >>
init_zbs == << R("BCLR", 36, 1, OP), Sh6("BCLRI", 18, 1, IMM, NoImm), R("BEXT", 36, 5, OP), Sh6("BEXTI", 18, 5, IMM, NoImm),
               R("BINV", 52, 1, OP), Sh6("BINVI", 26, 1, IMM, NoImm), R("BSET", 20, 1, OP), Sh6("BSETI", 10, 1, IMM, NoImm) >>

\* The shapes of the 16-bit patterns.
C3(n, f3, op, parse)     == register_instr(n, <<Fix(f3), Free_, Free_, Free_, Free_, Free_, Fix(op)>>, parse)
C2(n, f2, parse)         == register_instr(n, <<Fix(4), Free_, Fix(f2), Free_, Free_, Free_, Fix(1)>>, parse)
CA(n, b12, g)          == register_instr(n, <<Fix(4), Fix(b12), Fix(3), Free_, Fix(g), Free_, Fix(1)>>, NoImm)
CR(n, b12)             == register_instr(n, <<Fix(4), Fix(b12), Free_, Free_, Free_, Free_, Fix(2)>>, NoImm)
CJ(n, b12)             == register_instr(n, <<Fix(4), Fix(b12), Free_, Free_, Fix(0), Fix(0), Fix(2)>>, NoImm)
init_rv64c ==
    << C3("C_ADDI4SPN", 0, 0, "c_uimm"), C3("C_LW", 2, 0, "c_uimm_cl"), C3("C_LD", 3, 0, "c_uimm_cl1"),
       C3("C_SW", 6, 0, "c_uimm_cl"), C3("C_SD", 7, 0, "c_uimm_cl1"),
       register_instr("C_NOP", <<Fix(0), Fix(0), Fix(0), Fix(0), Fix(0), Fix(0), Fix(1)>>, NoImm),
       C3("C_ADDI", 0, 1, "c_nzimm"), C3("C_ADDIW", 1, 1, "c_nzimm"), C3("C_LI", 2, 1, "c_nzimm"),
       C3("C_LUI_ADDI16SP", 3, 1, "c_nzimm"), C2("C_SRLI", 0, "c_uimm_arith"), C2("C_SRAI", 1, "c_uimm_arith"),
       C2("C_ANDI", 2, "c_uimm_arith"), CA("C_SUB", 0, 0), CA("C_XOR", 0, 1), CA("C_OR", 0, 2), CA("C_AND", 0, 3),
       CA("C_SUBW", 1, 0), CA("C_ADDW", 1, 1), C3("C_J", 5, 1, "c_j_imm"), C3("C_BEQZ", 6, 1, "c_b_imm"),
       C3("C_BNEZ", 7, 1, "c_b_imm"), C3("C_SLLI", 0, 2, "c_uimm_arith"), C3("C_LWSP", 2, 2, "c_uimm_lwsp"),
       C3("C_LDSP", 3, 2, "c_uimm_ldsp"), CJ("C_JR", 0), CR("C_MV", 0),
       register_instr("C_EBREAK", <<Fix(4), Fix(1), Fix(0), Fix(0), Fix(0), Fix(0), Fix(2)>>, NoImm),
       CJ("C_JALR", 1), CR("C_ADD", 1), C3("C_SWSP", 6, 2, "c_uimm_swsp"), C3("C_SDSP", 7, 2, "c_uimm_sdsp"),
       C3("C_FLD", 1, 0, "c_uimm_cl1"), C3("C_FSD", 5, 0, "c_uimm_cl1"),
       C3("C_FLDSP", 1, 2, "c_uimm_ldsp"), C3("C_FSDSP", 5, 2, "c_uimm_sdsp") >>

\* init_all_instrs, in its order.
init_all_instrs == init_rv64i \o init_rv64m \o init_rv64a \o init_rv64f \o init_rv64d \o init_rv64c \o init_priv
                \o init_zicsr \o init_zifencei \o init_zba \o init_zbb \o init_zbc \o init_zbs \o init_zicboz
=============================================================================
