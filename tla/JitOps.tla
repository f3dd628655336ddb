------------------------------- MODULE JitOps -------------------------------
(***************************************************************************)
(* One arithmetic instruction, run by the interpreter and by the JIT.      *)
(* The guest has registers x0..x3; the JIT keeps x1..x3 in the host        *)
(* registers Slot gives them, translates the instruction (the jit_*        *)
(* functions of src/jit/arch/x86_64), and the host runs the bytes.         *)
(***************************************************************************)
EXTENDS Isa, Emit, X86Cpu

CONSTANTS Values,      \* operand values a register may hold
          Imms         \* immediates of the I and U formats

\* ALUOp or MOp and the W flag that each translator passes on.
jit_R == [ADD |-> <<"ADD", FALSE>>, SUB |-> <<"SUB", FALSE>>, XOR |-> <<"XOR", FALSE>>,
          OR |-> <<"OR", FALSE>>, AND |-> <<"AND", FALSE>>, SLL |-> <<"SLL", FALSE>>,
          SRL |-> <<"SRL", FALSE>>, SRA |-> <<"SRA", FALSE>>, SLT |-> <<"SLT", FALSE>>,
          SLTU |-> <<"SLTU", FALSE>>, ADDW |-> <<"ADD", TRUE>>, SUBW |-> <<"SUB", TRUE>>,
          SLLW |-> <<"SLL", TRUE>>, SRLW |-> <<"SRL", TRUE>>, SRAW |-> <<"SRA", TRUE>>]
jit_I == [ADDI |-> <<"ADD", FALSE>>, XORI |-> <<"XOR", FALSE>>, ORI |-> <<"OR", FALSE>>,
          ANDI |-> <<"AND", FALSE>>, SLLI |-> <<"SLL", FALSE>>, SRLI |-> <<"SRL", FALSE>>,
          SRAI |-> <<"SRA", FALSE>>, SLTI |-> <<"SLT", FALSE>>, SLTIU |-> <<"SLTU", FALSE>>,
          ADDIW |-> <<"ADD", TRUE>>, SLLIW |-> <<"SLL", TRUE>>, SRLIW |-> <<"SRL", TRUE>>,
          SRAIW |-> <<"SRA", TRUE>>]
jit_M == [MUL |-> <<"MUL", FALSE>>, MULW |-> <<"MUL", TRUE>>, MULH |-> <<"MULH", FALSE>>,
          MULHU |-> <<"MULHU", FALSE>>, MULHSU |-> <<"MULHSU", FALSE>>, DIV |-> <<"DIV", FALSE>>,
          DIVU |-> <<"DIVU", FALSE>>, DIVW |-> <<"DIV", TRUE>>, DIVUW |-> <<"DIVU", TRUE>>,
          REM |-> <<"REM", FALSE>>, REMU |-> <<"REMU", FALSE>>, REMW |-> <<"REM", TRUE>>,
          REMUW |-> <<"REMU", TRUE>>]
\* The register forms take rd as rs1, except that C_MV adds x0.
jit_CR == [C_SUB |-> <<"SUB", FALSE>>, C_XOR |-> <<"XOR", FALSE>>, C_OR |-> <<"OR", FALSE>>,
           C_AND |-> <<"AND", FALSE>>, C_SUBW |-> <<"SUB", TRUE>>, C_ADDW |-> <<"ADD", TRUE>>,
           C_MV |-> <<"ADD", FALSE>>, C_ADD |-> <<"ADD", FALSE>>]
jit_CI == [C_ADDI4SPN |-> <<"ADD", FALSE>>, C_ADDI |-> <<"ADD", FALSE>>, C_ADDIW |-> <<"ADD", TRUE>>,
           C_LI |-> <<"ADD", FALSE>>, C_LUI |-> <<"ADD", FALSE>>, C_ADDI16SP |-> <<"ADD", FALSE>>,
           C_SLLI |-> <<"SLL", FALSE>>, C_SRLI |-> <<"SRL", FALSE>>, C_SRAI |-> <<"SRA", FALSE>>,
           C_ANDI |-> <<"AND", FALSE>>]
jit_U == {"LUI", "AUIPC"}

Instructions == DOMAIN jit_R \union DOMAIN jit_I \union DOMAIN jit_M
                \union DOMAIN jit_CR \union DOMAIN jit_CI \union jit_U

VARIABLES inst,    \* the instruction under test
          regs,    \* <<rd, rs1, rs2>>
          gpr,     \* the guest registers before it
          imm,     \* inst.imm
          done,    \* it was run
          cpu     \* the host after the compiled code
opsVars == <<inst, regs, gpr, imm, done, cpu>>

OpRegs == 0 .. 3
Slot(v) == <<9, 6, 11, 8>>[v + 1]
Reg1(v) == IF v = 0 THEN NoReg ELSE Slot(v)
Filler == 5
EntryPc == 24
InstrBytes == 4

Shifts == {"SLLI", "SRLI", "SRAI", "C_SLLI", "C_SRLI", "C_SRAI"}
ImmsOf(i) ==
    IF i \in Shifts THEN 0 .. XLEN - 1
    ELSE IF i \in {"SLLIW", "SRLIW", "SRAIW"} THEN 0 .. WLEN - 1
    ELSE IF i \in DOMAIN jit_I \union DOMAIN jit_CI \union jit_U THEN Imms ELSE {0}

\* The first operand's register: the compressed forms have no rs1 field.
Src1(i, rd, rs1) ==
    IF i \in {"C_MV", "C_LI", "C_LUI"} THEN 0
    ELSE IF i = "C_ADDI4SPN" THEN 2
    ELSE IF i \in DOMAIN jit_CR \union DOMAIN jit_CI THEN rd ELSE rs1

\* alu_r, alu_i, alu_u, m_op, c_alu, c_shift: nothing is emitted for rd = x0.
Translate(i, rd, rs1, rs2, n) ==
    LET D == Slot(rd)
        s1 == Src1(i, rd, rs1)
    IN  CASE rd = 0 -> <<>>
          [] rd # 0 /\ i \in DOMAIN jit_R -> emit_r_to(D, Reg1(s1), Reg1(rs2), jit_R[i][1], jit_R[i][2])
          [] rd # 0 /\ i \in DOMAIN jit_CR -> emit_r_to(D, Reg1(s1), Reg1(rs2), jit_CR[i][1], jit_CR[i][2])
          [] rd # 0 /\ i \in DOMAIN jit_I -> emit_i_to(D, Reg1(s1), n, jit_I[i][1], jit_I[i][2])
          [] rd # 0 /\ i \in DOMAIN jit_CI -> emit_i_to(D, Reg1(s1), n, jit_CI[i][1], jit_CI[i][2])
          [] rd # 0 /\ i \in DOMAIN jit_M ->
                emit_m_r_to(D, Slot(s1), Slot(rs2), s1 # 0, rs2 # 0, jit_M[i][1], jit_M[i][2])
          [] OTHER -> emit_u_to(D, n, i, InstrBytes)

\* What the interpreter writes to rd.
InterpretOp(i, a, b, n) ==
    CASE i \in {"ADDW", "SUBW", "SLLW", "SRLW", "SRAW"} -> exec_RW(i, a, b)
      [] i \in {"ADDIW", "SLLIW", "SRLIW", "SRAIW"} -> exec_IW(i, a, n)
      [] i \in {"MULW", "DIVW", "DIVUW", "REMW", "REMUW"} -> exec_MW(i, a, b)
      [] i \in DOMAIN jit_R \ {"ADDW", "SUBW", "SLLW", "SRLW", "SRAW"} -> exec_R(i, a, b)
      [] i \in DOMAIN jit_I \ {"ADDIW", "SLLIW", "SRLIW", "SRAIW"} -> exec_I(i, a, n)
      [] i \in DOMAIN jit_M \ {"MULW", "DIVW", "DIVUW", "REMW", "REMUW"} -> exec_M(i, a, b)
      [] i \in DOMAIN jit_CR \union DOMAIN jit_CI -> exec_C(i, a, b, n)
      [] OTHER -> exec_U(i, EntryPc + InstrBytes, n)

HostOf(g) == [r |-> [k \in 0 .. 15 |-> IF \E v \in OpRegs : Slot(v) = k
                                       THEN g[CHOOSE v \in OpRegs : Slot(v) = k] ELSE Filler],
              z |-> FALSE, l |-> FALSE, b |-> FALSE, entry |-> EntryPc, fault |-> FALSE]

OpsInit == /\ inst \in Instructions
           /\ regs = <<0, 0, 0>> /\ gpr = [v \in OpRegs |-> 0] /\ imm = 0
           /\ done = FALSE /\ cpu = HostOf(gpr)

Run ==
    /\ ~done
    /\ \E rd \in OpRegs, rs1 \in OpRegs, rs2 \in OpRegs, a \in Values, b \in Values, n \in ImmsOf(inst) :
        /\ (inst \notin DOMAIN jit_R \union DOMAIN jit_M \union DOMAIN jit_CR) => rs2 = 0
        /\ Src1(inst, rd, rs1) = rs1
        /\ rs2 \in {0, rs1} => b = 0
        /\ rs1 = 0 => a = 0
        /\ regs' = <<rd, rs1, rs2>>
        /\ imm' = n
        /\ gpr' = [v \in OpRegs |-> IF v = 0 THEN 0 ELSE IF v = rs1 THEN a
                                   ELSE IF v = rs2 THEN b ELSE Filler]
        /\ cpu' = Execute(HostOf(gpr'), Translate(inst, rd, rs1, rs2, n), 1)
    /\ done' = TRUE
    /\ UNCHANGED inst

OpsNext == Run

-----------------------------------------------------------------------------
\* The compiled code of every instruction, for every aliasing of rd, rs1, rs2
\* and x0 and all operands, leaves in rd what the interpreter's exec_* function
\* writes, changes no other guest register that a host register caches, and
\* never raises the host's division fault.
JitAgrees ==
    done => LET rd == regs[1]
                res == InterpretOp(inst, gpr[regs[2]], gpr[regs[3]], imm)
            IN  /\ ~cpu.fault
                /\ \A v \in OpRegs : cpu.r[Slot(v)] = IF v = rd /\ v # 0 THEN res ELSE gpr[v]
=============================================================================
