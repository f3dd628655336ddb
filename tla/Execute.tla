------------------------------ MODULE Execute -------------------------------
(***************************************************************************)
(* The interpreter's instructions that touch memory or the program counter *)
(* (src/sets/rv64i.cpp, rv64c.cpp, rv64a.cpp) and run_block, which runs a  *)
(* block of them (src/block.cpp).  A state is the program counter, three   *)
(* registers, of which x2 is the stack pointer, and memory by bytes; what  *)
(* lies outside Ram faults.  An exec operator yields the state after the   *)
(* instruction with pc + increase_pc applied, or the cause of its trap.    *)
(***************************************************************************)
EXTENDS Isa, Sequences

CONSTANTS
  Ram,           \* addresses that do not fault
  GprValues,      \* register values
  Offsets,       \* immediates
  Pc             \* program counter of the block

VARIABLES
  before,        \* the state a block starts in
  block,         \* the instructions that were run
  after          \* the outcome
execVars == <<before, block, after>>

Regs == 0 .. 2
Ok(s) == [ok |-> TRUE, s |-> s, cause |-> "none"]
Trap(s, cause) == [ok |-> FALSE, s |-> s, cause |-> cause]
Step(s, n) == Ok([s EXCEPT !.pc = Wrap(@ + n)])
Jump(s, target) == Ok([s EXCEPT !.pc = target])
Write(s, rd, v) == [s EXCEPT !.gpr[rd] = v]

------------------------------------------------------------------------------
(* Memory: MMIO::read and MMIO::write, whose own steps Mmio models. *)

Bytes(op) == CASE op \in {"LB", "LBU", "SB"} -> 1 [] op \in {"LH", "LHU", "SH"} -> 2
               [] op \in {"LW", "LWU", "SW"} -> 4 [] op \in {"LD", "SD"} -> 8
Mapped(a, n) == \A k \in 0 .. n - 1 : Wrap(a + k) \in Ram
Fetch(s, a, n) == MapThenSumSet(LAMBDA k : s.mem[Wrap(a + k)] * 2^(k * BYTE), 0 .. n - 1)
Put(s, a, n, v) ==
  [s EXCEPT !.mem = [b \in Ram |-> IF Wrap(b - a) < n THEN Low(v \div 2^(Wrap(b - a) * BYTE), BYTE) ELSE @[b]]]

\* LB .. LD at the address in rs1 plus imm; inc is the instruction's length.
load(s, op, rd, addr, inc) ==
  LET n == Bytes(op)
      v == Fetch(s, addr, n)
  IN IF ~Mapped(addr, n) THEN Trap(s, "load fault")
     ELSE Step(Write(s, rd, IF op \in {"LB", "LH", "LW"} THEN Sext(v, n * BYTE) ELSE v), inc)
store(s, op, addr, v, inc) ==
  IF ~Mapped(addr, Bytes(op)) THEN Trap(s, "store fault") ELSE Step(Put(s, addr, Bytes(op), v), inc)

exec_load(s, i) == load(s, i.op, i.rd, Wrap(s.gpr[i.rs1] + i.imm), 4)
exec_store(s, i) == store(s, i.op, Wrap(s.gpr[i.rs1] + i.imm), s.gpr[i.rs2], 4)

\* AMO64 and AMO32 with the function each instruction passes them.
amo(op, a, b, w) ==
  CASE op = "AMOSWAP" -> b [] op = "AMOADD" -> Low(a + b, w) [] op = "AMOXOR" -> a ^^ b
    [] op = "AMOAND" -> a & b [] op = "AMOOR" -> a | b
    [] op = "AMOMIN" -> IF Signed(a, w) < Signed(b, w) THEN a ELSE b
    [] op = "AMOMAX" -> IF Signed(a, w) > Signed(b, w) THEN a ELSE b
    [] op = "AMOMINU" -> Min({a, b}) [] op = "AMOMAXU" -> Max({a, b})
\* Mutant: rd is written whether or not the access succeeded.
exec_AMO_unchecked(s, i) ==
  LET n == IF i.imm = 4 THEN 4 ELSE 8
      addr == s.gpr[i.rs1]
      old == Fetch(s, addr, n)
  IN IF ~Mapped(addr, n) THEN Trap(Write(s, i.rd, 0), "access fault")
     ELSE Step(Write(Put(s, addr, n, amo(i.op, old, Low(s.gpr[i.rs2], n * BYTE), n * BYTE)), i.rd, Sext(old, n * BYTE)), 4)
exec_AMO(s, i) ==
  LET n == IF i.imm = 4 THEN 4 ELSE 8      \* the W form or the D form
      w == n * BYTE
      addr == s.gpr[i.rs1]
      old == Fetch(s, addr, n)
  IN IF ~Mapped(addr, n) THEN Trap(s, "access fault")
     ELSE Step(Write(Put(s, addr, n, amo(i.op, old, Low(s.gpr[i.rs2], w), w)), i.rd, Sext(old, w)), 4)

------------------------------------------------------------------------------
(* Branches and jumps. *)

taken(op, a, b) ==
  CASE op = "BEQ" -> a = b [] op = "BNE" -> a # b
    [] op = "BLT" -> Signed(a, XLEN) < Signed(b, XLEN) [] op = "BGE" -> Signed(a, XLEN) >= Signed(b, XLEN)
    [] op = "BLTU" -> a < b [] op = "BGEU" -> a >= b
exec_branch(s, i) ==
  LET target == Wrap(s.pc + i.imm)
  IN IF ~taken(i.op, s.gpr[i.rs1], s.gpr[i.rs2]) THEN Step(s, 4)
     ELSE IF target % 2 # 0 THEN Trap(s, "misaligned") ELSE Jump(s, target)
exec_JAL(s, i) ==
  LET target == Wrap(s.pc + i.imm)
  IN IF target % 2 # 0 THEN Trap(s, "misaligned") ELSE Jump(Write(s, i.rd, Wrap(s.pc + 4)), target)
exec_JALR(s, i) ==
  LET target == Wrap(s.gpr[i.rs1] + i.imm)
  IN Jump(Write(s, i.rd, Wrap(s.pc + 4)), target - (target % 2))

------------------------------------------------------------------------------
(* The compressed forms. *)

Even(v) == v - (v % 2)
exec_C_mem(s, i) ==
  LET base == IF i.op \in {"C_LW", "C_LD", "C_SW", "C_SD"} THEN s.gpr[i.rs1] ELSE s.gpr[2]
      addr == Wrap(base + i.imm)
  IN CASE i.op \in {"C_LW", "C_LWSP"} -> load(s, "LW", i.rd, addr, 2)
       [] i.op \in {"C_LD", "C_LDSP"} -> load(s, "LD", i.rd, addr, 2)
       [] i.op \in {"C_SW", "C_SWSP"} -> store(s, "SW", addr, s.gpr[i.rs2], 2)
       [] i.op \in {"C_SD", "C_SDSP"} -> store(s, "SD", addr, s.gpr[i.rs2], 2)
exec_C_branch(s, i) ==
  IF (s.gpr[i.rd] = 0) = (i.op = "C_BEQZ") THEN Jump(s, Wrap(s.pc + i.imm)) ELSE Step(s, 2)
exec_C_J(s, i) == Jump(s, Wrap(s.pc + i.imm))
exec_C_JR(s, i) == Jump(s, Even(s.gpr[i.rd]))
\* Mutant: the link is written before the target is read.
exec_C_JALR_linked(s, i) == LET t == Write(s, 1, Wrap(s.pc + 2)) IN Jump(t, Even(t.gpr[i.rd]))
exec_C_JALR(s, i) == Jump(Write(s, 1, Wrap(s.pc + 2)), Even(s.gpr[i.rd]))

------------------------------------------------------------------------------
(* One instruction, and a block. *)

Loads == {"LB", "LH", "LW", "LD", "LBU", "LHU", "LWU"}
Stores == {"SB", "SH", "SW", "SD"}
Amos == {"AMOSWAP", "AMOADD", "AMOXOR", "AMOAND", "AMOOR", "AMOMIN", "AMOMAX", "AMOMINU", "AMOMAXU"}
Branches == {"BEQ", "BNE", "BLT", "BGE", "BLTU", "BGEU"}
CLoads == {"C_LW", "C_LD", "C_LWSP", "C_LDSP"}
CStores == {"C_SW", "C_SD", "C_SWSP", "C_SDSP"}

exec(s, i) ==
  CASE i.op \in Loads -> exec_load(s, i) [] i.op \in Stores -> exec_store(s, i)
    [] i.op \in Amos -> exec_AMO(s, i) [] i.op \in Branches -> exec_branch(s, i)
    [] i.op = "JAL" -> exec_JAL(s, i) [] i.op = "JALR" -> exec_JALR(s, i)
    [] i.op \in CLoads \cup CStores -> exec_C_mem(s, i)
    [] i.op \in {"C_BEQZ", "C_BNEZ"} -> exec_C_branch(s, i)
    [] i.op = "C_J" -> exec_C_J(s, i) [] i.op = "C_JR" -> exec_C_JR(s, i)
    [] i.op = "C_JALR" -> exec_C_JALR(s, i)
    [] i.op \in {"EBREAK", "C_EBREAK"} -> Trap(s, "breakpoint")

\* Every instruction but the last clears what it left in x0.
RECURSIVE run_insts(_, _)
run_insts(s, b) ==
  LET out == exec(s, Head(b))
  IN IF ~out.ok \/ Len(b) = 1 THEN out ELSE run_insts(Write(out.s, 0, 0), Tail(b))
\* Mutant: x0 is left as the last block left it.
run_block_unreset(s, b) == run_insts(s, b)
run_block(s, b) == run_insts(Write(s, 0, 0), b)

Ins(op, rd, rs1, rs2, imm) == [op |-> op, rd |-> rd, rs1 |-> rs1, rs2 |-> rs2, imm |-> imm]
EvenOffsets == {o \in Offsets : o % 2 = 0}
Instructions ==
  UNION {{Ins(op, rd, rs1, 0, imm) : op \in Loads \cup CLoads, rd \in Regs, rs1 \in Regs, imm \in Offsets},
         {Ins(op, 0, rs1, rs2, imm) : op \in Stores \cup CStores, rs1 \in Regs, rs2 \in Regs, imm \in Offsets},
         {Ins(op, rd, rs1, rs2, imm) : op \in Amos, rd \in Regs, rs1 \in Regs, rs2 \in Regs, imm \in {4, 8}},
         {Ins(op, 0, rs1, rs2, imm) : op \in Branches, rs1 \in Regs, rs2 \in Regs, imm \in EvenOffsets},
         {Ins(op, rd, rs1, 0, imm) : op \in {"JAL"}, rd \in Regs, rs1 \in {0}, imm \in EvenOffsets},
         {Ins(op, rd, rs1, 0, imm) : op \in {"JALR"}, rd \in Regs, rs1 \in Regs, imm \in Offsets},
         {Ins(op, rd, 0, 0, imm) : op \in {"C_BEQZ", "C_BNEZ", "C_J"}, rd \in Regs, imm \in EvenOffsets},
         {Ins(op, rd, 0, 0, 0) : op \in {"C_JR", "C_JALR", "C_EBREAK", "EBREAK"}, rd \in Regs \ {0}}}
\* Instructions that can leave x0 set for the next one of their block.
Firsts == {Ins("LD", 0, 1, 0, 0), Ins("AMOADD", 0, 1, 2, 8)}

\* What the block before left in x0: nothing, or all ones.
ExecInit ==
  /\ before \in [pc : {Pc}, gpr : {g \in [Regs -> GprValues] : g[0] \in {0, 2^XLEN - 1}},
                 mem : {[a \in Ram |-> IF a % 3 = 0 THEN 2^BYTE - 1 ELSE 0],
                        [a \in Ram |-> IF a % 4 = 1 THEN 0 ELSE 1]}]
  /\ block = <<>> /\ after = Ok(before)
ExecNext ==
  /\ block = <<>>
  /\ \E i \in Instructions : \E b \in {<<i>>} \cup {<<f, i>> : f \in Firsts} :
       block' = b /\ after' = run_block(before, b)
  /\ UNCHANGED before

------------------------------------------------------------------------------
(* Properties. *)

One == Len(block) = 1 /\ before.gpr[0] = 0
Only == block[1]
Same(r1, r2) ==
  /\ r1.ok = r2.ok /\ r1.cause = r2.cause /\ r1.s.mem = r2.s.mem
  /\ \A r \in Regs \ {0} : r1.s.gpr[r] = r2.s.gpr[r]

\* The 32-bit instruction a compressed one stands for, two bytes earlier so
\* that its successor and its link are the compressed one's.
Expanded(i) ==
  CASE i.op = "C_LW" -> [i EXCEPT !.op = "LW"] [] i.op = "C_LD" -> [i EXCEPT !.op = "LD"]
    [] i.op = "C_SW" -> [i EXCEPT !.op = "SW"] [] i.op = "C_SD" -> [i EXCEPT !.op = "SD"]
    [] i.op = "C_LWSP" -> [i EXCEPT !.op = "LW", !.rs1 = 2] [] i.op = "C_LDSP" -> [i EXCEPT !.op = "LD", !.rs1 = 2]
    [] i.op = "C_SWSP" -> [i EXCEPT !.op = "SW", !.rs1 = 2] [] i.op = "C_SDSP" -> [i EXCEPT !.op = "SD", !.rs1 = 2]
    [] i.op = "C_BEQZ" -> Ins("BEQ", 0, i.rd, 0, i.imm + 2) [] i.op = "C_BNEZ" -> Ins("BNE", 0, i.rd, 0, i.imm + 2)
    [] i.op = "C_J" -> Ins("JAL", 0, 0, 0, i.imm + 2) [] i.op = "C_JR" -> Ins("JALR", 0, i.rd, 0, 0)
    [] i.op = "C_JALR" -> Ins("JALR", 1, i.rd, 0, 0) [] i.op = "C_EBREAK" -> Ins("EBREAK", 0, 0, 0, 0)
    [] OTHER -> i
Compressed == CLoads \cup CStores \cup {"C_BEQZ", "C_BNEZ", "C_J", "C_JR", "C_JALR", "C_EBREAK"}

\* A compressed load, store, branch or jump does what the instruction it
\* abbreviates does: the same registers, link, memory, trap and next pc.
CompressedAgrees ==
  Only.op \in Compressed =>
    LET full == exec([before EXCEPT !.pc = Wrap(@ - 2)], Expanded(Only))
    IN Same(after, full) /\ (after.ok => after.s.pc = full.s.pc)

\* An instruction agrees with the arithmetic instructions it combines: an AMO
\* with the load, the operation and the store; a sign-extending load with the
\* unsigned one and SEXT or ADDIW; a branch with SUB, SLT or SLTU.
FamiliesAgree ==
    LET i == Only
        a == before.gpr[i.rs1]
        b == before.gpr[i.rs2]
        word == i.imm = 4
        loaded == exec(before, Ins(IF word THEN "LW" ELSE "LD", i.rd, i.rs1, 0, 0))
        old == LET n == IF word THEN 4 ELSE 8 IN Sext(Fetch(before, a, n), n * BYTE)
        rhs == IF word THEN Sext(b, WLEN) ELSE b
        new == CASE i.op = "AMOSWAP" -> rhs [] i.op = "AMOADD" -> exec_R("ADD", old, rhs)
                 [] i.op = "AMOXOR" -> exec_R("XOR", old, rhs) [] i.op = "AMOAND" -> exec_R("AND", old, rhs)
                 [] i.op = "AMOOR" -> exec_R("OR", old, rhs)
                 [] OTHER -> exec_Zbb_logic(CASE i.op = "AMOMIN" -> "MIN" [] i.op = "AMOMAX" -> "MAX"
                                              [] i.op = "AMOMINU" -> "MINU" [] i.op = "AMOMAXU" -> "MAXU",
                                            old, rhs)
        narrow == exec(before, [i EXCEPT !.op = CASE @ = "LB" -> "LBU" [] @ = "LH" -> "LHU" [] OTHER -> "LWU"])
        v == narrow.s.gpr[i.rd]
        wide == CASE i.op = "LB" -> exec_Zbb_logic("SEXT_B", v, 0) [] i.op = "LH" -> exec_Zbb_logic("SEXT_H", v, 0)
                  [] OTHER -> exec_IW("ADDIW", v, 0)
    IN /\ i.op \in Amos /\ loaded.ok =>
            Same(after, Ok(Put(loaded.s, a, IF word THEN 4 ELSE 8, new)))
       /\ i.op \in {"LB", "LH", "LW"} /\ narrow.ok => Same(after, Ok(Write(narrow.s, i.rd, wide)))
       /\ i.op \in Branches =>
            (after.s.pc # Wrap(before.pc + 4)) =
              (Wrap(i.imm) # 4 /\ CASE i.op = "BEQ" -> exec_R("SUB", a, b) = 0
                                    [] i.op = "BNE" -> exec_R("SUB", a, b) # 0
                                    [] i.op = "BLT" -> exec_R("SLT", a, b) = 1
                                    [] i.op = "BGE" -> exec_R("SLT", a, b) = 0
                                    [] i.op = "BLTU" -> exec_R("SLTU", a, b) = 1
                                    [] i.op = "BGEU" -> exec_R("SLTU", a, b) = 0)

\* The instructions agree with one another: CompressedAgrees and FamiliesAgree.
InstructionsAgree == block # <<>> /\ One => CompressedAgrees /\ FamiliesAgree

\* A block runs as if x0 were hardwired to zero, whatever the last instruction
\* of the block before it and each of its own wrote there.
X0Hardwired ==
  block # <<>> =>
    LET s0 == Write(before, 0, 0)
        first == exec(s0, block[1])
        ideal == IF Len(block) = 1 \/ ~first.ok THEN first
                 ELSE exec([first.s EXCEPT !.gpr = [r \in Regs |-> IF r = 0 THEN 0 ELSE @[r]]], block[2])
    IN Same(after, ideal) /\ after.s.pc = ideal.s.pc

\* An instruction that traps has changed no register, no memory and not pc:
\* the handler can run it again.
FaultsPrecise ==
  block # <<>> /\ One /\ ~after.ok => Same(after, Trap(before, after.cause)) /\ after.s.pc = before.pc
=============================================================================
