------------------------------ MODULE JitBlock ------------------------------
(***************************************************************************)
(* The register cache of a compiled block and its exits: JIT_Emitter of    *)
(* src/jit/arch/x86_64/emit.cpp and the compile loop of src/jit/rvjit.cpp. *)
(*                                                                         *)
(* The emitter's compile-time state (which host register caches which      *)
(* guest register, which are dirty) follows the instructions in order, and *)
(* the code it emits runs in the same order until an exit is taken, so one *)
(* action here both emits an instruction and runs what was emitted for it. *)
(* Register contents are abstracted to whose current value a cell holds:   *)
(* host[s] = v says that host register s holds the value guest register v  *)
(* has at this point of the program, and Junk that it holds none.  What    *)
(* the instruction computes is the subject of JitOps.                      *)
(***************************************************************************)
EXTENDS Integers, FiniteSets

CONSTANTS X0, Regs,      \* guest registers: x0 and the others
          Pool,          \* RVJIT_HOST_REGS, the number of host registers
          SnapMax,       \* capacity of MissSite.dv and .ds
          MAX_EXITS,
          MaxInstrs,     \* RVJIT_MAX_INSTRUCTIONS
          CADENCE,       \* CHAIN_CADENCE
          MaxPc, Targets \* bound on the pc, and the targets of jumps

CONSTANT Junk, Free, Held      \* Free is 0xFF in hr_vreg, Held 0xFE

ASSUME RegsAssumption ==
  /\ X0 \notin Regs
  /\ {Junk, Free, Held} \cap (Regs \union {X0}) = {} /\ Free # Held
\* An instruction has at most two operands and a scratch register, and a
\* snapshot has room for every host register.
ASSUME PoolAssumption ==
  Pool \in Nat /\ Pool >= 3 /\ SnapMax \in Nat /\ SnapMax >= Pool
ASSUME LimitsAssumption ==
  /\ MAX_EXITS \in Nat /\ MAX_EXITS >= 2
  /\ {MaxInstrs, CADENCE, MaxPc} \subseteq Nat /\ Targets \subseteq Nat

Guest == Regs \union {X0}
Slots == 1 .. Pool
NoSlot == 0
SUPERBLOCK_MAX == MAX_EXITS - 2
Sizes == {2, 4}

VARIABLES em,        \* [slot, dirty, owner]: vr[].slot, vr[].dirty, hr_vreg
          host,      \* what each host register of the pool holds
          mem,       \* guests whose current value is in the register file
          pc,        \* the guest's program counter
          entry,     \* CTX_OFF_ENTRY
          exitPc,    \* CTX_OFF_EXIT
          index, bytes,          \* instr_index, instr_bytes
          nSuper, nExits,
          full,      \* eof(): the code buffer is used up
          budget,    \* CTX_OFF_CHAIN_BUDGET
          ran,       \* instructions completed since the runner called
          right,     \* every address, store and branch so far used current values
          phase      \* "block", "tail" (an exit tail), "runner"
blockVars == <<em, host, mem, pc, entry, exitPc, index, bytes, nSuper, nExits, full, budget, ran, right, phase>>

\* JIT_Emitter(): nothing cached.
Empty == [slot |-> [v \in Guest |-> NoSlot], dirty |-> {}, owner |-> [s \in Slots |-> Free]]

BlockInit ==
    /\ em = Empty /\ host = [s \in Slots |-> Junk] /\ mem = Guest
    /\ pc = 0 /\ entry = 0 /\ exitPc = 0 /\ index = 0 /\ bytes = 0
    /\ nSuper = 0 /\ nExits = 0 /\ full = FALSE
    /\ budget = CADENCE /\ ran = 0 /\ right = TRUE /\ phase = "block"

-----------------------------------------------------------------------------
(* A cell state c = [em, host, mem] as the emitter threads it through.     *)
Cells == [em |-> em, host |-> host, mem |-> mem]

\* Mutant: the register is taken as clean without being stored.
flush_guest_lost(c, v) == [c EXCEPT !.em.dirty = @ \ {v}]
flush_guest(c, v) ==
    IF c.em.slot[v] # NoSlot /\ v \in c.em.dirty
    THEN [c EXCEPT !.em.dirty = @ \ {v},
                   !.mem = IF c.host[c.em.slot[v]] = v THEN @ \union {v} ELSE @ \ {v}]
    ELSE c

flush_all(c) ==
    LET wb == {v \in Regs : c.em.slot[v] # NoSlot /\ v \in c.em.dirty}
    IN  [c EXCEPT !.em.dirty = @ \ wb,
                  !.mem = (@ \ wb) \union {v \in wb : c.host[c.em.slot[v]] = v}]

\* The host register free_slot returns: the first free one, else the first
\* clean one, else the first, of those that hold no operand of the instruction.
Cost(c, s) == s + Pool * (IF c.em.owner[s] = Free THEN 0 ELSE IF c.em.owner[s] \notin c.em.dirty THEN 1 ELSE 2)
free_slot(c, keep) ==
    LET usable == {s \in Slots : c.em.owner[s] \in (Guest \ keep) \union {Free}}
    IN  CHOOSE s \in usable : \A t \in usable : Cost(c, s) <= Cost(c, t)

\* What free_slot does to the register it returns.
Evict(c, s) ==
    IF c.em.owner[s] = Free THEN [c EXCEPT !.em.owner[s] = Held]
    ELSE [flush_guest(c, c.em.owner[s]) EXCEPT !.em.owner[s] = Held, !.em.slot[c.em.owner[s]] = NoSlot]

release_slot(c, s) == [c EXCEPT !.em.owner[s] = Free]

Take(c, v, s) == [c EXCEPT !.em.owner[s] = v, !.em.slot[v] = s]

\* Load v unless it is cached; a load of a stale register-file word is Junk.
LoadInto(c, v, s) == [Take(c, v, s) EXCEPT !.host[s] = IF v = X0 \/ v \in c.mem THEN v ELSE Junk]
Loaded(c, v, s) == LoadInto(Evict(c, s), v, s)
hreg_for_read(c, v, keep) == IF c.em.slot[v] # NoSlot THEN c ELSE Loaded(c, v, free_slot(c, keep))

Taken(c, v, s) == Take(Evict(c, s), v, s)
hreg_for_write(c, v, keep) == IF c.em.slot[v] # NoSlot THEN c ELSE Taken(c, v, free_slot(c, keep))

Holds(c, v) == c.host[c.em.slot[v]] = v
Clobber(c, s) == [c EXCEPT !.host[s] = Junk]

\* rd gets a new value: every other copy of the old one is stale.
Write(c, rd, current) ==
    LET D == c.em.slot[rd]
    IN  [c EXCEPT !.em.dirty = @ \union {rd}, !.mem = @ \ {rd},
                  !.host = [s \in Slots |-> IF s = D THEN (IF current THEN rd ELSE Junk)
                                            ELSE IF c.host[s] = rd THEN Junk ELSE c.host[s]]]

\* snapshot_dirty and the stub of emit_miss_stubs that commits it.  The
\* registers are numbered by an arbitrary order when there are too many.
snapshot_dirty(c) ==
    LET d == {v \in Regs : v \in c.em.dirty /\ c.em.slot[v] # NoSlot}
    IN  IF Cardinality(d) <= SnapMax THEN d ELSE CHOOSE t \in SUBSET d : Cardinality(t) = SnapMax
Commit(c) ==
    LET d == snapshot_dirty(c)
    IN  [c EXCEPT !.mem = (@ \ d) \union {v \in d : Holds(c, v)}]

SetCells(c) == em' = c.em /\ host' = c.host /\ mem' = c.mem

\* Control leaves the block: the next one is emitted by a new JIT_Emitter, and
\* nothing reads what this one left in the host registers.
Leave(c) ==
    /\ em' = Empty /\ host' = [s \in Slots |-> Junk] /\ mem' = c.mem
    /\ index' = 0 /\ bytes' = 0 /\ nSuper' = 0 /\ full' = FALSE

-----------------------------------------------------------------------------
(* Exits.                                                                  *)

\* emit_miss_stubs: commit, report the pc before the instruction, return.
Miss(c) ==
    /\ Leave(Commit(c))
    /\ exitPc' = entry + bytes
    /\ budget' = budget - index
    /\ phase' = "runner"
    /\ UNCHANGED <<pc, entry, nExits, ran, right>>

\* emit_chain_tail: RAX holds the exit pc; `exits` tails are emitted in all.
ExitTail(c, rax, count, exits, target, ok) ==
    /\ Leave(c)
    /\ exitPc' = rax /\ entry' = rax
    /\ budget' = budget - count
    /\ nExits' = nExits + exits
    /\ ran' = ran + 1 /\ pc' = target
    /\ phase' = "tail"
    /\ right' = (right /\ ok)

\* The instruction completes and the block goes on with the next one.
Continue(c, size, ok) ==
    /\ SetCells(c)
    /\ right' = (right /\ ok)
    /\ pc' = pc + size /\ ran' = ran + 1
    /\ index' = index + 1 /\ bytes' = bytes + size
    /\ full' \in {full, TRUE}
    /\ UNCHANGED <<entry, exitPc, budget, phase>>

\* The compile loop takes another instruction.
More == phase = "block" /\ index < MaxInstrs /\ ~full /\ pc + 4 <= MaxPc

-----------------------------------------------------------------------------
(* Instructions.                                                           *)

\* Load both operands.
ReadBoth(c, rs1, rs2) == hreg_for_read(hreg_for_read(c, rs1, {}), rs2, {rs1})

\* emit_r_to, where x0 is not loaded; emit_i_to and emit_u_to read fewer
\* operands.
ReadR(c, rs1, rs2) ==
    CASE rs1 = X0 /\ rs2 = X0 -> c
      [] rs1 # X0 /\ rs2 = X0 -> hreg_for_read(c, rs1, {})
      [] rs1 = X0 /\ rs2 # X0 -> hreg_for_read(c, rs2, {X0})
      [] OTHER -> ReadBoth(c, rs1, rs2)

emit_r(rd, rs1, rs2, size) ==
    /\ More
    /\ \E c \in {hreg_for_write(ReadR(Cells, rs1, rs2), rd, {rs1, rs2})} :
          Continue(Write(c, rd, /\ rs1 = X0 \/ Holds(c, rs1)
                                /\ rs2 = X0 \/ Holds(c, rs2)), size, TRUE)
    /\ UNCHANGED <<nSuper, nExits>>

\* emit_m_r_to, general path: x0 is loaded like any register.  There is no
\* compressed form.
emit_m(rd, rs1, rs2) ==
    /\ More
    /\ rs2 # X0
    /\ \E c \in {hreg_for_write(ReadBoth(Cells, rs1, rs2), rd, {rs1, rs2})} :
          Continue(Write(c, rd, Holds(c, rs1) /\ Holds(c, rs2)), 4, TRUE)
    /\ UNCHANGED <<nSuper, nExits>>

\* emit_load: the address is computed in rd's host register, after rd's old
\* value was written back; rd = x0 uses a scratch register.
emit_load(rd, rs1, size) ==
    /\ More
    /\ \E c1 \in {hreg_for_read(Cells, rs1, {})} :
         IF rd = X0
         THEN \E t \in {free_slot(c1, {rs1})} : \E c \in {Clobber(Evict(c1, t), t)} :
                \/ Miss(c)
                \/ Continue(release_slot(c, t), size, Holds(c, rs1)) /\ UNCHANGED <<nSuper, nExits>>
         ELSE \E c \in {hreg_for_write(flush_guest(c1, rd), rd, {rs1})} :
                \/ Miss(Clobber(c, c.em.slot[rd]))
                \/ Continue(Write(c, rd, Holds(c, rs1)), size, Holds(c, rs1)) /\ UNCHANGED <<nSuper, nExits>>

emit_store(rs1, rs2, size) ==
    /\ More
    /\ \E c2 \in {ReadBoth(Cells, rs2, rs1)} :
       \E t \in {free_slot(c2, {rs1, rs2})} : \E c \in {Clobber(Evict(c2, t), t)} :
          \/ Miss(c)
          \/ /\ Continue(release_slot(c, t), size, Holds(c, rs1) /\ Holds(c, rs2))
             /\ UNCHANGED <<nSuper, nExits>>

\* emit_cond_exit and emit_cond_exit_zero (rs2 = rs1), the one of the
\* compressed branches.  An odd target leaves
\* as a miss before anything is accounted for.
emit_cond_exit(rs1, rs2, size, target) ==
    /\ More
    /\ size = 2 => rs2 = rs1
    /\ \E c \in {flush_all(ReadBoth(Cells, rs1, rs2))} :
       LET super == nSuper < SUPERBLOCK_MAX /\ ~full
           ok  == Holds(c, rs1) /\ Holds(c, rs2)
       IN  \/ target % 2 = 1 /\ Miss(c)
           \/ /\ target % 2 = 0
              /\ ExitTail(c, entry + bytes + (target - pc), index + 1, IF super THEN 1 ELSE 2, target, ok)
           \/ /\ super /\ Continue(c, size, ok)
              /\ nSuper' = nSuper + 1 /\ nExits' = nExits + 1
           \/ /\ ~super /\ ExitTail(flush_all(c), entry + bytes + size, index + 1, 2, pc + size, ok)

\* emit_jump: the link is written after the target was read.  JAL passes x0 for
\* the register it does not read, C.J for its link too.
emit_jump(link, rs1, size, target, fromRs1) ==
    /\ More
    /\ fromRs1 \/ (rs1 = X0 /\ (size = 2 => link = X0))
    /\ \E c \in {IF fromRs1 THEN hreg_for_read(flush_all(Cells), rs1, {}) ELSE flush_all(Cells)} :
          IF ~fromRs1 /\ target % 2 = 1 THEN Miss(c)
          ELSE ExitTail(flush_all(IF link = X0 THEN c ELSE Write(hreg_for_write(c, link, {rs1}), link, TRUE)),
                        IF ~fromRs1 THEN entry + bytes + (target - pc)
                        ELSE IF Holds(c, rs1) THEN target - (target % 2) ELSE -1,
                        index + 1, 1, target - (target % 2), TRUE)

\* emit_epilogue: the compile loop stopped at the limit, at a full buffer or
\* before an instruction it cannot compile.
emit_epilogue ==
    /\ phase = "block" /\ index > 0
    /\ Leave(flush_all(Cells))
    /\ exitPc' = entry + bytes /\ entry' = entry + bytes
    /\ budget' = budget - index
    /\ nExits' = nExits + 1
    /\ phase' = "tail"
    /\ UNCHANGED <<pc, ran, right>>

\* The link slot or the dispatcher matched: enter the next block behind its
\* prologue, with nothing cached.
Hop ==
    /\ phase = "tail" /\ budget >= 0 /\ pc + 4 <= MaxPc
    /\ nExits' = 0 /\ phase' = "block"
    /\ UNCHANGED <<em, host, mem, pc, entry, exitPc, index, bytes, nSuper, full, budget, ran, right>>

\* The budget is used up, or no successor is linked.
Return ==
    /\ phase = "tail"
    /\ phase' = "runner"
    /\ UNCHANGED <<em, host, mem, pc, entry, exitPc, index, bytes, nSuper, nExits, full, budget, ran, right>>

\* run_blocks: hart.pc = exit_pc, the next call starts a chain there.
Call ==
    /\ phase = "runner" /\ exitPc + 4 <= MaxPc
    /\ nExits' = 0 /\ entry' = exitPc /\ budget' = CADENCE /\ ran' = 0 /\ phase' = "block"
    /\ UNCHANGED <<em, host, mem, pc, exitPc, index, bytes, nSuper, full, right>>

\* The interpreter goes on from the exit (and jumps).
Interpret(target) ==
    /\ phase = "runner" /\ target % 2 = 0
    /\ pc' = target /\ exitPc' = target
    /\ UNCHANGED <<em, host, mem, entry, index, bytes, nSuper, nExits, full, budget, ran, right, phase>>

BlockNext ==
    \/ \E rd \in Regs, rs1 \in Guest, rs2 \in Guest :
        emit_m(rd, rs1, rs2) \/ \E n \in Sizes : emit_r(rd, rs1, rs2, n)
    \/ \E rd \in Guest, rs1 \in Guest, n \in Sizes : emit_load(rd, rs1, n)
    \/ \E rs1 \in Guest, rs2 \in Guest, n \in Sizes : emit_store(rs1, rs2, n)
    \/ \E rs1 \in Guest, rs2 \in Guest, n \in Sizes, t \in Targets : emit_cond_exit(rs1, rs2, n, t)
    \/ \E link \in Guest, rs1 \in Guest, n \in Sizes, t \in Targets, f \in BOOLEAN :
        emit_jump(link, rs1, n, t, f)
    \/ emit_epilogue
    \/ Hop \/ Return \/ Call
    \/ \E t \in Targets : Interpret(t)

BlockSpec == BlockInit /\ [][BlockNext]_blockVars

-----------------------------------------------------------------------------
\* Whatever the block did and wherever it leaves (a branch, a jump, the end, a
\* TLB miss in the middle), the register file holds every guest register's
\* current value, the context's exit pc is the guest's pc, the chain budget was
\* charged for exactly the instructions that completed, no address, store or
\* branch used a stale register, and the exit tails fit the table of MAX_EXITS
\* link sites, past which emit_chain_tail traps.
PreciseExit ==
    /\ right
    /\ phase \in {"tail", "runner"} => Guest \subseteq mem /\ exitPc = pc
    /\ phase = "tail" => CADENCE - budget = ran
    /\ nExits <= MAX_EXITS

=============================================================================
