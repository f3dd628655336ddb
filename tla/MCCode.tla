------------------------------- MODULE MCCode -------------------------------
(***************************************************************************)
(* The models of how a hart's instructions are found and run, for TLC: the *)
(* decoder and its immediates, the compiler of single instructions and of  *)
(* blocks, the caches of code, the TLB and the bus.  They share no state,  *)
(* so a behaviour is one of theirs: part says whose, and the others hold   *)
(* still.                                                                  *)
(***************************************************************************)
EXTENDS Patterns, Decode, JitOps, JitBlock, CodeCache, Mmu, TLC

CONSTANTS Parts,                       \* the models in play
          r1, r2, r3,                  \* guest registers
          ta, tb, tc, pageA, pageB, fetched,    \* starts of text, their pages, an address
          NoPage

VARIABLES part, case, ram, io, reserved, last

mmioVars == <<ram, io, reserved, last>>
allVars == <<part, case, decodeVars, opsVars, blockVars, mmuVars, codeVars, mmioVars>>

------------------------------------------------------------------------------
(* The instances. *)

\* Decode: every major opcode with every value of the fields its patterns fix,
\* and all ones; every compressed word up to registers and immediates.
Opcode(f) == f[6].match
Fields32 == {i.fields : i \in {j \in Range(init_all_instrs) : Len(j.fields) = 6}}
Words32 ==
  LET all == Fields32
      seen(op, k, ones) == {f[k].match : f \in {g \in all : Opcode(g) = op}} \cup {ones}
  IN  UNION {{<<f7, rs2, r, f3, r, op>> :
                f7 \in seen(op, 1, 127), rs2 \in seen(op, 2, 31), r \in seen(op, 3, 31), f3 \in seen(op, 4, 7)} :
             op \in {Opcode(f) : f \in all} \cup {127}}
MiscWords == {<<0, rs2, rs1, f3, rd, op>> : rs2 \in {0, 1, 4}, rs1 \in {0, 31}, rd \in {0, 31}, f3 \in 0 .. 2, op \in {15, 115}}
Words16 ==
  {<<f3, b, f2, r, g, q, op>> : f3 \in 0 .. 7, b \in 0 .. 1, f2 \in 0 .. 3, r \in {0, 7}, g \in 0 .. 3, q \in {0, 7}, op \in 0 .. 2}
MCWords == Words32 \cup MiscWords \cup Words16
MCFew == {<<4, 1, 0, 0, 0, 0, 2>>, <<4, 1, 0, 7, 0, 0, 2>>, <<0, 4, 0, 2, 0, 15>>, <<0, 4, 0, 2, 31, 15>>}

\* JitOps and JitBlock.
MCValues == {0, 1, 8, 15, 16, 128, 136, 255}
MCImms == {-128, -9, -1, 0, 1, 8, 127}
MCRegs == {r1, r2, r3}
Symmetry == Permutations(MCRegs)

\* Mmu: two address spaces over three levels of tables, which share a subtree
\* with a superpage, a global page and an unmapped one.
Pte(flags, ppn) == [flags |-> flags \cup {"V"}, ppn |-> ppn]
Invalid == [flags |-> {}, ppn |-> 0]
RWAD == {"R", "W", "A", "D"}
MCTables ==
  (<<100, 0>> :> Pte({}, 110)) @@ (<<100, 1>> :> Pte(RWAD, 8)) @@
  (<<101, 0>> :> Pte({}, 110)) @@ (<<101, 1>> :> Invalid) @@
  (<<110, 0>> :> Pte({}, 120)) @@ (<<110, 1>> :> Pte(RWAD \cup {"U"}, 12)) @@
  (<<120, 0>> :> Pte({"R", "W", "G"}, 14)) @@ (<<120, 1>> :> Invalid)
MCEdits ==
  {<< <<120, 0>>, Pte({"R", "X", "U", "A", "D"}, 13) >>, << <<120, 0>>, Pte({"R", "W", "G"}, 14) >>,
   << <<110, 1>>, Pte(RWAD \cup {"U"}, 12) >>, << <<110, 1>>, Pte(RWAD, 13) >>}
MCSatps == {[asid |-> 1, root |-> 100], [asid |-> 2, root |-> 101]}
MCPpns == 8 .. 15

\* CodeCache: three starts on two pages whose blocks meet in a slot, in an arena
\* for two of them; one address, two address spaces; texts 1 (compiled), 2
\* (interpreted) and 3 (no block).
MCPageOf == ta :> pageA @@ tb :> pageB @@ tc :> pageB
MCCompileSlot == ta :> 1 @@ tb :> 1 @@ tc :> 2
MCLookupSlot == ta :> 1 @@ tb :> 2 @@ tc :> 2
MCMap == <<fetched :> ta, fetched :> tb>>
MCWrites == {ta} \X (1 .. 3)
MCRemaps == {<<1, fetched, tb>>, <<1, fetched, tc>>}

\* Mmio: DRAM of two pages behind two devices, and every place of an access
\* around a page boundary.
B == INSTANCE Mmio WITH
       PAGE <- 16, DramBase <- 64, DramSize <- 32,
       Devs <- << [start |-> 32, size |-> 16], [start |-> 48, size |-> 12] >>,
       PageMap <- (0 :> 5) @@ (1 :> 4) @@ (2 :> 2) @@ (3 :> 7) @@ (4 :> 5) @@ (5 :> NoPage),
       Addrs <- (9 .. 16) \cup {0, 24, 30, 31, 32, 47, 60, 62, 76, 78, 80, 92, 94}

Im == INSTANCE Immediates

------------------------------------------------------------------------------
OpsHeld == inst = 0 /\ regs = 0 /\ gpr = 0 /\ imm = 0 /\ done = FALSE /\ cpu = 0
DecodeHeld == ways = 0 /\ victim = 0 /\ cache_generation = 0 /\ smc_epoch = 0 /\ got = [word |-> NoWord, inst |-> 0]

CodeHeld ==
  /\ imem = 0 /\ map = 0 /\ asid = 0 /\ g_smc_epoch = 0 /\ g_executed_pages = 0 /\ g_code_page_gen = 0 /\ gen = 0
  /\ writable = 0 /\ cache = 0 /\ giveup = 0 /\ g_arena_gen = 0 /\ used = 0 /\ memo = 0 /\ chain_key = 0
  /\ chain_epoch = 0 /\ links = 0 /\ bc = 0 /\ bc_generation = 0 /\ busy = 0 /\ missed = 0 /\ granular = 0
  /\ unfenced = 0 /\ entered = {}

CodeModelsInit ==
  /\ part \in Parts
  /\ IF part = "decode" THEN DecodeInit ELSE DecodeHeld
  /\ IF part = "ops" THEN OpsInit ELSE OpsHeld
  /\ IF part = "cache" THEN CodeInit ELSE CodeHeld
  /\ BlockInit /\ MmuInit /\ B!MmioInit /\ Im!ImmInit

\* The models of one access or one instruction stop after it, those of the
\* caches at their bounds.
Finished ==
  /\ \/ got.word \notin MCFew \cup {NoWord} \/ done \/ case # <<>> \/ last.op = "read"
     \/ part \in {"cache", "block"}
  /\ UNCHANGED <<case, decodeVars, opsVars, blockVars, mmuVars, codeVars, mmioVars>>

CodeModelsNext ==
  /\ UNCHANGED part
  /\ \/ part = "decode" /\ UNCHANGED <<case, opsVars, blockVars, mmuVars, codeVars, mmioVars>> /\ DecodeNext
     \/ part = "imm" /\ UNCHANGED <<decodeVars, opsVars, blockVars, mmuVars, codeVars, mmioVars>> /\ Im!ImmNext
     \/ part = "ops" /\ UNCHANGED <<case, decodeVars, blockVars, mmuVars, codeVars, mmioVars>> /\ OpsNext
     \/ part = "block" /\ UNCHANGED <<case, decodeVars, opsVars, mmuVars, codeVars, mmioVars>> /\ BlockNext
     \/ part = "mmu" /\ UNCHANGED <<case, decodeVars, opsVars, blockVars, codeVars, mmioVars>> /\ MmuNext
     \/ part = "cache" /\ UNCHANGED <<case, decodeVars, opsVars, blockVars, mmuVars, mmioVars>> /\ CodeNext
     \/ part = "bus" /\ UNCHANGED <<case, decodeVars, opsVars, blockVars, mmuVars, codeVars>> /\ B!MmioNext
     \/ Finished

CodeModelsSpec == CodeModelsInit /\ [][CodeModelsNext]_allVars

------------------------------------------------------------------------------
(* Properties of the instances, on the behaviours of their part; those of   *)
(* the other modules are checked as they stand there.                      *)

\* The decoder's table finds the instruction a search of the patterns would, and
\* the immediate of every format is the one that was encoded
\* (Decode!DecodeExact, Immediates!ImmediatesDecoded).
DecodingExact == DecodeExact /\ (part = "imm" => Im!ImmediatesDecoded)

\* Stores and loads around a page boundary move their bytes where the page tables
\* say, and a store that faults has written nothing (Mmio!AccessExact).
AccessExact == part = "bus" => B!AccessExact

\* Every byte of a store that succeeds lands (Mmio!StoredBytesLand).
StoredBytesLand == part = "bus" => B!StoredBytesLand
=============================================================================
