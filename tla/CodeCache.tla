------------------------------ MODULE CodeCache ------------------------------
(***************************************************************************)
(* How a hart finds the code for its pc (Hart::run_blocks, src/block.cpp): *)
(* the dispatch memo, the JIT cache with salvage and compilation           *)
(* (src/jit/rvjit.cpp), chain links between compiled blocks, and the cache *)
(* of interpreter blocks; and what is meant to keep all of them current    *)
(* when the guest rewrites its text or remaps it: the self-modification    *)
(* epoch (include/self_mod.hpp), the TLB generation and SFENCE.VMA.        *)
(*                                                                         *)
(* A block is named by its physical start; imem gives the text there.  The *)
(* JIT cache is one bucket and the memo one bucket.  Harts share the code  *)
(* and take turns on one thread, so a dispatch is never interleaved.  The  *)
(* TLB is reduced to the pages hart h may store to inline, writable[h].    *)
(***************************************************************************)
EXTENDS Integers, FiniteSets

CONSTANTS
  Harts, Starts, Pages,
  PageOf,       \* the page a start lies on
  CompileSlot,  \* start -> slot compile_block fills (start_phys >> 2)
  LookupSlot,   \* start -> slot BlockCache::lookup reads (phys_pc >> 1)
  Vas, Asids, Map0,
  Writes,       \* <<start, text>>: what the guest may store where
  Remaps,       \* <<asid, va, start>>: how it may remap its addresses
  JitTexts,     \* texts whose first instruction has a jit_func
  BlockTexts,   \* texts an interpreter block can begin with
  Modes,        \* mode_key: store mode, MXR and SUM; all of one fetch mode
  CACHE_WAYS, MEMO_WAYS,
  ArenaBlocks,  \* blocks that fit RVJIT_MAX_CACHE_BYTES
  MaxEpoch, MaxCodeGen, MaxChain, \* bounds on the epoch, generations and chain stamps
  None

VARIABLES
  imem, map, asid,
  g_smc_epoch, g_executed_pages, g_code_page_gen,
  gen, writable,            \* per hart: TLB generation, inline-writable pages
  cache, giveup, g_arena_gen, used,
  memo, chain_key, chain_epoch, links,
  bc, bc_generation,
  busy,                     \* None, or where the single runner thread is
  missed, granular,         \* inline stores over code; fences of one address
  unfenced,                 \* starts stored to since the last FENCE.I
  entered                   \* what is wrong with the code just entered

codeVars == <<imem, map, asid, g_smc_epoch, g_executed_pages, g_code_page_gen, gen, writable, cache,
              giveup, g_arena_gen, used, memo, chain_key, chain_epoch, links, bc,
              bc_generation, busy, missed, granular, unfenced, entered>>

jitVars == <<cache, giveup, g_arena_gen, used>>
chainVars == <<chain_key, chain_epoch, links>>
smcVars == <<g_smc_epoch, g_executed_pages, g_code_page_gen>>

CodeInit ==
  /\ imem \in [Starts -> JitTexts]
  /\ map = Map0
  /\ asid \in [Harts -> Asids]
  /\ g_smc_epoch = 0 /\ g_executed_pages = {} /\ g_code_page_gen = [p \in Pages |-> 0]
  /\ gen = [h \in Harts |-> 1] /\ writable = [h \in Harts |-> {}]
  /\ cache = [w \in 1..CACHE_WAYS |-> None] /\ giveup = None
  /\ g_arena_gen = 0 /\ used = 0
  /\ memo = [h \in Harts |-> [w \in 1..MEMO_WAYS |-> None]]
  /\ chain_key = [h \in Harts |-> None] /\ chain_epoch = [h \in Harts |-> 0] /\ links = {}
  /\ bc = [s \in {CompileSlot[x] : x \in Starts} \cup {LookupSlot[x] : x \in Starts} |-> None]
  /\ bc_generation = 1
  /\ busy = None /\ missed = {} /\ granular = [h \in Harts |-> {}]
  /\ unfenced = {} /\ entered = {}

------------------------------------------------------------------------------
(* Dispatch. *)

\* Mutant: the address space is not part of the memo's key.
Key_any_asid(h, va) == [va |-> va, gen |-> gen[h], smc |-> g_smc_epoch, asid |-> None]
Key(h, va) == [va |-> va, gen |-> gen[h], smc |-> g_smc_epoch, asid |-> asid[h]]

\* The ways of the memo a dispatch of va may use: the one with its key, or
\* else whichever the replacement picks.
MemoWays(h, va) ==
  LET keyed == {w \in 1..MEMO_WAYS : memo[h][w] # None /\ memo[h][w].key = Key(h, va)}
  IN IF keyed # {} THEN keyed ELSE 1..MEMO_WAYS

\* The memo way after keying: a hit is kept, anything else starts empty.
Way(h, w, va) ==
  IF memo[h][w] # None /\ memo[h][w].key = Key(h, va)
  THEN memo[h][w]
  ELSE [key |-> Key(h, va), phys |-> None, fn |-> None, interp |-> FALSE,
        block |-> None, block_gen |-> 0]

\* What is wrong with entering code of this text, start and policy for va.
Faults(h, va, start, text, agen, mode, m) ==
     {f \in {"stale"} : text # imem[start]}
\cup {f \in {"missed"} : start \in missed}
\cup {f \in {"unfenced"} : start \in unfenced}
\cup {f \in {"moved"} : start # map[asid[h]][va]}
\cup {f \in {"granular"} : <<asid[h], va>> \in granular[h]}
\cup {f \in {"freed"} : agen # g_arena_gen'}
\cup {f \in {"policy"} : mode # m}

\* Key (start, epoch, mode).
lookup(s, m) ==
  {w \in DOMAIN cache : /\ cache[w] # None /\ cache[w].start = s
                        /\ cache[w].smc = g_smc_epoch /\ cache[w].fn.mode = m}

\* Mutant: the text is not compared.
Salvageable_unread(s, m) ==
  {w \in DOMAIN cache : /\ cache[w] # None /\ cache[w].start = s
                        /\ cache[w].fn.mode = m
                        /\ cache[w].smc # g_smc_epoch
                        /\ cache[w].fn.agen = g_arena_gen}
\* A block of another epoch whose arena is alive and whose text is unchanged.
Salvageable(s, m) ==
  {w \in DOMAIN cache : /\ cache[w] # None /\ cache[w].start = s
                        /\ cache[w].fn.mode = m
                        /\ cache[w].smc # g_smc_epoch
                        /\ cache[w].fn.agen = g_arena_gen
                        /\ cache[w].fn.text = imem[s]}

\* The epoch moves on: nothing keyed before is found again.
Bump == g_smc_epoch' = g_smc_epoch + 1 /\ missed' = {}

\* The page of s hosts code of the current epoch; mark_page_code re-arms it.
mark_page_code(s) ==
  /\ g_executed_pages' = g_executed_pages \cup {PageOf[s]}
  /\ g_code_page_gen' = [g_code_page_gen EXCEPT ![PageOf[s]] = g_smc_epoch']

\* note_exec: a page that is writable inline costs a full TLB flush.
note_exec(h, p) ==
  IF p \in writable[h]
  THEN /\ gen' = [gen EXCEPT ![h] = @ + 1]
       /\ writable' = [writable EXCEPT ![h] = {}]
       /\ granular' = [granular EXCEPT ![h] = {}]
  ELSE UNCHANGED <<gen, writable, granular>>

\* Entering compiled code: the chain stamp is moved on when generation, epoch
\* or asid changed since the last dispatch, and the block is linked under it.
\* Links under older stamps can never match again and are forgotten.
Enter(h, va, fn, m) ==
  LET key == [gen |-> gen'[h], smc |-> g_smc_epoch', asid |-> asid[h]]
      e == IF key = chain_key[h] THEN chain_epoch[h] ELSE chain_epoch[h] + 1
  IN /\ chain_key' = [chain_key EXCEPT ![h] = key]
     /\ e <= MaxChain
     /\ chain_epoch' = [chain_epoch EXCEPT ![h] = e]
     /\ links' = {l \in links \cup {[fn |-> fn, pc |-> va, epoch |-> e, mode |-> m]} :
                    \E x \in Harts : l.epoch >= chain_epoch'[x]}
     /\ busy' = [at |-> "chain", hart |-> h, mode |-> m]
     /\ entered' = Faults(h, va, fn.start, fn.text, fn.agen, fn.mode, m)

Remember(h, w, d) == memo' = [memo EXCEPT ![h][w] = d]

\* The memo already holds compiled code for the key.
DispatchMemo(h, va, m, w) ==
  LET d == Way(h, w, va)
  IN /\ d.fn # None
     /\ Remember(h, w, d)
     /\ UNCHANGED <<smcVars, gen, writable, granular, missed, jitVars>>
     /\ Enter(h, va, d.fn, m)

\* The JIT cache holds current code for the physical start.
DispatchLookup(h, va, m, w) ==
  LET d == Way(h, w, va)
      s == map[asid[h]][va]
  IN /\ d.fn = None /\ ~d.interp
     /\ \E x \in lookup(s, m) :
          /\ Remember(h, w, [d EXCEPT !.phys = s, !.fn = cache[x].fn])
          /\ UNCHANGED <<smcVars, gen, writable, granular, missed, jitVars>>
          /\ Enter(h, va, cache[x].fn, m)

\* Salvage: the block is re-keyed to the current epoch and its page re-armed.
salvage(h, va, m, w) ==
  LET d == Way(h, w, va)
      s == map[asid[h]][va]
  IN /\ d.fn = None /\ ~d.interp /\ lookup(s, m) = {} /\ giveup # s
     /\ \E x \in Salvageable(s, m) :
          /\ cache' = [cache EXCEPT ![x].smc = g_smc_epoch]
          /\ UNCHANGED <<g_smc_epoch, giveup, g_arena_gen, used, gen, writable, granular, missed>>
          /\ mark_page_code(s)
          /\ Remember(h, w, [d EXCEPT !.phys = s, !.fn = cache[x].fn])
          /\ Enter(h, va, cache[x].fn, m)

\* Room for a block is made by releasing every arena, which moves the epoch on.
\* Mutant: the arenas are released under the same epoch.
make_room_unbumped ==
  IF used = ArenaBlocks
  THEN g_arena_gen < MaxEpoch /\ g_arena_gen' = g_arena_gen + 1 /\ used' = 1 /\ UNCHANGED <<g_smc_epoch, missed>>
  ELSE used' = used + 1 /\ UNCHANGED <<g_smc_epoch, missed, g_arena_gen>>
make_room ==
  IF used = ArenaBlocks
  THEN /\ g_smc_epoch < MaxEpoch /\ Bump
       /\ g_arena_gen' = g_arena_gen + 1 /\ used' = 1
  ELSE used' = used + 1 /\ UNCHANGED <<g_smc_epoch, missed, g_arena_gen>>

\* Compile: the pages are marked; a free way or any other is overwritten.
compile(h, va, m, w) ==
  LET d == Way(h, w, va)
      s == map[asid[h]][va]
      free == {x \in DOMAIN cache : cache[x] = None}
  IN /\ d.fn = None /\ ~d.interp /\ lookup(s, m) = {} /\ giveup # s
     /\ Salvageable(s, m) = {}
     /\ imem[s] \in JitTexts
     /\ make_room
     /\ mark_page_code(s)
     /\ gen[h] < MaxCodeGen
     /\ note_exec(h, PageOf[s])
     /\ LET fn == [start |-> s, text |-> imem[s], mode |-> m, agen |-> g_arena_gen']
        IN /\ \E x \in (IF free # {} THEN free ELSE DOMAIN cache) :
                cache' = [cache EXCEPT ![x] = [start |-> s, smc |-> g_smc_epoch', fn |-> fn]]
           /\ Remember(h, w, [d EXCEPT !.phys = s, !.fn = fn])
           /\ Enter(h, va, fn, m)
     /\ UNCHANGED giveup

\* No code: the start was given up, now or before, and is interpreted.
GiveUp(h, va, m, w) ==
  LET d == Way(h, w, va)
      s == IF d.interp THEN d.phys ELSE map[asid[h]][va]
  IN /\ d.fn = None
     /\ \/ d.interp /\ giveup' = giveup
        \/ /\ ~d.interp /\ lookup(s, m) = {}
           /\ \/ giveup = s
              \/ Salvageable(s, m) = {} /\ imem[s] \notin JitTexts
           /\ giveup' = s
     /\ Remember(h, w, [d EXCEPT !.phys = s, !.interp = TRUE])
     /\ busy' = [at |-> "interpret", hart |-> h, way |-> w, va |-> va, start |-> s]
     /\ entered' = {}
     /\ UNCHANGED <<smcVars, gen, writable, granular, missed, cache, g_arena_gen, used, chainVars>>

Dispatch(h, va, m) ==
  /\ busy = None
  /\ \E w \in MemoWays(h, va) :
       \/ DispatchMemo(h, va, m, w)
       \/ DispatchLookup(h, va, m, w)
       \/ salvage(h, va, m, w)
       \/ compile(h, va, m, w)
       \/ GiveUp(h, va, m, w)
  /\ UNCHANGED <<imem, map, asid, bc, bc_generation, unfenced>>

------------------------------------------------------------------------------
(* Inside compiled code. *)

\* A block exit hops to the block linked for its target pc under the current
\* stamp and mode, through its private slot or the chain dispatcher.
ChainHop(va) ==
  /\ busy # None /\ busy.at = "chain"
  /\ \E l \in links :
       /\ l.pc = va /\ l.epoch = chain_epoch[busy.hart] /\ l.mode = busy.mode
       /\ UNCHANGED g_arena_gen
       /\ entered' = Faults(busy.hart, va, l.fn.start, l.fn.text, l.fn.agen, l.fn.mode, busy.mode)
  /\ UNCHANGED <<imem, map, asid, smcVars, gen, writable, cache, giveup, used, memo, chainVars,
                 bc, bc_generation, busy, missed, granular, unfenced>>

\* A compiled store that hits the TLB writes RAM and nothing else.
InlineStore(s, t) ==
  /\ busy # None /\ busy.at = "chain"
  /\ PageOf[s] \in writable[busy.hart]
  /\ imem' = [imem EXCEPT ![s] = t]
  /\ missed' = missed \cup {s}
  /\ unfenced' = unfenced \cup {s}
  /\ entered' = {}
  /\ UNCHANGED <<map, asid, smcVars, gen, writable, jitVars, memo, chainVars, bc, bc_generation,
                 busy, granular>>

\* The chain returns to the runner: no link, the budget is spent, or a miss.
Exit ==
  /\ busy # None /\ busy.at = "chain"
  /\ busy' = None /\ entered' = {}
  /\ UNCHANGED <<imem, map, asid, smcVars, gen, writable, jitVars, memo, chainVars, bc,
                 bc_generation, missed, granular, unfenced>>

------------------------------------------------------------------------------
(* The interpreter. *)

\* BlockCache::lookup
bc_lookup(s) ==
  LET b == bc[LookupSlot[s]]
  IN b # None /\ b.start = s /\ b.gen = bc_generation /\ b.smc = g_smc_epoch

\* The memo's own block: generation, start and epoch are checked again.
MemoBlock(h, w, s) ==
  LET d == memo[h][w]
  IN /\ d.block # None /\ d.block_gen = bc_generation
     /\ bc[d.block] # None /\ bc[d.block].start = s /\ bc[d.block].smc = g_smc_epoch

RunBlock(h, va, slot) ==
  /\ entered' = Faults(h, va, bc'[slot].start, bc'[slot].text, g_arena_gen, None, None)
  /\ busy' = None

\* run_blocks below the JIT: a block from the memo or the cache, a new one, or
\* a single step where no block can be formed.
InterpretBlock ==
  /\ busy # None /\ busy.at = "interpret"
  /\ LET h == busy.hart
         s == busy.start
         w == busy.way
         new == CompileSlot[s]
     IN \/ /\ MemoBlock(h, w, s)
           /\ UNCHANGED <<bc, memo, g_executed_pages, gen, writable, granular, g_arena_gen>>
           /\ RunBlock(h, busy.va, memo[h][w].block)
        \/ /\ ~MemoBlock(h, w, s) /\ bc_lookup(s)
           /\ Remember(h, w, [memo[h][w] EXCEPT !.block = LookupSlot[s], !.block_gen = bc_generation])
           /\ UNCHANGED <<bc, g_executed_pages, gen, writable, granular, g_arena_gen>>
           /\ RunBlock(h, busy.va, LookupSlot[s])
        \/ /\ ~MemoBlock(h, w, s) /\ ~bc_lookup(s) /\ imem[s] \in BlockTexts
           /\ bc' = [bc EXCEPT ![new] = [start |-> s, text |-> imem[s], gen |-> bc_generation,
                                         smc |-> g_smc_epoch]]
           /\ g_executed_pages' = g_executed_pages \cup {PageOf[s]}
           /\ gen[h] < MaxCodeGen
           /\ note_exec(h, PageOf[s])
           /\ Remember(h, w, [memo[h][w] EXCEPT !.block = new, !.block_gen = bc_generation])
           /\ UNCHANGED g_arena_gen
           /\ RunBlock(h, busy.va, new)
        \/ /\ ~MemoBlock(h, w, s) /\ ~bc_lookup(s) /\ imem[s] \notin BlockTexts
           /\ bc' = IF bc[new] = None THEN bc
                    ELSE [bc EXCEPT ![new].start = s, ![new].gen = 0]
           /\ busy' = None /\ entered' = {}
           /\ UNCHANGED <<memo, g_executed_pages, gen, writable, granular, g_arena_gen>>
  /\ UNCHANGED <<imem, map, asid, g_smc_epoch, g_code_page_gen, cache, giveup, used, chainVars,
                 bc_generation, missed, unfenced>>

\* A store through MMIO::write: the TLB is refilled, without write permission
\* when the page was executed; smc_store_hit then moves the epoch on if the
\* page hosts code of this epoch, and drops the mark otherwise.
Store(h, s, t) ==
  LET p == PageOf[s]
      live == p \in g_executed_pages /\ g_code_page_gen[p] = g_smc_epoch
  IN /\ busy = None
     /\ imem' = [imem EXCEPT ![s] = t]
     /\ writable' = [writable EXCEPT ![h] = IF p \in g_executed_pages THEN @ ELSE @ \cup {p}]
     /\ IF live
        THEN g_smc_epoch < MaxEpoch /\ Bump /\ g_executed_pages' = g_executed_pages
        ELSE g_executed_pages' = g_executed_pages \ {p} /\ UNCHANGED <<g_smc_epoch, missed>>
     /\ unfenced' = unfenced \cup {s}
     /\ entered' = {}
     /\ UNCHANGED <<map, asid, g_code_page_gen, gen, jitVars, memo, chainVars, bc, bc_generation,
                    busy, granular>>

\* The guest remaps va and fences all: the TLB generation and the epoch move on.
RemapAll(h, va, s) ==
  /\ busy = None
  /\ gen[h] < MaxCodeGen /\ g_smc_epoch < MaxEpoch
  /\ map' = [map EXCEPT ![asid[h]][va] = s]
  /\ gen' = [gen EXCEPT ![h] = @ + 1]
  /\ writable' = [writable EXCEPT ![h] = {}]
  /\ granular' = [granular EXCEPT ![h] = {}]
  /\ Bump
  /\ entered' = {}
  /\ UNCHANGED <<imem, asid, g_executed_pages, g_code_page_gen, jitVars, memo, chainVars, bc,
                 bc_generation, busy, unfenced>>

\* The guest remaps va and fences that address: the TLB entry goes, alone.
RemapOne(h, va, s) ==
  /\ busy = None
  /\ map' = [map EXCEPT ![asid[h]][va] = s]
  /\ granular' = [granular EXCEPT ![h] = @ \cup {<<asid[h], va>>}]
  /\ entered' = {}
  /\ UNCHANGED <<imem, asid, smcVars, gen, writable, jitVars, memo, chainVars, bc, bc_generation,
                 busy, missed, unfenced>>

\* FENCE.I ends an interpreter block, after which the block cache is cleared.
FENCE_I(h) ==
  /\ busy = None /\ bc_generation < MaxCodeGen
  /\ bc_generation' = bc_generation + 1
  /\ unfenced' = {}
  /\ entered' = {}
  /\ UNCHANGED <<imem, map, asid, smcVars, gen, writable, jitVars, memo, chainVars, bc, busy,
                 missed, granular>>

\* A write of satp flushes nothing.
WriteSatp(h, a) ==
  /\ busy = None /\ a # asid[h]
  /\ asid' = [asid EXCEPT ![h] = a]
  /\ entered' = {}
  /\ UNCHANGED <<imem, map, smcVars, gen, writable, jitVars, memo, chainVars, bc, bc_generation,
                 busy, missed, granular, unfenced>>

CodeNext ==
  \/ \E h \in Harts, va \in Vas, m \in Modes : Dispatch(h, va, m)
  \/ \E va \in Vas : ChainHop(va)
  \/ \E x \in Writes : InlineStore(x[1], x[2])
  \/ Exit
  \/ InterpretBlock
  \/ \E h \in Harts, x \in Writes : Store(h, x[1], x[2])
  \/ \E h \in Harts, x \in Remaps :
       x[1] = asid[h] /\ (RemapAll(h, x[2], x[3]) \/ RemapOne(h, x[2], x[3]))
  \/ \E h \in Harts : FENCE_I(h)
  \/ \E h \in Harts, a \in Asids : WriteSatp(h, a)

CodeSpec == CodeInit /\ [][CodeNext]_codeVars

------------------------------------------------------------------------------
(* Properties. *)

\* No dispatch, by memo, cache, salvage or chain link, enters code whose arena
\* was released to make room (release_arenas): the epoch moves on before.
NoFreedCode == "freed" \notin entered

\* Compiled code that no longer matches the guest's text is entered only if
\* the text was changed by a compiled store that hit a writable TLB entry, and
\* an interpreter block that no longer matches it is run only if the guest has
\* not executed FENCE.I since it stored there.
StaleExplained == "stale" \in entered => IF busy # None THEN "missed" \in entered ELSE "unfenced" \in entered

\* Code of another physical page than the pc is mapped to is entered only
\* after that address was remapped under an address-granular SFENCE.VMA.
MovedOnlyIfGranular == "moved" \in entered => "granular" \in entered

\* The fetch a dispatch stands for: the code entered is the text now at the
\* physical address that pc is mapped to, whichever fence the guest used.
FetchesCurrentText == entered \cap {"stale", "moved"} = {}
=============================================================================
