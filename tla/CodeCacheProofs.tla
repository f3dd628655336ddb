--------------------------- MODULE CodeCacheProofs ---------------------------
(***************************************************************************)
(* Proofs about CodeCache, for a machine of one hart and every number of   *)
(* starts, pages, address spaces and ways, with no bound on epochs,        *)
(* generations or chain stamps.                                            *)
(*                                                                         *)
(* The argument: whatever the memo, the JIT cache or a link would answer   *)
(* with under the present epoch is live code (Live), and what they would   *)
(* answer with under the present generation as well lies where the tables  *)
(* put the address, or the address was fenced alone (Placed).              *)
(***************************************************************************)
EXTENDS CodeCache, TLAPS

Texts == JitTexts \cup {x[2] : x \in Writes}
Slots == {CompileSlot[x] : x \in Starts} \cup {LookupSlot[x] : x \in Starts}
MemoIndices == 1 .. MEMO_WAYS
CacheIndices == 1 .. CACHE_WAYS

Codes == [start : Starts, text : Texts, mode : Modes, agen : Nat]
CacheEntries == [start : Starts, smc : Nat, fn : Codes]
Keys == [va : Vas, gen : Nat, smc : Nat, asid : Asids]
MemoEntries == [key : Keys, phys : Starts \cup {None}, fn : Codes \cup {None}, interp : BOOLEAN,
                block : Slots \cup {None}, block_gen : Nat]
ChainKeys == [gen : Nat, smc : Nat, asid : Asids]
LinkEntries == [fn : Codes, pc : Vas, epoch : Nat, mode : Modes]
Blocks == [start : Starts, text : Texts, gen : Nat, smc : Nat]
InChain == [at : {"chain"}, hart : Harts, mode : Modes]
InInterpreter == [at : {"interpret"}, hart : Harts, way : MemoIndices, va : Vas, start : Starts]

\* What the theorems ask of the constants: one hart, the parameters of their types,
\* and a None that is no place of the runner, memo entry or chain key.
OneHart ==
  /\ \A g, h \in Harts : g = h
  /\ PageOf \in [Starts -> Pages]
  /\ Map0 \in [Asids -> [Vas -> Starts]]
  /\ \A x \in Writes : x[1] \in Starts
  /\ \A x \in Remaps : x[2] \in Vas /\ x[3] \in Starts
  /\ None \notin InChain \cup InInterpreter \cup MemoEntries \cup ChainKeys

CodeTypes ==
  /\ imem \in [Starts -> Texts]
  /\ map \in [Asids -> [Vas -> Starts]]
  /\ asid \in [Harts -> Asids]
  /\ g_smc_epoch \in Nat
  /\ g_executed_pages \subseteq Pages
  /\ g_code_page_gen \in [Pages -> Nat]
  /\ gen \in [Harts -> Nat]
  /\ writable \in [Harts -> SUBSET Pages]
  /\ granular \in [Harts -> SUBSET (Asids \X Vas)]
  /\ cache \in [CacheIndices -> CacheEntries \cup {None}]
  /\ g_arena_gen \in Nat
  /\ memo \in [Harts -> [MemoIndices -> MemoEntries \cup {None}]]
  /\ chain_key \in [Harts -> ChainKeys \cup {None}]
  /\ chain_epoch \in [Harts -> Nat]
  /\ links \subseteq LinkEntries
  /\ bc \in [Slots -> Blocks \cup {None}]
  /\ bc_generation \in Nat \ {0}
  /\ busy \in InChain \cup InInterpreter \cup {None}

\* Code of a live arena, of the text in memory unless an inline store changed it, on a
\* page that a store through MMIO::write would find marked.
Live(fn) ==
  /\ fn.agen = g_arena_gen
  /\ fn.text = imem[fn.start] \/ fn.start \in missed
  /\ PageOf[fn.start] \in g_executed_pages
  /\ g_code_page_gen[PageOf[fn.start]] = g_smc_epoch

\* Where the tables put the address, if it was not fenced alone since the last flush.
Placed(h, start, a, va) == start = map[a][va] \/ <<a, va>> \in granular[h]

\* A block of the memo still begins with text a block can begin with, and the slot that
\* is named for its start holds a block of this generation, unless the guest owes a FENCE.I.
Formed(d) ==
  \/ d.phys \in unfenced
  \/ /\ imem[d.phys] \in BlockTexts
     /\ bc[d.block] # None /\ bc[d.block].start = d.phys => bc[d.block].gen = bc_generation

MemoSound(h, d) ==
  /\ d.key.smc <= g_smc_epoch
  /\ d.key.gen <= gen[h]
  /\ d.block_gen <= bc_generation
  /\ d.interp => d.phys \in Starts
  /\ d.block # None => d.interp
  /\ d.key.smc = g_smc_epoch /\ d.fn # None => Live(d.fn)
  /\ d.key.smc = g_smc_epoch /\ d.key.gen = gen[h] =>
       /\ d.fn # None => Placed(h, d.fn.start, d.key.asid, d.key.va)
       /\ d.interp => Placed(h, d.phys, d.key.asid, d.key.va)
  /\ d.block # None /\ d.block_gen = bc_generation => Formed(d)

EntrySound(e) ==
  /\ e.fn.start = e.start
  /\ e.smc <= g_smc_epoch
  /\ e.smc = g_smc_epoch => Live(e.fn)

LinkSound(h, l) ==
  /\ l.epoch <= chain_epoch[h]
  /\ l.epoch = chain_epoch[h] =>
       /\ chain_key[h] \in ChainKeys
       /\ chain_key[h].smc = g_smc_epoch =>
            /\ Live(l.fn)
            /\ chain_key[h].gen = gen[h] => Placed(h, l.fn.start, chain_key[h].asid, l.pc)

KeySound(h) ==
  chain_key[h] \in ChainKeys => chain_key[h].smc <= g_smc_epoch /\ chain_key[h].gen <= gen[h]

BlockSound(b) ==
  /\ b.gen <= bc_generation
  /\ b.gen = bc_generation => b.text \in BlockTexts /\ (b.text = imem[b.start] \/ b.start \in unfenced)

\* A chain runs under the key it was entered with; an interpreted start is the one its
\* memo way answered with.
BusySound ==
  /\ busy \in InChain =>
       chain_key[busy.hart] = [gen |-> gen[busy.hart], smc |-> g_smc_epoch, asid |-> asid[busy.hart]]
  /\ busy \in InInterpreter =>
       LET d == memo[busy.hart][busy.way]
       IN d \in MemoEntries /\ d.interp /\ d.phys = busy.start /\ d.key = Key(busy.hart, busy.va)

MemosSound == \A h \in Harts, w \in MemoIndices : memo[h][w] # None => MemoSound(h, memo[h][w])
CacheSound == \A x \in CacheIndices : cache[x] # None => EntrySound(cache[x])
LinksSound == (\A h \in Harts : KeySound(h)) /\ \A h \in Harts, l \in links : LinkSound(h, l)
BlocksSound == \A x \in Slots : bc[x] # None => BlockSound(bc[x])

CodeInv == CodeTypes /\ MemosSound /\ CacheSound /\ LinksSound /\ BlocksSound /\ BusySound

------------------------------------------------------------------------------
(* How a step may move the epoch, the generations and the block cache: what *)
(* was sound stays so.                                                      *)

EpochMoves ==
  \/ g_smc_epoch' > g_smc_epoch
  \/ g_smc_epoch' = g_smc_epoch /\ \A fn \in Codes : Live(fn) => Live(fn)'

GenMoves ==
  \A h \in Harts :
    /\ gen'[h] >= gen[h]
    /\ gen'[h] = gen[h] /\ g_smc_epoch' = g_smc_epoch =>
         \A start \in Starts, a \in Asids, va \in Vas : Placed(h, start, a, va) => Placed(h, start, a, va)'

BlocksMove ==
  \/ bc_generation' > bc_generation
  \/ /\ bc_generation' = bc_generation
     /\ \A d \in MemoEntries : d.block # None /\ d.phys \in Starts /\ Formed(d) => Formed(d)'
     /\ \A b \in Blocks : BlockSound(b) => BlockSound(b)'

\* The fields of the records, once, so that no later step needs their sets.
LEMMA Fields ==
  /\ \A fn \in Codes : fn.start \in Starts /\ fn.text \in Texts /\ fn.mode \in Modes /\ fn.agen \in Nat
  /\ \A e \in CacheEntries : e.start \in Starts /\ e.smc \in Nat /\ e.fn \in Codes
  /\ \A k \in Keys : k.va \in Vas /\ k.gen \in Nat /\ k.smc \in Nat /\ k.asid \in Asids
  /\ \A d \in MemoEntries :
       /\ d.key \in Keys /\ d.phys \in Starts \cup {None} /\ d.fn \in Codes \cup {None}
       /\ d.interp \in BOOLEAN /\ d.block \in Slots \cup {None} /\ d.block_gen \in Nat
  /\ \A k \in ChainKeys : k.gen \in Nat /\ k.smc \in Nat /\ k.asid \in Asids
  /\ \A l \in LinkEntries : l.fn \in Codes /\ l.pc \in Vas /\ l.epoch \in Nat /\ l.mode \in Modes
  /\ \A b \in Blocks : b.start \in Starts /\ b.text \in Texts /\ b.gen \in Nat /\ b.smc \in Nat
  <1>1. \A fn \in Codes : fn.start \in Starts /\ fn.text \in Texts /\ fn.mode \in Modes /\ fn.agen \in Nat
    BY Zenon DEF Codes
  <1>2. \A e \in CacheEntries : e.start \in Starts /\ e.smc \in Nat /\ e.fn \in Codes
    BY Zenon DEF CacheEntries
  <1>3. \A k \in Keys : k.va \in Vas /\ k.gen \in Nat /\ k.smc \in Nat /\ k.asid \in Asids
    BY Zenon DEF Keys
  <1>4. \A d \in MemoEntries :
          /\ d.key \in Keys /\ d.phys \in Starts \cup {None} /\ d.fn \in Codes \cup {None}
          /\ d.interp \in BOOLEAN /\ d.block \in Slots \cup {None} /\ d.block_gen \in Nat
    BY Zenon DEF MemoEntries
  <1>5. \A k \in ChainKeys : k.gen \in Nat /\ k.smc \in Nat /\ k.asid \in Asids
    BY Zenon DEF ChainKeys
  <1>6. \A l \in LinkEntries : l.fn \in Codes /\ l.pc \in Vas /\ l.epoch \in Nat /\ l.mode \in Modes
    BY Zenon DEF LinkEntries
  <1>7. \A b \in Blocks : b.start \in Starts /\ b.text \in Texts /\ b.gen \in Nat /\ b.smc \in Nat
    BY Zenon DEF Blocks
  <1> QED BY <1>1, <1>2, <1>3, <1>4, <1>5, <1>6, <1>7, Zenon

\* The counters, which are all that the comparisons are about.
Counters ==
  /\ g_smc_epoch \in Nat /\ gen \in [Harts -> Nat] /\ bc_generation \in Nat
  /\ chain_epoch \in [Harts -> Nat]

\* A memo way that was sound stays sound under a step that moves the epoch, the generations
\* and the block cache as above and leaves the way alone.
LEMMA MemoKept ==
  ASSUME Counters, Counters', EpochMoves, GenMoves, BlocksMove,
         NEW h \in Harts, NEW d \in MemoEntries, MemoSound(h, d)
  PROVE  MemoSound(h, d)'
  <1>1. d.key.smc \in Nat /\ d.key.gen \in Nat /\ d.block_gen \in Nat /\ d.key.asid \in Asids /\ d.key.va \in Vas
        /\ d.fn \in Codes \cup {None}
    BY Fields, Zenon
  <1>2. g_smc_epoch \in Nat /\ g_smc_epoch' \in Nat /\ gen[h] \in Nat /\ gen'[h] \in Nat
        /\ bc_generation \in Nat /\ bc_generation' \in Nat
    BY Zenon DEF Counters
  <1>3. g_smc_epoch' >= g_smc_epoch /\ gen'[h] >= gen[h] /\ bc_generation' >= bc_generation
    BY <1>2 DEF EpochMoves, GenMoves, BlocksMove
  <1>4. /\ d.key.smc <= g_smc_epoch' /\ d.key.gen <= gen'[h] /\ d.block_gen <= bc_generation'
        /\ d.interp => d.phys \in Starts
        /\ d.block # None => d.interp
    BY <1>1, <1>2, <1>3 DEF MemoSound
  <1>5. ASSUME d.key.smc = g_smc_epoch', d.fn # None PROVE Live(d.fn)'
    <2>1. g_smc_epoch' = g_smc_epoch /\ Live(d.fn)
      BY <1>1, <1>2, <1>3, <1>5 DEF MemoSound
    <2>2. \A fn \in Codes : Live(fn) => Live(fn)'
      BY <1>2, <2>1 DEF EpochMoves
    <2> QED BY <1>1, <1>5, <2>1, <2>2, Zenon
  <1>6. ASSUME d.key.smc = g_smc_epoch', d.key.gen = gen'[h]
        PROVE  /\ d.fn # None => Placed(h, d.fn.start, d.key.asid, d.key.va)'
               /\ d.interp => Placed(h, d.phys, d.key.asid, d.key.va)'
    <2>1. g_smc_epoch' = g_smc_epoch /\ gen'[h] = gen[h] /\ d.key.smc = g_smc_epoch /\ d.key.gen = gen[h]
      BY <1>1, <1>2, <1>3, <1>6 DEF MemoSound
    <2>2. \A start \in Starts, a \in Asids, va \in Vas : Placed(h, start, a, va) => Placed(h, start, a, va)'
      BY <2>1, Zenon DEF GenMoves
    <2>3. d.fn # None => Placed(h, d.fn.start, d.key.asid, d.key.va) /\ d.fn.start \in Starts
      BY <1>1, <2>1, Fields, Zenon DEF MemoSound
    <2>4. d.interp => Placed(h, d.phys, d.key.asid, d.key.va) /\ d.phys \in Starts
      BY <2>1, Zenon DEF MemoSound
    <2> QED BY <1>1, <2>2, <2>3, <2>4, Zenon
  <1>7. ASSUME d.block # None, d.block_gen = bc_generation' PROVE Formed(d)'
    <2>1. bc_generation' = bc_generation /\ d.phys \in Starts /\ Formed(d)
      BY <1>1, <1>2, <1>3, <1>7 DEF MemoSound
    <2> QED BY <1>2, <1>7, <2>1 DEF BlocksMove
  <1> QED BY <1>4, <1>5, <1>6, <1>7, Zenon DEF MemoSound

\* So does an entry of the JIT cache.
LEMMA EntryKept ==
  ASSUME Counters, Counters', EpochMoves, NEW e \in CacheEntries, EntrySound(e)
  PROVE  EntrySound(e)'
  BY Fields DEF EntrySound, EpochMoves, Counters

\* So do the chain key and every link under it.
LEMMA LinkKept ==
  ASSUME Counters, Counters', EpochMoves, GenMoves, NEW h \in Harts, KeySound(h),
         chain_key' = chain_key, chain_epoch' = chain_epoch
  PROVE  KeySound(h)' /\ \A l \in LinkEntries : LinkSound(h, l) => LinkSound(h, l)'
  <1>0. PICK k : k = chain_key[h]
    BY Zenon
  <1>1. g_smc_epoch \in Nat /\ g_smc_epoch' \in Nat /\ gen[h] \in Nat /\ gen'[h] \in Nat
    BY Zenon DEF Counters
  <1>2. g_smc_epoch' >= g_smc_epoch /\ gen'[h] >= gen[h]
    BY <1>1 DEF EpochMoves, GenMoves
  <1>3. k \in ChainKeys => k.smc \in Nat /\ k.gen \in Nat /\ k.asid \in Asids /\ k.smc <= g_smc_epoch /\ k.gen <= gen[h]
    BY <1>0, Fields, Zenon DEF KeySound
  <1>4. KeySound(h)'
    BY <1>0, <1>1, <1>2, <1>3 DEF KeySound
  <1>5. ASSUME NEW l \in LinkEntries, LinkSound(h, l) PROVE LinkSound(h, l)'
    <2>1. l.fn \in Codes /\ l.pc \in Vas /\ l.fn.start \in Starts
      BY Fields, Zenon
    <2>2. ASSUME l.epoch = chain_epoch[h], k.smc = g_smc_epoch' PROVE Live(l.fn)'
      BY <1>0, <1>1, <1>2, <1>3, <1>5, <2>1, <2>2 DEF LinkSound, EpochMoves
    <2>3. ASSUME l.epoch = chain_epoch[h], k.smc = g_smc_epoch', k.gen = gen'[h]
          PROVE  Placed(h, l.fn.start, k.asid, l.pc)'
      <3>1. g_smc_epoch' = g_smc_epoch /\ gen'[h] = gen[h] /\ k.asid \in Asids
        BY <1>0, <1>1, <1>2, <1>3, <1>5, <2>3 DEF LinkSound
      <3>2. Placed(h, l.fn.start, k.asid, l.pc)
        BY <1>0, <1>5, <2>3, <3>1, Zenon DEF LinkSound
      <3> QED BY <2>1, <3>1, <3>2, Zenon DEF GenMoves
    <2>4. chain_key'[h] = k /\ chain_key[h] = k
      BY <1>0, Zenon
    <2>5. l.epoch = chain_epoch[h] => k \in ChainKeys
      BY <1>5, <2>4, Zenon DEF LinkSound
    <2> QED BY <1>5, <2>2, <2>3, <2>4, <2>5, Zenon DEF LinkSound, Placed
  <1> QED BY <1>4, <1>5, Zenon

------------------------------------------------------------------------------
(* Entering code. *)

Harmless == NoFreedCode /\ StaleExplained /\ MovedOnlyIfGranular

\* The two places of the runner are told apart by their tags.
LEMMA Places ==
  /\ \A b \in InChain : b.at = "chain" /\ b.hart \in Harts /\ b.mode \in Modes
  /\ \A b \in InInterpreter :
       b.at = "interpret" /\ b.hart \in Harts /\ b.way \in MemoIndices /\ b.va \in Vas /\ b.start \in Starts
  /\ \A b \in InChain : b \notin InInterpreter
  <1>1. \A b \in InChain : b.at = "chain" /\ b.hart \in Harts /\ b.mode \in Modes
    BY Zenon DEF InChain
  <1>2. \A b \in InInterpreter :
          b.at = "interpret" /\ b.hart \in Harts /\ b.way \in MemoIndices /\ b.va \in Vas /\ b.start \in Starts
    BY Zenon DEF InInterpreter
  <1> QED BY <1>1, <1>2, Zenon

\* What a step finds wrong with the code it enters is a set of these words.
LEMMA FaultWords ==
  ASSUME NEW h, NEW va, NEW start, NEW text, NEW agen, NEW mode, NEW m,
         entered' = Faults(h, va, start, text, agen, mode, m)
  PROVE  /\ ("freed" \in entered') <=> (agen # g_arena_gen')
         /\ ("stale" \in entered') <=> (text # imem[start])
         /\ ("missed" \in entered') <=> (start \in missed)
         /\ ("unfenced" \in entered') <=> (start \in unfenced)
         /\ ("moved" \in entered') <=> (start # map[asid[h]][va])
         /\ ("granular" \in entered') <=> (<<asid[h], va>> \in granular[h])
  BY Zenon DEF Faults

\* Enter with live code that lies where the address is mapped: the links stay sound, the
\* new one included, and nothing is wrong that the properties do not excuse.
LEMMA EnterStep ==
  ASSUME OneHart, CodeTypes, g_smc_epoch' \in Nat, gen' \in [Harts -> Nat], EpochMoves, GenMoves,
         LinksSound,
         NEW h \in Harts, NEW va \in Vas, NEW m \in Modes, NEW fn \in Codes, NEW a \in Asids,
         asid' = asid, a = asid[h],
         fn.text = imem[fn.start] \/ fn.start \in missed, Placed(h, fn.start, a, va),
         Live(fn)', Placed(h, fn.start, a, va)',
         Enter(h, va, fn, m)
  PROVE  /\ chain_key' \in [Harts -> ChainKeys \cup {None}] /\ chain_epoch' \in [Harts -> Nat]
         /\ links' \subseteq LinkEntries /\ busy' \in InChain
         /\ LinksSound' /\ BusySound' /\ Harmless'
  <1>1. PICK key : key = [gen |-> gen'[h], smc |-> g_smc_epoch', asid |-> a]
    BY Zenon
  <1>2. key \in ChainKeys /\ key.gen = gen'[h] /\ key.smc = g_smc_epoch' /\ key.asid = a
    BY <1>1, Zenon DEF ChainKeys
  <1>3. PICK e : e = IF key = chain_key[h] THEN chain_epoch[h] ELSE chain_epoch[h] + 1
    BY Zenon
  <1>4. e \in Nat /\ chain_epoch[h] \in Nat /\ e >= chain_epoch[h] /\ (e = chain_epoch[h] => key = chain_key[h])
    BY <1>3 DEF CodeTypes
  <1>5. PICK new : new = [fn |-> fn, pc |-> va, epoch |-> e, mode |-> m]
    BY Zenon
  <1>6. new \in LinkEntries /\ new.fn = fn /\ new.pc = va /\ new.epoch = e
    BY <1>4, <1>5, Zenon DEF LinkEntries
  <1>7. /\ chain_key' = [chain_key EXCEPT ![h] = key]
        /\ chain_epoch' = [chain_epoch EXCEPT ![h] = e]
        /\ links' \subseteq links \cup {new}
        /\ busy' = [at |-> "chain", hart |-> h, mode |-> m]
        /\ entered' = Faults(h, va, fn.start, fn.text, fn.agen, fn.mode, m)
    BY <1>1, <1>3, <1>5, Zenon DEF Enter
  <1>8. /\ chain_key' \in [Harts -> ChainKeys \cup {None}] /\ chain_epoch' \in [Harts -> Nat]
        /\ links' \subseteq LinkEntries /\ busy' \in InChain
        /\ chain_key'[h] = key /\ chain_epoch'[h] = e
    BY <1>2, <1>4, <1>6, <1>7, Zenon DEF CodeTypes, InChain
  <1>9. \A g \in Harts : g = h
    BY Zenon DEF OneHart
  <1>10. KeySound(h)'
    BY <1>2, <1>8 DEF KeySound
  <1>11. ASSUME NEW l \in links' PROVE LinkSound(h, l)'
    <2>1. CASE l = new
      BY <1>2, <1>4, <1>6, <1>8, <2>1 DEF LinkSound, Placed
    <2>2. CASE l \in links
      <3>1. l \in LinkEntries /\ l.epoch \in Nat /\ l.epoch <= chain_epoch[h] /\ LinkSound(h, l) /\ KeySound(h)
            /\ l.fn \in Codes /\ l.fn.start \in Starts /\ l.pc \in Vas
        <4>1. l \in LinkEntries /\ LinkSound(h, l) /\ KeySound(h)
          BY <2>2, Zenon DEF CodeTypes, LinksSound
        <4> QED BY <4>1, Fields, Zenon DEF LinkSound
      <3>2. l.epoch <= e
        BY <1>4, <3>1
      <3>3. ASSUME l.epoch = e PROVE Live(l.fn)' /\ Placed(h, l.fn.start, a, l.pc)'
        <4>1. l.epoch = chain_epoch[h] /\ key = chain_key[h]
          BY <1>4, <3>1, <3>3
        <4>2. g_smc_epoch' <= g_smc_epoch /\ gen'[h] <= gen[h]
          BY <1>2, <3>1, <4>1, Zenon DEF KeySound
        <4>3. g_smc_epoch' = g_smc_epoch /\ gen'[h] = gen[h]
          <5>1. g_smc_epoch \in Nat /\ gen[h] \in Nat /\ gen'[h] \in Nat
            BY Zenon DEF CodeTypes
          <5>2. g_smc_epoch' >= g_smc_epoch /\ gen'[h] >= gen[h]
            BY <5>1 DEF EpochMoves, GenMoves
          <5> QED BY <4>2, <5>1, <5>2
        <4>4. Live(l.fn) /\ Placed(h, l.fn.start, a, l.pc)
          BY <1>2, <3>1, <4>1, <4>3, Zenon DEF LinkSound
        <4>5. (\A f \in Codes : Live(f) => Live(f)')
          BY <4>3 DEF EpochMoves, CodeTypes
        <4> QED BY <3>1, <4>3, <4>4, <4>5, Zenon DEF GenMoves
      <3> QED BY <1>2, <1>8, <3>2, <3>3, Zenon DEF LinkSound, Placed
    <2> QED BY <1>7, <2>1, <2>2, Zenon
  <1>12. BusySound'
    <2>1. busy'.hart = h /\ asid'[h] = a
      BY <1>7, Zenon
    <2>2. busy' \notin InInterpreter
      BY <1>8, Places, Zenon
    <2>3. chain_key'[busy'.hart] = [gen |-> gen'[busy'.hart], smc |-> g_smc_epoch', asid |-> asid'[busy'.hart]]
      BY <1>1, <1>8, <2>1, Zenon
    <2> QED BY <2>2, <2>3, Zenon DEF BusySound
  <1>13. Harmless'
    <2>1. /\ ("freed" \in entered') <=> (fn.agen # g_arena_gen')
          /\ ("stale" \in entered') <=> (fn.text # imem[fn.start])
          /\ ("missed" \in entered') <=> (fn.start \in missed)
          /\ ("moved" \in entered') <=> (fn.start # map[a][va])
          /\ ("granular" \in entered') <=> (<<a, va>> \in granular[h])
      BY <1>7, FaultWords
    <2>2. busy' # None
      BY <1>8, Zenon DEF OneHart
    <2>3. fn.agen = g_arena_gen'
      BY Zenon DEF Live
    <2> QED BY <2>1, <2>2, <2>3, ZenonT(60) DEF Harmless, NoFreedCode, StaleExplained, MovedOnlyIfGranular, Placed
  <1>14. LinksSound'
    BY <1>9, <1>10, <1>11, Zenon DEF LinksSound
  <1> QED BY <1>8, <1>12, <1>13, <1>14, Zenon

------------------------------------------------------------------------------
(* What a step leaves alone, and the one memo way or cache way it writes. *)

\* The type invariant gives the counters.
LEMMA TypedCounters == CodeTypes => Counters
  BY Zenon DEF CodeTypes, Counters

\* Remember(h, w, d) keeps the memo sound when what it writes is sound afterwards.
LEMMA MemoWritten ==
  ASSUME CodeTypes, MemosSound, Counters', EpochMoves, GenMoves, BlocksMove,
         NEW h \in Harts, NEW w \in MemoIndices, NEW d \in MemoEntries, MemoSound(h, d)',
         Remember(h, w, d)
  PROVE  /\ memo' \in [Harts -> [MemoIndices -> MemoEntries \cup {None}]]
         /\ memo'[h][w] = d
         /\ MemosSound'
  <1>1. memo \in [Harts -> [MemoIndices -> MemoEntries \cup {None}]]
    BY Zenon DEF CodeTypes
  <1>2. /\ memo' \in [Harts -> [MemoIndices -> MemoEntries \cup {None}]]
        /\ memo'[h][w] = d
        /\ \A g \in Harts, x \in MemoIndices : (g = h /\ x = w) \/ memo'[g][x] = memo[g][x]
    BY <1>1, Zenon DEF Remember
  <1>3. ASSUME NEW g \in Harts, NEW x \in MemoIndices, memo'[g][x] # None
        PROVE  MemoSound(g, memo[g][x])'
    <2>1. CASE g = h /\ x = w
      <3>1. memo'[g][x] = d
        BY <1>2, <2>1, Zenon
      <3> QED BY <2>1, <3>1, Zenon DEF MemoSound, Formed, Live, Placed
    <2>2. CASE ~(g = h /\ x = w)
      <3>1. PICK f : f = memo[g][x]
        BY Zenon
      <3>2. f \in MemoEntries /\ MemoSound(g, f)
        BY <1>1, <1>2, <1>3, <2>2, <3>1 DEF MemosSound
      <3>3. MemoSound(g, f)'
        BY <3>2, MemoKept, TypedCounters, Zenon
      <3>4. memo'[g][x] = f
        BY <1>2, <2>2, <3>1, Zenon
      <3> QED BY <3>3, <3>4, Zenon DEF MemoSound, Formed, Live, Placed
    <2> QED BY <2>1, <2>2, Zenon
  <1> QED BY <1>2, <1>3, Zenon DEF MemosSound

\* A step that writes no memo way keeps the memo sound.
LEMMA MemoUnwritten ==
  ASSUME CodeTypes, MemosSound, Counters', EpochMoves, GenMoves, BlocksMove, memo' = memo
  PROVE  MemosSound'
  <1>1. ASSUME NEW g \in Harts, NEW x \in MemoIndices, memo'[g][x] # None
        PROVE  MemoSound(g, memo[g][x])'
    <2>1. PICK f : f = memo[g][x]
      BY Zenon
    <2>2. f \in MemoEntries /\ MemoSound(g, f)
      BY <1>1, <2>1 DEF MemosSound, CodeTypes
    <2>3. MemoSound(g, f)'
      BY <2>2, MemoKept, TypedCounters, Zenon
    <2> QED BY <2>1, <2>3, Zenon DEF MemoSound, Formed, Live, Placed
  <1> QED BY <1>1, Zenon DEF MemosSound

\* Every way of the JIT cache is one of before, or holds live code under the epoch.
LEMMA CacheStep ==
  ASSUME CodeTypes, CacheSound, Counters', EpochMoves,
         \A x \in CacheIndices : \/ cache'[x] = cache[x]
                                 \/ cache'[x] \in CacheEntries /\ EntrySound(cache[x])'
  PROVE  CacheSound'
  <1>1. ASSUME NEW x \in CacheIndices, cache'[x] = cache[x], cache[x] # None
        PROVE  EntrySound(cache[x])'
    <2>1. PICK e : e = cache[x]
      BY Zenon
    <2>2. e \in CacheEntries /\ EntrySound(e)
      BY <1>1, <2>1, Zenon DEF CacheSound, CodeTypes
    <2>3. EntrySound(e)'
      BY <2>2, EntryKept, TypedCounters, Zenon
    <2> QED BY <1>1, <2>1, <2>3, Zenon DEF EntrySound, Live
  <1> QED BY <1>1, Zenon DEF CacheSound

\* A step that writes neither chain key, stamp nor link keeps the links sound.
LEMMA LinksUntouched ==
  ASSUME CodeTypes, LinksSound, Counters', EpochMoves, GenMoves,
         chain_key' = chain_key, chain_epoch' = chain_epoch, links' = links
  PROVE  LinksSound'
  <1>1. ASSUME NEW h \in Harts
        PROVE  KeySound(h)' /\ \A l \in LinkEntries : LinkSound(h, l) => LinkSound(h, l)'
    BY LinkKept, TypedCounters, Zenon DEF LinksSound
  <1>2. links \subseteq LinkEntries
    BY Zenon DEF CodeTypes
  <1> QED BY <1>1, <1>2, Zenon DEF LinksSound

\* The way a dispatch works on: of its key, and sound whether kept or begun anew.
LEMMA WayForm ==
  ASSUME CodeInv, NEW h \in Harts, NEW va \in Vas, NEW w \in MemoIndices
  PROVE  /\ Way(h, w, va) \in MemoEntries
         /\ Way(h, w, va).key = Key(h, va)
         /\ MemoSound(h, Way(h, w, va))
  <1>1. PICK d : d = Way(h, w, va)
    BY Zenon
  <1>2. Key(h, va) \in Keys /\ Key(h, va).smc = g_smc_epoch /\ Key(h, va).gen = gen[h]
        /\ g_smc_epoch \in Nat /\ gen[h] \in Nat /\ bc_generation \in Nat
    BY Zenon DEF Key, Keys, CodeInv, CodeTypes
  <1>3. CASE memo[h][w] # None /\ memo[h][w].key = Key(h, va)
    BY <1>3 DEF Way, CodeInv, MemosSound, CodeTypes
  <1>4. CASE ~(memo[h][w] # None /\ memo[h][w].key = Key(h, va))
    <2>1. d = [key |-> Key(h, va), phys |-> None, fn |-> None, interp |-> FALSE,
               block |-> None, block_gen |-> 0]
      BY <1>1, <1>4, Zenon DEF Way
    <2>2. d \in MemoEntries /\ d.key = Key(h, va) /\ d.fn = None /\ d.interp = FALSE
          /\ d.block = None /\ d.block_gen = 0
      BY <1>2, <2>1, Zenon DEF MemoEntries
    <2>3. MemoSound(h, d)
      BY <1>2, <2>2 DEF MemoSound
    <2> QED BY <1>1, <2>2, <2>3, Zenon
  <1> QED BY <1>3, <1>4, Zenon

------------------------------------------------------------------------------
(* The dispatches. *)

\* The variables a dispatch may write beside the memo and the chain.
MarkTypes ==
  /\ g_smc_epoch \in Nat
  /\ g_executed_pages \subseteq Pages
  /\ g_code_page_gen \in [Pages -> Nat]
  /\ gen \in [Harts -> Nat]
  /\ writable \in [Harts -> SUBSET Pages]
  /\ granular \in [Harts -> SUBSET (Asids \X Vas)]
  /\ cache \in [CacheIndices -> CacheEntries \cup {None}]
  /\ g_arena_gen \in Nat

GuestSame == UNCHANGED <<imem, map, asid, bc, bc_generation, unfenced>>

\* A step that writes neither text, block cache nor fence debt keeps every block sound.
LEMMA BlocksHeld ==
  ASSUME CodeTypes, BlocksSound, UNCHANGED <<imem, bc, bc_generation, unfenced>>
  PROVE  BlocksMove /\ BlocksSound'
  <1>1. \A d \in MemoEntries : Formed(d) => Formed(d)'
    BY Zenon DEF Formed
  <1>2. \A b \in Blocks : BlockSound(b) => BlockSound(b)'
    BY Zenon DEF BlockSound
  <1>3. BlocksSound'
    BY Zenon DEF BlocksSound, BlockSound
  <1> QED BY <1>1, <1>2, <1>3, Zenon DEF BlocksMove

\* Dispatching to live code: every part of the invariant is kept.
LEMMA Entered ==
  ASSUME OneHart, CodeInv, GuestSame, MarkTypes', CacheSound', EpochMoves, GenMoves,
         NEW h \in Harts, NEW va \in Vas, NEW m \in Modes, NEW w \in MemoIndices,
         NEW fn \in Codes, NEW d \in MemoEntries, NEW a \in Asids, a = asid[h],
         fn.text = imem[fn.start] \/ fn.start \in missed, Placed(h, fn.start, a, va),
         Live(fn)', Placed(h, fn.start, a, va)', MemoSound(h, d)',
         Remember(h, w, d), Enter(h, va, fn, m)
  PROVE  CodeInv' /\ Harmless'
  <1>1. CodeTypes /\ MemosSound /\ LinksSound /\ BlocksSound
    BY Zenon DEF CodeInv
  <1>2. BlocksMove /\ BlocksSound'
    BY <1>1, BlocksHeld, Zenon DEF GuestSame
  <1>3. /\ chain_key' \in [Harts -> ChainKeys \cup {None}] /\ chain_epoch' \in [Harts -> Nat]
        /\ links' \subseteq LinkEntries /\ busy' \in InChain
        /\ LinksSound' /\ BusySound' /\ Harmless'
    <2>1. g_smc_epoch' \in Nat /\ gen' \in [Harts -> Nat] /\ asid' = asid
      BY Zenon DEF MarkTypes, GuestSame
    <2> QED BY <1>1, <2>1, EnterStep, Zenon
  <1>4. Counters'
    <2>1. g_smc_epoch' \in Nat /\ gen' \in [Harts -> Nat]
      BY Zenon DEF MarkTypes
    <2>2. bc_generation' \in Nat
      BY <1>1, Zenon DEF CodeTypes, GuestSame
    <2> QED BY <1>3, <2>1, <2>2, Zenon DEF Counters
  <1>5. memo' \in [Harts -> [MemoIndices -> MemoEntries \cup {None}]] /\ MemosSound'
    BY <1>1, <1>2, <1>4, MemoWritten, Zenon
  <1>6. CodeTypes'
    <2>1. /\ imem' \in [Starts -> Texts] /\ map' \in [Asids -> [Vas -> Starts]] /\ asid' \in [Harts -> Asids]
          /\ bc' \in [Slots -> Blocks \cup {None}] /\ bc_generation' \in Nat \ {0}
      BY <1>1, Zenon DEF CodeTypes, GuestSame
    <2> QED BY <1>3, <1>5, <2>1, Zenon DEF CodeTypes, MarkTypes
  <1> QED BY <1>2, <1>3, <1>5, <1>6, Zenon DEF CodeInv

\* The memo way that is given code by a dispatch: it had neither code nor block.
LEMMA WayFilled ==
  ASSUME CodeInv, MarkTypes', GuestSame, EpochMoves, GenMoves,
         NEW h \in Harts, NEW va \in Vas, NEW w \in MemoIndices, NEW a \in Asids, a = asid[h],
         Way(h, w, va).fn = None, ~Way(h, w, va).interp,
         NEW fn \in Codes, NEW s \in Starts, Live(fn)', Placed(h, fn.start, a, va)',
         NEW d, d = [Way(h, w, va) EXCEPT !.phys = s, !.fn = fn]
  PROVE  d \in MemoEntries /\ MemoSound(h, d)'
  <1>1. PICK b : b = Way(h, w, va)
    BY Zenon
  <1>2. b \in MemoEntries /\ b.key = Key(h, va) /\ MemoSound(h, b) /\ ~b.interp
    BY <1>1, WayForm, Zenon
  <1>3. d \in MemoEntries /\ d.key = b.key /\ d.fn = fn /\ d.interp = b.interp /\ d.block = b.block
        /\ d.block_gen = b.block_gen
    BY <1>1, <1>2, Zenon DEF MemoEntries
  <1>4. d.block = None /\ d.block_gen \in Nat /\ d.block_gen <= bc_generation /\ ~d.interp
    BY <1>2, <1>3, Fields, Zenon DEF MemoSound
  <1>5. d.key.smc = g_smc_epoch /\ d.key.gen = gen[h] /\ d.key.asid = a /\ d.key.va = va
    BY <1>2, <1>3 DEF Key
  <1>6. /\ g_smc_epoch \in Nat /\ gen[h] \in Nat /\ g_smc_epoch' \in Nat /\ gen'[h] \in Nat
        /\ bc_generation' = bc_generation
    BY Zenon DEF CodeInv, CodeTypes, MarkTypes, GuestSame
  <1>7. g_smc_epoch <= g_smc_epoch' /\ gen[h] <= gen'[h]
    BY <1>6 DEF EpochMoves, GenMoves
  <1> QED BY <1>3, <1>4, <1>5, <1>6, <1>7, Zenon DEF MemoSound

\* A step that writes nothing the invariant is relative to.
LEMMA Still ==
  ASSUME Counters, UNCHANGED <<imem, map, missed, smcVars, gen, granular, g_arena_gen>>
  PROVE  /\ EpochMoves /\ GenMoves
         /\ \A fn \in Codes : Live(fn) => Live(fn)'
         /\ \A h \in Harts, start \in Starts, a \in Asids, va \in Vas :
              Placed(h, start, a, va) => Placed(h, start, a, va)'
  <1>1. \A fn \in Codes : Live(fn) => Live(fn)'
    BY Zenon DEF Live, smcVars
  <1>2. \A h \in Harts, start \in Starts, a \in Asids, va \in Vas :
          Placed(h, start, a, va) => Placed(h, start, a, va)'
    BY Zenon DEF Placed
  <1>3. EpochMoves
    BY <1>1, Zenon DEF EpochMoves, smcVars
  <1>4. GenMoves
    BY <1>2 DEF GenMoves, Counters
  <1> QED BY <1>1, <1>2, <1>3, <1>4, Zenon

------------------------------------------------------------------------------
(* The steps that enter no compiled code. *)

\* A step that enters no code does no harm.
LEMMA Quiet == entered' = {} => Harmless'
  BY Zenon DEF Harmless, NoFreedCode, StaleExplained, MovedOnlyIfGranular

\* A block of the interpreter that was sound stays sound.
LEMMA BlockKept ==
  ASSUME Counters, Counters', BlocksMove, NEW b \in Blocks, BlockSound(b)
  PROVE  BlockSound(b)'
  <1>1. b.gen \in Nat /\ bc_generation \in Nat /\ bc_generation' \in Nat
    BY Fields, Zenon DEF Counters
  <1>2. CASE bc_generation' > bc_generation
    BY <1>1, <1>2 DEF BlockSound
  <1>3. CASE ~(bc_generation' > bc_generation)
    BY <1>3, Zenon DEF BlocksMove
  <1> QED BY <1>2, <1>3, Zenon

\* A step that writes no entry of the JIT cache keeps it sound.
LEMMA CacheUntouched ==
  ASSUME CodeTypes, CacheSound, Counters', EpochMoves, cache' = cache
  PROVE  CacheSound'
  BY CacheStep, Zenon

\* A step that writes no slot of the block cache keeps it sound.
LEMMA BlocksUntouched ==
  ASSUME CodeTypes, BlocksSound, Counters', BlocksMove, bc' = bc
  PROVE  BlocksSound'
  <1>1. ASSUME NEW x \in Slots, bc[x] # None PROVE BlockSound(bc[x])'
    <2>1. PICK b : b = bc[x]
      BY Zenon
    <2>2. b \in Blocks /\ BlockSound(b)
      BY <1>1, <2>1, Zenon DEF BlocksSound, CodeTypes
    <2>3. BlockSound(b)'
      BY <2>2, BlockKept, TypedCounters, Zenon
    <2> QED BY <2>1, <2>3, Zenon DEF BlockSound
  <1> QED BY <1>1, Zenon DEF BlocksSound

\* A step that moves epoch, generations and text soundly and writes none of the tables.
LEMMA Carried ==
  ASSUME CodeInv, CodeTypes', EpochMoves, GenMoves, BlocksMove,
         UNCHANGED <<cache, memo, chainVars, bc>>
  PROVE  MemosSound' /\ CacheSound' /\ LinksSound' /\ BlocksSound'
  <1>1. CodeTypes /\ MemosSound /\ CacheSound /\ LinksSound /\ BlocksSound
    BY Zenon DEF CodeInv
  <1>2. Counters'
    BY Zenon DEF CodeTypes, Counters
  <1>3. chain_key' = chain_key /\ chain_epoch' = chain_epoch /\ links' = links
    BY Zenon DEF chainVars
  <1> QED BY <1>1, <1>2, <1>3, MemoUnwritten, CacheUntouched, LinksUntouched, BlocksUntouched, Zenon

------------------------------------------------------------------------------
(* Dispatching, and what happens inside compiled code. *)

\* The code and the address a dispatch starts from.
LEMMA MappedStart ==
  ASSUME OneHart, CodeInv, NEW h \in Harts, NEW va \in Vas, NEW m, NEW s, s = map[asid[h]][va]
  PROVE  /\ asid[h] \in Asids /\ s \in Starts /\ PageOf[s] \in Pages
         /\ \A x \in lookup(s, m) : /\ x \in CacheIndices /\ cache[x] \in CacheEntries /\ cache[x].fn \in Codes
                                    /\ cache[x].fn.start = s /\ Live(cache[x].fn)
         /\ \A x \in Salvageable(s, m) : /\ x \in CacheIndices /\ cache[x] \in CacheEntries
                                         /\ cache[x].fn \in Codes /\ cache[x].start = s
                                         /\ cache[x].fn.start = s /\ cache[x].fn.text = imem[s]
                                         /\ cache[x].fn.agen = g_arena_gen
  <1>1. asid[h] \in Asids /\ s \in Starts /\ PageOf[s] \in Pages
    BY DEF CodeInv, CodeTypes, OneHart
  <1>2. cache \in [CacheIndices -> CacheEntries \cup {None}] /\ CacheSound
    BY Zenon DEF CodeInv, CodeTypes
  <1>3. \A x \in CacheIndices :
          cache[x] # None => cache[x] \in CacheEntries /\ cache[x].fn \in Codes /\ EntrySound(cache[x])
    BY <1>2, Fields, Zenon DEF CacheSound
  <1>4. \A x \in lookup(s, m) : /\ x \in CacheIndices /\ cache[x] # None /\ cache[x].start = s
                                /\ cache[x].smc = g_smc_epoch
    BY <1>2, Zenon DEF lookup
  <1>5. \A x \in Salvageable(s, m) : /\ x \in CacheIndices /\ cache[x] # None /\ cache[x].start = s
                                     /\ cache[x].fn.text = imem[s] /\ cache[x].fn.agen = g_arena_gen
    BY <1>2, Zenon DEF Salvageable
  <1> QED BY <1>1, <1>3, <1>4, <1>5, ZenonT(60) DEF EntrySound

Found(h, s, x) ==
  /\ asid[h] \in Asids /\ s \in Starts
  /\ x \in CacheIndices /\ cache[x] \in CacheEntries /\ cache[x].fn \in Codes
  /\ cache[x].fn.start = s /\ Live(cache[x].fn)
Salvaged(h, s, x) ==
  /\ asid[h] \in Asids /\ s \in Starts
  /\ x \in CacheIndices /\ cache[x] \in CacheEntries /\ cache[x].fn \in Codes /\ cache[x].start = s
  /\ cache[x].fn.start = s /\ cache[x].fn.text = imem[s] /\ cache[x].fn.agen = g_arena_gen

\* The entry that lookup finds.
LEMMA FoundCode ==
  ASSUME OneHart, CodeInv, NEW h \in Harts, NEW va \in Vas, NEW m, NEW s, NEW a, a = asid[h], s = map[a][va],
         NEW x, x \in lookup(s, m)
  PROVE  Found(h, s, x)
  BY MappedStart DEF Found

\* The entry of an older epoch that run_blocks keys again.
LEMMA SalvagedCode ==
  ASSUME OneHart, CodeInv, NEW h \in Harts, NEW va \in Vas, NEW m, NEW s, NEW a, a = asid[h], s = map[a][va],
         NEW x, x \in Salvageable(s, m)
  PROVE  Salvaged(h, s, x)
  BY MappedStart DEF Salvaged

\* run_blocks with compiled code in the memo.
LEMMA DispatchMemoStep ==
  ASSUME OneHart, CodeInv, GuestSame, NEW h \in Harts, NEW va \in Vas, NEW m \in Modes, NEW w \in MemoIndices,
         DispatchMemo(h, va, m, w)
  PROVE  CodeInv' /\ Harmless'
  <1>1. PICK d : d = Way(h, w, va)
    BY Zenon
  <1>2. PICK a : a = asid[h]
    BY Zenon
  <1>3. /\ d.fn # None /\ Remember(h, w, d) /\ Enter(h, va, d.fn, m)
        /\ UNCHANGED <<smcVars, gen, writable, granular, missed, jitVars>>
    BY <1>1, Zenon DEF DispatchMemo
  <1>4. d \in MemoEntries /\ d.key = Key(h, va) /\ MemoSound(h, d)
    BY <1>1, WayForm, Zenon
  <1>5. d.key.smc = g_smc_epoch /\ d.key.gen = gen[h] /\ d.key.asid = a /\ d.key.va = va
    BY <1>2, <1>4 DEF Key
  <1>6. d.fn \in Codes /\ d.fn.start \in Starts /\ Live(d.fn) /\ Placed(h, d.fn.start, a, va) /\ a \in Asids
    <2>1. d.fn \in Codes /\ d.fn.start \in Starts
      BY <1>3, <1>4, Fields, Zenon
    <2>2. Live(d.fn) /\ Placed(h, d.fn.start, a, va)
      BY <1>3, <1>4, <1>5, Zenon DEF MemoSound
    <2> QED BY <1>2, <2>1, <2>2, Zenon DEF CodeInv, CodeTypes
  <1>7. CodeTypes /\ CacheSound /\ Counters /\ BlocksSound
    BY TypedCounters, Zenon DEF CodeInv
  <1>8. EpochMoves /\ GenMoves /\ Live(d.fn)' /\ Placed(h, d.fn.start, a, va)'
    BY <1>3, <1>6, <1>7, Still, Zenon DEF GuestSame, jitVars
  <1>9. MarkTypes' /\ CacheSound' /\ MemoSound(h, d)'
    <2>1. MarkTypes'
      BY <1>3, <1>7, Zenon DEF CodeTypes, MarkTypes, smcVars, jitVars
    <2>2. CacheSound'
      BY <1>3, <1>7, Zenon DEF CacheSound, EntrySound, Live, smcVars, jitVars, GuestSame
    <2>3. MemoSound(h, d)'
      BY <1>3, <1>4, Zenon DEF MemoSound, Formed, Live, Placed, smcVars, jitVars, GuestSame
    <2> QED BY <2>1, <2>2, <2>3, Zenon
  <1>10. d.fn.text = imem[d.fn.start] \/ d.fn.start \in missed
    BY <1>6, Zenon DEF Live
  <1> QED BY <1>2, <1>3, <1>4, <1>6, <1>8, <1>9, <1>10, Entered, Zenon

\* run_blocks with current code in the JIT cache: RVJit::lookup.
LEMMA DispatchLookupStep ==
  ASSUME OneHart, CodeInv, GuestSame, NEW h \in Harts, NEW va \in Vas, NEW m \in Modes, NEW w \in MemoIndices,
         DispatchLookup(h, va, m, w)
  PROVE  CodeInv' /\ Harmless'
  <1>1. PICK s, a : a = asid[h] /\ s = map[a][va]
    BY Zenon
  <1>2. PICK x \in lookup(s, m) :
          /\ Way(h, w, va).fn = None /\ ~Way(h, w, va).interp
          /\ Remember(h, w, [Way(h, w, va) EXCEPT !.phys = s, !.fn = cache[x].fn])
          /\ UNCHANGED <<smcVars, gen, writable, granular, missed, jitVars>>
          /\ Enter(h, va, cache[x].fn, m)
    BY <1>1, Zenon DEF DispatchLookup
  <1>3. PICK fn : fn = cache[x].fn
    BY Zenon
  <1>4. PICK d : d = [Way(h, w, va) EXCEPT !.phys = s, !.fn = fn]
    BY Zenon
  <1>5. a \in Asids /\ s \in Starts /\ fn \in Codes /\ fn.start = s /\ Live(fn)
    <2>1. x \in lookup(s, m)
      BY <1>2, Zenon
    <2>2. Found(h, s, x)
      BY <1>1, <2>1, FoundCode, Zenon
    <2> QED BY <1>1, <1>3, <2>2, Zenon DEF Found
  <1>6. CodeTypes /\ CacheSound /\ Counters
    BY TypedCounters, Zenon DEF CodeInv
  <1>7. Placed(h, fn.start, a, va)
    BY <1>1, <1>5, Zenon DEF Placed
  <1>8. EpochMoves /\ GenMoves /\ Live(fn)' /\ Placed(h, fn.start, a, va)'
    BY <1>2, <1>5, <1>6, <1>7, Still, Zenon DEF GuestSame, jitVars
  <1>9. MarkTypes'
    BY <1>2, <1>6, Zenon DEF CodeTypes, MarkTypes, smcVars, jitVars
  <1>10. CacheSound'
    BY <1>2, <1>6, Zenon DEF CacheSound, EntrySound, Live, smcVars, jitVars, GuestSame
  <1>11. d \in MemoEntries /\ MemoSound(h, d)'
    BY <1>1, <1>2, <1>4, <1>5, <1>8, <1>9, WayFilled, Zenon
  <1>12. fn.text = imem[fn.start] \/ fn.start \in missed
    BY <1>5, Zenon DEF Live
  <1>13. Remember(h, w, d) /\ Enter(h, va, fn, m)
    BY <1>2, <1>3, <1>4, Zenon
  <1> QED BY <1>1, <1>5, <1>7, <1>8, <1>9, <1>10, <1>11, <1>12, <1>13, Entered, Zenon

\* mark_page_code marks a page for the epoch after the step: live code stays live when the
\* epoch stands, and code of the text in memory on the page becomes so.
LEMMA Marked ==
  ASSUME OneHart, CodeTypes, NEW s \in Starts, imem' = imem, g_smc_epoch' \in Nat, mark_page_code(s)
  PROVE  /\ g_executed_pages' \subseteq Pages /\ g_code_page_gen' \in [Pages -> Nat]
         /\ \A fn \in Codes : fn.start = s /\ fn.text = imem[s] /\ fn.agen = g_arena_gen' => Live(fn)'
         /\ UNCHANGED <<g_smc_epoch, missed, g_arena_gen>> => \A fn \in Codes : Live(fn) => Live(fn)'
  <1>1. g_executed_pages \subseteq Pages /\ g_code_page_gen \in [Pages -> Nat]
    BY Zenon DEF CodeTypes
  <1>2. PageOf[s] \in Pages
    BY Zenon DEF OneHart
  <1>3. /\ g_executed_pages' = g_executed_pages \cup {PageOf[s]} /\ g_executed_pages' \subseteq Pages
        /\ g_code_page_gen' \in [Pages -> Nat] /\ g_code_page_gen'[PageOf[s]] = g_smc_epoch'
        /\ \A p \in Pages : p = PageOf[s] \/ g_code_page_gen'[p] = g_code_page_gen[p]
    BY <1>1, <1>2, Zenon DEF mark_page_code
  <1>4. ASSUME NEW fn \in Codes, fn.start = s, fn.text = imem[s], fn.agen = g_arena_gen' PROVE Live(fn)'
    BY <1>3, <1>4, Zenon DEF Live
  <1>5. ASSUME UNCHANGED <<g_smc_epoch, missed, g_arena_gen>>, NEW fn \in Codes, Live(fn) PROVE Live(fn)'
    <2>1. PageOf[fn.start] \in g_executed_pages /\ g_code_page_gen[PageOf[fn.start]] = g_smc_epoch
      BY <1>5, Zenon DEF Live
    <2>2. PageOf[fn.start] \in g_executed_pages' /\ g_code_page_gen'[PageOf[fn.start]] = g_smc_epoch'
      BY <1>1, <1>3, <1>5, <2>1, Zenon
    <2> QED BY <1>5, <2>2, Zenon DEF Live
  <1> QED BY <1>3, <1>4, <1>5, Zenon

\* run_blocks with code of an older epoch that is keyed again.
LEMMA SalvageStep ==
  ASSUME OneHart, CodeInv, GuestSame, NEW h \in Harts, NEW va \in Vas, NEW m \in Modes, NEW w \in MemoIndices,
         salvage(h, va, m, w)
  PROVE  CodeInv' /\ Harmless'
  <1>1. PICK s, a : a = asid[h] /\ s = map[a][va]
    BY Zenon
  <1>2. PICK x \in Salvageable(s, m) :
          /\ Way(h, w, va).fn = None /\ ~Way(h, w, va).interp
          /\ cache' = [cache EXCEPT ![x].smc = g_smc_epoch]
          /\ UNCHANGED <<g_smc_epoch, giveup, g_arena_gen, used, gen, writable, granular, missed>>
          /\ mark_page_code(s)
          /\ Remember(h, w, [Way(h, w, va) EXCEPT !.phys = s, !.fn = cache[x].fn])
          /\ Enter(h, va, cache[x].fn, m)
    BY <1>1, Zenon DEF salvage
  <1>3. PICK fn : fn = cache[x].fn
    BY Zenon
  <1>4. PICK d : d = [Way(h, w, va) EXCEPT !.phys = s, !.fn = fn]
    BY Zenon
  <1>5. /\ a \in Asids /\ s \in Starts /\ fn \in Codes /\ fn.start = s /\ fn.text = imem[s] /\ fn.agen = g_arena_gen
        /\ x \in CacheIndices /\ cache[x] \in CacheEntries /\ cache[x].start = s
    <2>1. x \in Salvageable(s, m)
      BY <1>2, Zenon
    <2>2. Salvaged(h, s, x)
      BY <1>1, <2>1, SalvagedCode, Zenon
    <2> QED BY <1>1, <1>3, <2>2, Zenon DEF Salvaged
  <1>6. CodeTypes /\ CacheSound /\ Counters /\ g_smc_epoch' \in Nat /\ imem' = imem
    BY <1>2, TypedCounters, Zenon DEF CodeInv, Counters, GuestSame
  <1>7. Placed(h, fn.start, a, va) /\ Placed(h, fn.start, a, va)'
    BY <1>1, <1>5, Zenon DEF Placed, GuestSame
  <1>8. /\ g_executed_pages' \subseteq Pages /\ g_code_page_gen' \in [Pages -> Nat]
        /\ Live(fn)' /\ \A f \in Codes : Live(f) => Live(f)'
    BY <1>2, <1>5, <1>6, Marked, Zenon
  <1>9. EpochMoves
    BY <1>2, <1>8, Zenon DEF EpochMoves
  <1>10. GenMoves
    BY <1>2 DEF GenMoves, Placed, GuestSame, CodeInv, CodeTypes
  <1>11. /\ cache' \in [CacheIndices -> CacheEntries \cup {None}]
         /\ \A y \in CacheIndices : y # x => cache'[y] = cache[y]
         /\ cache'[x] \in CacheEntries /\ cache'[x].start = s /\ cache'[x].fn = fn
         /\ cache'[x].smc = g_smc_epoch
    <2>1. cache \in [CacheIndices -> CacheEntries \cup {None}] /\ g_smc_epoch \in Nat
      BY <1>6, Zenon DEF CodeTypes
    <2>2. PICK e : e = [cache[x] EXCEPT !.smc = g_smc_epoch]
      BY Zenon
    <2>3. e \in CacheEntries /\ e.start = s /\ e.fn = fn /\ e.smc = g_smc_epoch
      BY <1>3, <1>5, <2>1, <2>2, Zenon DEF CacheEntries
    <2>4. cache' = [cache EXCEPT ![x] = e]
      BY <1>2, <2>2, Zenon
    <2> QED BY <1>5, <2>1, <2>3, <2>4, Zenon
  <1>12. MarkTypes'
    BY <1>2, <1>6, <1>8, <1>11, Zenon DEF CodeTypes, MarkTypes
  <1>13. CacheSound'
    <2>1. Counters'
      <3>1. chain_epoch' \in [Harts -> Nat]
        BY <1>2, <1>6 DEF Enter, CodeTypes
      <3> QED BY <1>2, <1>6, <3>1, Zenon DEF Counters, GuestSame
    <2>2. EntrySound(cache[x])'
      BY <1>2, <1>5, <1>6, <1>8, <1>11 DEF EntrySound, Live, Counters
    <2> QED BY <1>6, <1>9, <1>11, <2>1, <2>2, CacheStep, Zenon
  <1>14. d \in MemoEntries /\ MemoSound(h, d)'
    BY <1>1, <1>2, <1>4, <1>5, <1>7, <1>8, <1>9, <1>10, <1>12, WayFilled, Zenon
  <1>15. Remember(h, w, d) /\ Enter(h, va, fn, m) /\ fn.text = imem[fn.start]
    BY <1>2, <1>3, <1>4, <1>5, Zenon
  <1> QED BY <1>1, <1>5, <1>7, <1>8, <1>9, <1>10, <1>12, <1>13, <1>14, <1>15, Entered, Zenon

\* note_exec flushes the TLB of the hart or leaves it.
LEMMA NoteExec ==
  ASSUME CodeTypes, NEW h \in Harts, NEW p, map' = map, note_exec(h, p)
  PROVE  /\ gen' \in [Harts -> Nat] /\ writable' \in [Harts -> SUBSET Pages]
         /\ granular' \in [Harts -> SUBSET (Asids \X Vas)]
         /\ GenMoves
  <1>1. /\ gen \in [Harts -> Nat] /\ writable \in [Harts -> SUBSET Pages]
        /\ granular \in [Harts -> SUBSET (Asids \X Vas)]
    BY Zenon DEF CodeTypes
  <1>2. CASE p \in writable[h]
    <2>1. /\ gen' = [gen EXCEPT ![h] = @ + 1] /\ writable' = [writable EXCEPT ![h] = {}]
          /\ granular' = [granular EXCEPT ![h] = {}]
      BY <1>2, Zenon DEF note_exec
    <2>2. \A g \in Harts : /\ gen[g] \in Nat /\ gen'[g] \in Nat
                           /\ \/ gen'[g] > gen[g]
                              \/ gen'[g] = gen[g] /\ granular'[g] = granular[g]
      BY <1>1, <2>1
    <2>3. \A g \in Harts : gen'[g] >= gen[g] /\ (gen'[g] = gen[g] => granular'[g] = granular[g])
      BY <2>2
    <2>4. GenMoves
      BY <2>3, Zenon DEF GenMoves, Placed
    <2> QED BY <1>1, <2>1, <2>4
  <1>3. CASE p \notin writable[h]
    <2>1. gen' = gen /\ writable' = writable /\ granular' = granular
      BY <1>3, Zenon DEF note_exec
    <2>2. GenMoves
      BY <1>1, <2>1 DEF GenMoves, Placed
    <2> QED BY <1>1, <2>1, <2>2, Zenon
  <1> QED BY <1>2, <1>3, Zenon

\* run_blocks compiling the block, the arenas released or not.
LEMMA CompileStep ==
  ASSUME OneHart, CodeInv, GuestSame, NEW h \in Harts, NEW va \in Vas, NEW m \in Modes, NEW w \in MemoIndices,
         compile(h, va, m, w)
  PROVE  CodeInv' /\ Harmless'
  <1>1. PICK s, a : a = asid[h] /\ s = map[a][va]
    BY Zenon
  <1>2. PICK fn : fn = [start |-> s, text |-> imem[s], mode |-> m, agen |-> g_arena_gen']
    BY Zenon
  <1>3. PICK e : e = [start |-> s, smc |-> g_smc_epoch', fn |-> fn]
    BY Zenon
  <1>4. PICK x \in CacheIndices :
          /\ Way(h, w, va).fn = None /\ ~Way(h, w, va).interp
          /\ make_room /\ mark_page_code(s) /\ note_exec(h, PageOf[s])
          /\ cache' = [cache EXCEPT ![x] = e]
          /\ Remember(h, w, [Way(h, w, va) EXCEPT !.phys = s, !.fn = fn])
          /\ Enter(h, va, fn, m)
    <2>1. DOMAIN cache = CacheIndices
      BY Zenon DEF CodeInv, CodeTypes
    <2> QED BY <1>1, <1>2, <1>3, <2>1, Zenon DEF compile
  <1>5. PICK d : d = [Way(h, w, va) EXCEPT !.phys = s, !.fn = fn]
    BY Zenon
  <1>6. CodeTypes /\ CacheSound /\ Counters /\ imem' = imem /\ map' = map
    BY TypedCounters, Zenon DEF CodeInv, GuestSame
  <1>7. a \in Asids /\ s \in Starts
    BY <1>1, MappedStart, Zenon
  <1>8. g_smc_epoch \in Nat /\ g_arena_gen \in Nat /\ imem[s] \in Texts
    BY <1>6, <1>7, Zenon DEF CodeTypes
  <1>9. /\ g_smc_epoch' \in Nat /\ g_arena_gen' \in Nat
        /\ g_smc_epoch' > g_smc_epoch \/ UNCHANGED <<g_smc_epoch, missed, g_arena_gen>>
    BY <1>4, <1>8 DEF make_room, Bump
  <1>10. fn \in Codes /\ fn.start = s /\ fn.text = imem[s] /\ fn.agen = g_arena_gen'
    BY <1>2, <1>7, <1>8, <1>9, Zenon DEF Codes
  <1>11. Placed(h, fn.start, a, va) /\ Placed(h, fn.start, a, va)'
    BY <1>1, <1>6, <1>10, Zenon DEF Placed
  <1>12. /\ g_executed_pages' \subseteq Pages /\ g_code_page_gen' \in [Pages -> Nat] /\ Live(fn)'
         /\ UNCHANGED <<g_smc_epoch, missed, g_arena_gen>> => \A f \in Codes : Live(f) => Live(f)'
    <2>1. mark_page_code(s)
      BY <1>4, Zenon
    <2> QED BY <1>6, <1>7, <1>9, <1>10, <2>1, Marked, Zenon
  <1>13. EpochMoves
    BY <1>9, <1>12, Zenon DEF EpochMoves
  <1>14. /\ gen' \in [Harts -> Nat] /\ writable' \in [Harts -> SUBSET Pages]
         /\ granular' \in [Harts -> SUBSET (Asids \X Vas)]
         /\ GenMoves
    <2>1. note_exec(h, PageOf[s])
      BY <1>4, Zenon
    <2> QED BY <1>6, <2>1, NoteExec, Zenon
  <1>15. e \in CacheEntries /\ e.start = s /\ e.smc = g_smc_epoch' /\ e.fn = fn
    BY <1>3, <1>7, <1>9, <1>10, Zenon DEF CacheEntries
  <1>16. /\ cache' \in [CacheIndices -> CacheEntries \cup {None}] /\ cache'[x] = e
         /\ \A y \in CacheIndices : y # x => cache'[y] = cache[y]
    <2>1. cache \in [CacheIndices -> CacheEntries \cup {None}]
      BY <1>6, Zenon DEF CodeTypes
    <2> QED BY <1>4, <1>15, <2>1, Zenon
  <1>17. MarkTypes'
    BY <1>9, <1>12, <1>14, <1>16, Zenon DEF MarkTypes
  <1>18. CacheSound'
    <2>1. Counters'
      <3>1. chain_epoch' \in [Harts -> Nat]
        BY <1>4, <1>6 DEF Enter, CodeTypes
      <3>2. bc_generation' \in Nat
        BY <1>6, Zenon DEF Counters, GuestSame
      <3> QED BY <1>9, <1>14, <3>1, <3>2, Zenon DEF Counters
    <2>2. EntrySound(cache[x])'
      BY <1>9, <1>10, <1>12, <1>15, <1>16 DEF EntrySound, Live
    <2> QED BY <1>6, <1>13, <1>15, <1>16, <2>1, <2>2, CacheStep, Zenon
  <1>19. d \in MemoEntries /\ MemoSound(h, d)'
    <2>1. Way(h, w, va).fn = None /\ ~Way(h, w, va).interp
      BY <1>4, Zenon
    <2> QED BY <1>1, <1>5, <1>7, <1>10, <1>11, <1>12, <1>13, <1>14, <1>17, <2>1, WayFilled, Zenon
  <1>20. Remember(h, w, d) /\ Enter(h, va, fn, m) /\ fn.text = imem[fn.start]
    BY <1>4, <1>5, <1>10, Zenon
  <1> QED BY <1>1, <1>7, <1>10, <1>11, <1>12, <1>13, <1>14, <1>17, <1>18, <1>19, <1>20, Entered, Zenon

\* run_blocks when the start is left to the interpreter.
LEMMA GiveUpStep ==
  ASSUME OneHart, CodeInv, GuestSame, NEW h \in Harts, NEW va \in Vas, NEW m \in Modes, NEW w \in MemoIndices,
         GiveUp(h, va, m, w)
  PROVE  CodeInv' /\ Harmless'
  <1>1. PICK b, a : b = Way(h, w, va) /\ a = asid[h]
    BY Zenon
  <1>2. PICK s : s = IF b.interp THEN b.phys ELSE map[a][va]
    BY Zenon
  <1>3. PICK d : d = [b EXCEPT !.phys = s, !.interp = TRUE]
    BY Zenon
  <1>4. /\ b.fn = None /\ Remember(h, w, d) /\ entered' = {}
        /\ busy' = [at |-> "interpret", hart |-> h, way |-> w, va |-> va, start |-> s]
        /\ UNCHANGED <<smcVars, gen, writable, granular, missed, cache, g_arena_gen, used, chainVars>>
    BY <1>1, <1>2, <1>3, Zenon DEF GiveUp
  <1>5. b \in MemoEntries /\ b.key = Key(h, va) /\ MemoSound(h, b)
    BY <1>1, WayForm, Zenon
  <1>6. b.key.smc = g_smc_epoch /\ b.key.gen = gen[h] /\ b.key.asid = a /\ b.key.va = va
    BY <1>1, <1>5 DEF Key
  <1>7. CodeTypes /\ Counters /\ MemosSound /\ CacheSound /\ LinksSound /\ BlocksSound /\ a \in Asids
    BY <1>1, TypedCounters, Zenon DEF CodeInv, CodeTypes
  <1>8. s \in Starts /\ Placed(h, s, a, va)
    <2>1. CASE b.interp
      BY <1>2, <1>5, <1>6, <2>1, Zenon DEF MemoSound
    <2>2. CASE ~b.interp
      BY <1>2, <1>7, <2>2 DEF CodeTypes, Placed
    <2> QED BY <2>1, <2>2, Zenon
  <1>9. EpochMoves /\ GenMoves /\ Placed(h, s, a, va)'
    BY <1>4, <1>7, <1>8, Still, Zenon DEF GuestSame
  <1>10. BlocksMove /\ BlocksSound'
    BY <1>7, BlocksHeld, Zenon DEF GuestSame
  <1>11. d \in MemoEntries /\ d.key = b.key /\ d.phys = s /\ d.fn = None /\ d.interp = TRUE /\ d.block = b.block
         /\ d.block_gen = b.block_gen
    BY <1>3, <1>4, <1>5, <1>8, Zenon DEF MemoEntries
  <1>12. Counters'
    BY <1>4, <1>7, Zenon DEF Counters, GuestSame, smcVars, chainVars
  <1>13. MemoSound(h, d)'
    <2>1. d.key.smc <= g_smc_epoch' /\ d.key.gen <= gen'[h] /\ d.block_gen <= bc_generation'
      BY <1>4, <1>5, <1>11, Zenon DEF MemoSound, GuestSame, smcVars
    <2>2. ASSUME d.block # None, d.block_gen = bc_generation' PROVE Formed(d)'
      <3>1. b.block # None /\ b.block_gen = bc_generation /\ bc_generation' = bc_generation
        BY <1>11, <2>2, Zenon DEF GuestSame
      <3>2. b.interp /\ Formed(b)
        BY <1>5, <3>1, Zenon DEF MemoSound
      <3>3. b.phys = d.phys /\ b.block = d.block
        BY <1>2, <1>11, <3>2, Zenon
      <3> QED BY <3>2, <3>3, Zenon DEF Formed, GuestSame
    <2> QED BY <1>6, <1>8, <1>9, <1>11, <2>1, <2>2, Zenon DEF MemoSound
  <1>14. memo' \in [Harts -> [MemoIndices -> MemoEntries \cup {None}]] /\ memo'[h][w] = d /\ MemosSound'
    BY <1>4, <1>7, <1>9, <1>10, <1>11, <1>12, <1>13, MemoWritten, Zenon
  <1>15. CacheSound' /\ LinksSound'
    BY <1>4, <1>7, <1>9, <1>12, CacheUntouched, LinksUntouched, Zenon DEF chainVars
  <1>16. busy' \in InInterpreter /\ busy'.hart = h /\ busy'.way = w /\ busy'.va = va /\ busy'.start = s
    BY <1>4, <1>8, Zenon DEF InInterpreter
  <1>17. CodeTypes'
    BY <1>4, <1>7, <1>14, <1>16, Zenon DEF CodeTypes, GuestSame, smcVars, chainVars
  <1>18. BusySound'
    <2>1. busy' \notin InChain
      BY <1>16, Places, Zenon
    <2>2. memo'[busy'.hart][busy'.way] = d
      BY <1>14, <1>16, Zenon
    <2>3. d.key = Key(h, va)'
      BY <1>4, <1>5, <1>11, Zenon DEF Key, GuestSame, smcVars
    <2>4. Key(busy.hart, busy.va)' = Key(h, va)'
      BY <1>16, Zenon DEF Key
    <2> QED BY <1>11, <1>16, <2>1, <2>2, <2>3, <2>4, Zenon DEF BusySound
  <1> QED BY <1>4, <1>10, <1>14, <1>15, <1>17, <1>18, Quiet, Zenon DEF CodeInv

\* Every way a dispatch may end.
LEMMA DispatchStep ==
  ASSUME OneHart, CodeInv, NEW h \in Harts, NEW va \in Vas, NEW m \in Modes, Dispatch(h, va, m)
  PROVE  CodeInv' /\ Harmless'
  <1>1. PICK w \in MemoIndices : \/ DispatchMemo(h, va, m, w)
                                 \/ DispatchLookup(h, va, m, w)
                                 \/ salvage(h, va, m, w)
                                 \/ compile(h, va, m, w)
                                 \/ GiveUp(h, va, m, w)
    BY Zenon DEF Dispatch, MemoWays, MemoIndices
  <1>2. GuestSame
    BY Zenon DEF Dispatch, GuestSame
  <1> QED BY <1>1, <1>2, DispatchMemoStep, DispatchLookupStep, SalvageStep, CompileStep, GiveUpStep, Zenon

\* A hop stays under the key of its chain, for which the link is sound.
LEMMA HopStep ==
  ASSUME OneHart, CodeInv, NEW va \in Vas, ChainHop(va)
  PROVE  CodeInv' /\ Harmless'
  <1>1. PICK l \in links :
          /\ l.pc = va /\ l.epoch = chain_epoch[busy.hart]
          /\ entered' = Faults(busy.hart, va, l.fn.start, l.fn.text, l.fn.agen, l.fn.mode, busy.mode)
    BY Zenon DEF ChainHop
  <1>2. /\ busy # None /\ busy.at = "chain" /\ UNCHANGED g_arena_gen
        /\ UNCHANGED <<imem, map, asid, smcVars, gen, writable, cache, giveup, used, memo, chainVars,
                       bc, bc_generation, busy, missed, granular, unfenced>>
    BY Zenon DEF ChainHop
  <1>3. PICK h, a : h = busy.hart /\ a = asid[h]
    BY Zenon
  <1>4. CodeTypes /\ LinksSound /\ BusySound
    BY Zenon DEF CodeInv
  <1>5. busy \in InChain /\ h \in Harts
    <2>1. busy \in InChain \cup InInterpreter
      BY <1>2, <1>4, Zenon DEF CodeTypes
    <2> QED BY <1>2, <1>3, <2>1, Places, Zenon
  <1>6. chain_key[h] = [gen |-> gen[h], smc |-> g_smc_epoch, asid |-> a]
    BY <1>3, <1>4, <1>5, ZenonT(60) DEF BusySound
  <1>7. Live(l.fn) /\ Placed(h, l.fn.start, a, va)
    <2>1. LinkSound(h, l)
      BY <1>4, <1>5, Zenon DEF LinksSound
    <2>2. chain_key[h].gen = gen[h] /\ chain_key[h].smc = g_smc_epoch /\ chain_key[h].asid = a
      BY <1>6
    <2>3. l.pc = va /\ l.epoch = chain_epoch[h]
      BY <1>1, <1>3, Zenon
    <2>4. Live(l.fn) /\ Placed(h, l.fn.start, chain_key[h].asid, l.pc)
      BY <2>1, <2>2, <2>3, Zenon DEF LinkSound
    <2> QED BY <2>2, <2>3, <2>4, Zenon
  <1>8. CodeInv'
    <2>1. UNCHANGED <<imem, map, asid, g_smc_epoch, g_executed_pages, g_code_page_gen, gen, writable, cache,
                      g_arena_gen, memo, chain_key, chain_epoch, links, bc,
                      bc_generation, busy, missed, granular, unfenced>>
      BY <1>2, Zenon DEF smcVars, chainVars
    <2>2. CodeTypes'
      BY <1>4, <2>1, Zenon DEF CodeTypes
    <2>3. Counters
      BY <1>4, TypedCounters, Zenon
    <2>4. EpochMoves /\ GenMoves
      BY <2>1, <2>3, Still, Zenon DEF smcVars
    <2>5. BlocksMove
      BY <1>4, <2>1, BlocksHeld, Zenon DEF CodeInv
    <2>6. MemosSound' /\ CacheSound' /\ LinksSound' /\ BlocksSound'
      BY <2>1, <2>2, <2>4, <2>5, Carried, Zenon DEF chainVars
    <2>7. BusySound'
      BY <1>4, <2>1, Zenon DEF BusySound, Key
    <2> QED BY <2>2, <2>6, <2>7, Zenon DEF CodeInv
  <1>9. Harmless'
    <2>1. /\ ("freed" \in entered') <=> (l.fn.agen # g_arena_gen')
          /\ ("stale" \in entered') <=> (l.fn.text # imem[l.fn.start])
          /\ ("missed" \in entered') <=> (l.fn.start \in missed)
          /\ ("moved" \in entered') <=> (l.fn.start # map[a][va])
          /\ ("granular" \in entered') <=> (<<a, va>> \in granular[h])
      BY <1>1, <1>3, FaultWords
    <2>2. busy' # None /\ g_arena_gen' = g_arena_gen
      BY <1>2, Zenon
    <2> QED BY <1>7, <2>1, <2>2, ZenonT(60) DEF Harmless, NoFreedCode, StaleExplained, MovedOnlyIfGranular, Placed, Live
  <1> QED BY <1>8, <1>9, Zenon

\* The chain returning to run_blocks.
LEMMA ExitStep ==
  ASSUME OneHart, CodeInv, Exit
  PROVE  CodeInv' /\ Harmless'
  <1>1. /\ busy' = None /\ entered' = {}
        /\ UNCHANGED <<imem, map, asid, g_smc_epoch, g_executed_pages, g_code_page_gen, gen, writable, cache,
                       g_arena_gen, memo, chain_key, chain_epoch, links, bc,
                       bc_generation, missed, granular, unfenced>>
    BY Zenon DEF Exit, smcVars, jitVars, chainVars
  <1>2. CodeTypes /\ BlocksSound
    BY Zenon DEF CodeInv
  <1>3. CodeTypes'
    BY <1>1, <1>2, Zenon DEF CodeTypes
  <1>4. Counters
    BY <1>2, TypedCounters, Zenon
  <1>5. EpochMoves /\ GenMoves
    BY <1>1, <1>4, Still, Zenon DEF smcVars
  <1>6. BlocksMove
    BY <1>1, <1>2, BlocksHeld, Zenon
  <1>7. MemosSound' /\ CacheSound' /\ LinksSound' /\ BlocksSound'
    BY <1>1, <1>3, <1>5, <1>6, Carried, Zenon DEF chainVars
  <1>8. BusySound'
    BY <1>1, Zenon DEF BusySound, OneHart
  <1> QED BY <1>1, <1>3, <1>7, <1>8, Quiet, Zenon DEF CodeInv

------------------------------------------------------------------------------

(* Stores, remappings and fences. *)

\* Whoever writes the text, the interpreter's blocks of that start become unfenced.
LEMMA TextStored ==
  ASSUME CodeTypes, NEW s \in Starts, NEW t, imem' = [imem EXCEPT ![s] = t],
         unfenced' = unfenced \cup {s}, UNCHANGED <<bc, bc_generation>>
  PROVE  BlocksMove
  <1>1. \A x \in Starts : x = s \/ imem'[x] = imem[x]
    BY Zenon DEF CodeTypes
  <1>2. ASSUME NEW d \in MemoEntries, d.phys \in Starts, Formed(d) PROVE Formed(d)'
    <2>1. CASE d.phys = s
      BY <2>1, Zenon DEF Formed
    <2>2. CASE d.phys # s
      BY <1>1, <1>2, <2>2, Zenon DEF Formed
    <2> QED BY <2>1, <2>2, Zenon
  <1>3. ASSUME NEW b \in Blocks, BlockSound(b) PROVE BlockSound(b)'
    <2>1. b.start \in Starts
      BY Fields, Zenon
    <2>2. CASE b.start = s
      BY <1>3, <2>2, Zenon DEF BlockSound
    <2>3. CASE b.start # s
      BY <1>1, <1>3, <2>1, <2>3, Zenon DEF BlockSound
    <2> QED BY <2>2, <2>3, Zenon
  <1> QED BY <1>2, <1>3, Zenon DEF BlocksMove

\* A compiled store that hits the TLB: the start it writes is missed from now on.
LEMMA InlineStoreStep ==
  ASSUME OneHart, CodeInv, NEW s \in Starts, NEW t \in Texts, InlineStore(s, t)
  PROVE  CodeInv' /\ Harmless'
  <1>1. /\ imem' = [imem EXCEPT ![s] = t] /\ missed' = missed \cup {s} /\ unfenced' = unfenced \cup {s}
        /\ entered' = {}
        /\ UNCHANGED <<map, asid, g_smc_epoch, g_executed_pages, g_code_page_gen, gen, writable, cache,
                       g_arena_gen, memo, chain_key, chain_epoch, links, bc, bc_generation, busy, granular>>
    BY Zenon DEF InlineStore, smcVars, jitVars, chainVars
  <1>2. CodeTypes /\ BusySound /\ Counters
    BY TypedCounters, Zenon DEF CodeInv
  <1>3. imem' \in [Starts -> Texts] /\ \A x \in Starts : x = s \/ imem'[x] = imem[x]
    BY <1>1, <1>2, Zenon DEF CodeTypes
  <1>4. CodeTypes'
    BY <1>1, <1>2, <1>3, Zenon DEF CodeTypes
  <1>5. EpochMoves
    <2>1. ASSUME NEW fn \in Codes, Live(fn) PROVE Live(fn)'
      <3>1. fn.start \in Starts
        BY Fields, ZenonT(60)
      <3> QED BY <1>1, <1>3, <2>1, <3>1, Zenon DEF Live
    <2> QED BY <1>1, <2>1, Zenon DEF EpochMoves
  <1>6. GenMoves
    BY <1>1, <1>2 DEF GenMoves, Placed, Counters
  <1>7. BlocksMove
    BY <1>1, <1>2, TextStored, Zenon
  <1>8. MemosSound' /\ CacheSound' /\ LinksSound' /\ BlocksSound'
    BY <1>1, <1>4, <1>5, <1>6, <1>7, Carried, Zenon DEF chainVars
  <1>9. BusySound'
    BY <1>1, <1>2, Zenon DEF BusySound, Key
  <1> QED BY <1>1, <1>4, <1>8, <1>9, Quiet, Zenon DEF CodeInv

\* A store through the bus moves the epoch on, or hits a page that hosts no live code.
LEMMA StoreStep ==
  ASSUME OneHart, CodeInv, NEW h \in Harts, NEW s \in Starts, NEW t \in Texts, Store(h, s, t)
  PROVE  CodeInv' /\ Harmless'
  <1>1. PICK p : p = PageOf[s]
    BY Zenon
  <1>2. /\ busy = None /\ imem' = [imem EXCEPT ![s] = t] /\ unfenced' = unfenced \cup {s} /\ entered' = {}
        /\ writable' = [writable EXCEPT ![h] = IF p \in g_executed_pages THEN @ ELSE @ \cup {p}]
        /\ UNCHANGED <<map, asid, g_code_page_gen, gen, cache, g_arena_gen, memo, chain_key, chain_epoch,
                       links, bc, bc_generation, busy, granular>>
    BY <1>1, Zenon DEF Store, jitVars, chainVars
  <1>3. \/ g_smc_epoch' = g_smc_epoch + 1 /\ g_executed_pages' = g_executed_pages
        \/ /\ ~(p \in g_executed_pages /\ g_code_page_gen[p] = g_smc_epoch)
           /\ g_executed_pages' = g_executed_pages \ {p} /\ g_smc_epoch' = g_smc_epoch /\ missed' = missed
    BY <1>1, Zenon DEF Store, Bump
  <1>4. CodeTypes /\ Counters /\ p \in Pages /\ g_smc_epoch \in Nat
    BY <1>1, TypedCounters, Zenon DEF CodeInv, OneHart, CodeTypes
  <1>5. imem' \in [Starts -> Texts] /\ \A x \in Starts : x = s \/ imem'[x] = imem[x]
    BY <1>2, <1>4, Zenon DEF CodeTypes
  <1>6. g_executed_pages' \subseteq Pages /\ g_smc_epoch' \in Nat
    BY <1>3, <1>4 DEF CodeTypes
  <1>7. writable' \in [Harts -> SUBSET Pages]
    <2>1. writable \in [Harts -> SUBSET Pages]
      BY <1>4, Zenon DEF CodeTypes
    <2>2. (IF p \in g_executed_pages THEN writable[h] ELSE writable[h] \cup {p}) \in SUBSET Pages
      BY <1>4, <2>1, Zenon
    <2> QED BY <1>2, <2>1, <2>2, Zenon
  <1>8. CodeTypes'
    BY <1>2, <1>4, <1>5, <1>6, <1>7, Zenon DEF CodeTypes
  <1>9. EpochMoves
    <2>1. CASE g_smc_epoch' = g_smc_epoch + 1
      BY <1>4, <2>1 DEF EpochMoves
    <2>2. g_smc_epoch # g_smc_epoch + 1
      BY <1>4
    <2>3. CASE g_smc_epoch' = g_smc_epoch
      <3>1. /\ ~(p \in g_executed_pages /\ g_code_page_gen[p] = g_smc_epoch)
            /\ g_executed_pages' = g_executed_pages \ {p} /\ missed' = missed
        BY <1>3, <2>3, <2>2, Zenon
      <3>2. ASSUME NEW fn \in Codes, Live(fn) PROVE Live(fn)'
        <4>1. fn.start \in Starts
          BY Fields, Zenon
        <4>2. PageOf[fn.start] # p
          BY <3>1, <3>2, Zenon DEF Live
        <4> QED BY <1>1, <1>2, <1>5, <2>3, <3>1, <3>2, <4>1, <4>2, Zenon DEF Live
      <3> QED BY <2>3, <3>2, Zenon DEF EpochMoves
    <2> QED BY <1>3, <2>1, <2>3, Zenon
  <1>10. GenMoves
    BY <1>2, <1>4 DEF GenMoves, Placed, Counters
  <1>11. BlocksMove
    BY <1>2, <1>4, TextStored, Zenon
  <1>12. MemosSound' /\ CacheSound' /\ LinksSound' /\ BlocksSound'
    BY <1>2, <1>8, <1>9, <1>10, <1>11, Carried, Zenon DEF chainVars
  <1>13. BusySound'
    BY <1>2, Zenon DEF BusySound, OneHart
  <1> QED BY <1>2, <1>8, <1>12, <1>13, Quiet, Zenon DEF CodeInv

\* A remapped address is fenced with all others, and no key of before is met again, or
\* alone, and is from then on one that was.
LEMMA RemapStep ==
  ASSUME OneHart, CodeInv, NEW h \in Harts, NEW va \in Vas, NEW s \in Starts,
         RemapAll(h, va, s) \/ RemapOne(h, va, s)
  PROVE  CodeInv' /\ Harmless'
  <1>1. PICK a : a = asid[h]
    BY Zenon
  <1>2. /\ busy = None /\ entered' = {} /\ map' = [map EXCEPT ![a][va] = s]
        /\ UNCHANGED <<imem, asid, g_executed_pages, g_code_page_gen, cache, g_arena_gen, memo, chain_key, chain_epoch,
                       links, bc, bc_generation, busy, unfenced>>
    BY <1>1, Zenon DEF RemapAll, RemapOne, smcVars, jitVars, chainVars
  <1>3. CodeTypes /\ Counters /\ BlocksSound /\ a \in Asids
    BY <1>1, TypedCounters, Zenon DEF CodeInv, CodeTypes
  <1>4. /\ map' \in [Asids -> [Vas -> Starts]]
        /\ \A b \in Asids, v \in Vas : <<b, v>> = <<a, va>> \/ map'[b][v] = map[b][v]
    <2>1. map \in [Asids -> [Vas -> Starts]]
      BY <1>3, Zenon DEF CodeTypes
    <2> QED BY <1>2, <1>3, <2>1, Zenon
  <1>5. /\ g_smc_epoch' \in Nat /\ gen' \in [Harts -> Nat] /\ writable' \in [Harts -> SUBSET Pages]
        /\ granular' \in [Harts -> SUBSET (Asids \X Vas)] /\ EpochMoves /\ GenMoves
    <2>1. /\ g_smc_epoch \in Nat /\ gen \in [Harts -> Nat] /\ writable \in [Harts -> SUBSET Pages]
          /\ granular \in [Harts -> SUBSET (Asids \X Vas)]
      BY <1>3, Zenon DEF CodeTypes
    <2>2. CASE RemapAll(h, va, s)
      <3>1. /\ gen' = [gen EXCEPT ![h] = @ + 1] /\ writable' = [writable EXCEPT ![h] = {}]
            /\ granular' = [granular EXCEPT ![h] = {}] /\ g_smc_epoch' = g_smc_epoch + 1
        BY <2>2, Zenon DEF RemapAll, Bump
      <3>2. g_smc_epoch' > g_smc_epoch /\ \A g \in Harts : gen'[g] >= gen[g]
        BY <2>1, <3>1
      <3>3. EpochMoves
        BY <3>2, Zenon DEF EpochMoves
      <3>4. GenMoves
        BY <2>1, <3>2 DEF GenMoves
      <3> QED BY <2>1, <3>1, <3>3, <3>4
    <2>3. CASE RemapOne(h, va, s)
      <3>1. /\ granular' = [granular EXCEPT ![h] = @ \cup {<<a, va>>}]
            /\ UNCHANGED <<g_smc_epoch, gen, writable, missed>>
        BY <1>1, <2>3, ZenonT(60) DEF RemapOne, smcVars
      <3>2. /\ granular' \in [Harts -> SUBSET (Asids \X Vas)]
            /\ \A g \in Harts : granular[g] \subseteq granular'[g] /\ <<a, va>> \in granular'[g]
        BY <1>3, <2>1, <3>1 DEF OneHart
      <3>3. \A g \in Harts, start \in Starts, b \in Asids, v \in Vas :
              Placed(g, start, b, v) => Placed(g, start, b, v)'
        BY <1>4, <3>2, Zenon DEF Placed
      <3>4. GenMoves
        BY <2>1, <3>1, <3>3 DEF GenMoves
      <3>5. EpochMoves
        BY <1>2, <3>1, Zenon DEF EpochMoves, Live
      <3> QED BY <2>1, <3>1, <3>2, <3>4, <3>5, Zenon
    <2> QED BY <2>2, <2>3, Zenon
  <1>6. CodeTypes'
    BY <1>2, <1>3, <1>4, <1>5, Zenon DEF CodeTypes
  <1>7. BlocksMove
    BY <1>2, <1>3, BlocksHeld, Zenon
  <1>8. MemosSound' /\ CacheSound' /\ LinksSound' /\ BlocksSound'
    BY <1>2, <1>5, <1>6, <1>7, Carried, Zenon DEF chainVars
  <1>9. BusySound'
    BY <1>2, Zenon DEF BusySound, OneHart
  <1> QED BY <1>2, <1>6, <1>8, <1>9, Quiet, Zenon DEF CodeInv

\* FENCE.I leaves every block of before to another generation; a write of satp leaves every
\* key to another address space.
LEMMA FenceStep ==
  ASSUME OneHart, CodeInv, NEW h \in Harts, NEW a \in Asids, FENCE_I(h) \/ WriteSatp(h, a)
  PROVE  CodeInv' /\ Harmless'
  <1>1. /\ busy = None /\ entered' = {}
        /\ UNCHANGED <<imem, map, g_smc_epoch, g_executed_pages, g_code_page_gen, gen, writable, cache,
                       g_arena_gen, memo, chain_key, chain_epoch, links, bc, busy, missed, granular>>
    BY Zenon DEF FENCE_I, WriteSatp, smcVars, jitVars, chainVars
  <1>2. \/ bc_generation' = bc_generation + 1 /\ asid' = asid
        \/ bc_generation' = bc_generation /\ unfenced' = unfenced /\ asid' = [asid EXCEPT ![h] = a]
    BY Zenon DEF FENCE_I, WriteSatp
  <1>3. CodeTypes /\ Counters /\ BlocksSound
    BY TypedCounters, Zenon DEF CodeInv
  <1>4. bc_generation' \in Nat \ {0} /\ asid' \in [Harts -> Asids]
    <2>1. bc_generation \in Nat \ {0} /\ asid \in [Harts -> Asids]
      BY <1>3, Zenon DEF CodeTypes
    <2> QED BY <1>2, <2>1
  <1>5. CodeTypes'
    BY <1>1, <1>3, <1>4, Zenon DEF CodeTypes
  <1>6. EpochMoves /\ GenMoves
    BY <1>1, <1>3, Still, Zenon DEF smcVars
  <1>7. BlocksMove
    <2>1. CASE bc_generation' = bc_generation + 1
      BY <1>3, <2>1 DEF BlocksMove, Counters
    <2>2. CASE bc_generation' = bc_generation /\ unfenced' = unfenced
      BY <1>1, <1>3, <2>2, BlocksHeld, Zenon
    <2> QED BY <1>2, <2>1, <2>2, Zenon
  <1>8. MemosSound' /\ CacheSound' /\ LinksSound' /\ BlocksSound'
    BY <1>1, <1>5, <1>6, <1>7, Carried, Zenon DEF chainVars
  <1>9. BusySound'
    BY <1>1, Zenon DEF BusySound, OneHart
  <1> QED BY <1>1, <1>5, <1>8, <1>9, Quiet, Zenon DEF CodeInv

------------------------------------------------------------------------------
(* The interpreter. *)

\* A slot is given the block of s, or is named for s without one: neither spoils what the
\* memo knows of the other starts of the slot, nor of s.
LEMMA SlotFilled ==
  ASSUME CodeTypes, BlocksSound, NEW s \in Starts, UNCHANGED <<imem, unfenced, bc_generation>>,
         NEW x \in Slots, NEW b \in Blocks, b.start = s, bc' = [bc EXCEPT ![x] = b],
         \/ b.gen = bc_generation /\ b.text = imem[s] /\ imem[s] \in BlockTexts
         \/ b.gen = 0 /\ imem[s] \notin BlockTexts
  PROVE  bc' \in [Slots -> Blocks \cup {None}] /\ bc'[x] = b /\ BlocksMove /\ BlocksSound'
  <1>1. bc \in [Slots -> Blocks \cup {None}] /\ bc_generation \in Nat \ {0}
    BY Zenon DEF CodeTypes
  <1>2. /\ bc' \in [Slots -> Blocks \cup {None}] /\ bc'[x] = b
        /\ \A y \in Slots : y = x \/ bc'[y] = bc[y]
    BY <1>1, ZenonT(60)
  <1>3. BlockSound(b)'
    BY <1>1 DEF BlockSound
  <1>4. ASSUME NEW y \in Slots, bc'[y] # None PROVE BlockSound(bc[y])'
    <2>1. CASE y = x
      BY <1>2, <1>3, <2>1, Zenon DEF BlockSound
    <2>2. CASE y # x
      BY <1>2, <1>4, <2>2, Zenon DEF BlocksSound, BlockSound
    <2> QED BY <2>1, <2>2, Zenon
  <1>5. ASSUME NEW d \in MemoEntries, d.block # None, d.phys \in Starts, Formed(d) PROVE Formed(d)'
    <2>1. d.block \in Slots
      BY <1>5, Fields, Zenon
    <2>2. CASE d.phys \in unfenced
      BY <2>2, Zenon DEF Formed
    <2>3. CASE d.phys \notin unfenced /\ d.block = x
      BY <1>2, <1>5, <2>3, Zenon DEF Formed
    <2>4. CASE d.phys \notin unfenced /\ d.block # x
      BY <1>2, <1>5, <2>1, <2>4, Zenon DEF Formed
    <2> QED BY <2>2, <2>3, <2>4, Zenon
  <1>6. \A c \in Blocks : BlockSound(c) => BlockSound(c)'
    BY Zenon DEF BlockSound
  <1> QED BY <1>2, <1>4, <1>5, <1>6, Zenon DEF BlocksMove, BlocksSound

\* Running the block of a slot that is named for the interpreted start.
LEMMA RunStep ==
  ASSUME NEW h \in Harts, NEW va \in Vas, NEW a, a = asid[h], NEW s, NEW b, NEW x,
         bc'[x] = b, b.start = s, b.text = imem[s] \/ s \in unfenced,
         Placed(h, s, a, va), g_arena_gen' = g_arena_gen, RunBlock(h, va, x)
  PROVE  busy' = None /\ Harmless'
  <1>1. busy' = None /\ entered' = Faults(h, va, s, b.text, g_arena_gen, None, None)
    BY Zenon DEF RunBlock
  <1>2. /\ ("freed" \in entered') <=> (g_arena_gen # g_arena_gen')
        /\ ("stale" \in entered') <=> (b.text # imem[s])
        /\ ("unfenced" \in entered') <=> (s \in unfenced)
        /\ ("moved" \in entered') <=> (s # map[a][va])
        /\ ("granular" \in entered') <=> (<<a, va>> \in granular[h])
    BY <1>1, FaultWords, Zenon
  <1> QED BY <1>1, <1>2, Zenon DEF Harmless, NoFreedCode, StaleExplained, MovedOnlyIfGranular, Placed

\* What the interpreter leaves alone in every case.
InterpretSame ==
  UNCHANGED <<imem, map, asid, g_smc_epoch, g_code_page_gen, cache, chain_key, chain_epoch, links,
              bc_generation, missed, unfenced, g_arena_gen>>

\* Back from the interpreter, with the tables sound.
LEMMA Interpreted ==
  ASSUME OneHart, CodeInv, InterpretSame, busy' = None,
         g_executed_pages \subseteq g_executed_pages', g_executed_pages' \subseteq Pages,
         gen' \in [Harts -> Nat], writable' \in [Harts -> SUBSET Pages],
         granular' \in [Harts -> SUBSET (Asids \X Vas)], GenMoves,
         bc' \in [Slots -> Blocks \cup {None}], BlocksMove, BlocksSound',
         \/ memo' = memo
         \/ \E h \in Harts, w \in MemoIndices, d \in MemoEntries : MemoSound(h, d)' /\ Remember(h, w, d)
  PROVE  CodeInv'
  <1>1. CodeTypes /\ MemosSound /\ CacheSound /\ LinksSound /\ Counters
    BY TypedCounters, Zenon DEF CodeInv
  <1>2. EpochMoves
    <2>1. \A fn \in Codes : Live(fn) => Live(fn)'
      BY Zenon DEF Live, InterpretSame
    <2> QED BY <2>1, Zenon DEF EpochMoves, InterpretSame
  <1>3. Counters'
    BY <1>1, Zenon DEF Counters, InterpretSame
  <1>4. memo' \in [Harts -> [MemoIndices -> MemoEntries \cup {None}]] /\ MemosSound'
    <2>1. CASE memo' = memo
      <3>1. MemosSound'
        BY <1>1, <1>2, <1>3, <2>1, MemoUnwritten, Zenon
      <3> QED BY <1>1, <2>1, <3>1, Zenon DEF CodeTypes
    <2>2. CASE \E h \in Harts, w \in MemoIndices, d \in MemoEntries : MemoSound(h, d)' /\ Remember(h, w, d)
      BY <1>1, <1>2, <1>3, <2>2, MemoWritten, Zenon
    <2> QED BY <2>1, <2>2, Zenon
  <1>5. CacheSound' /\ LinksSound'
    BY <1>1, <1>2, <1>3, CacheUntouched, LinksUntouched, Zenon DEF InterpretSame
  <1>6. CodeTypes'
    BY <1>1, <1>4, Zenon DEF CodeTypes, InterpretSame
  <1>7. BusySound'
    BY Zenon DEF BusySound, OneHart
  <1> QED BY <1>4, <1>5, <1>6, <1>7, Zenon DEF CodeInv

\* The memo way given a block of the generation: its start is the one interpreted.
LEMMA BlockRemembered ==
  ASSUME CodeInv, Counters', EpochMoves, GenMoves, BlocksMove, UNCHANGED <<imem, unfenced, bc_generation>>,
         NEW h \in Harts, NEW d \in MemoEntries, MemoSound(h, d), d.interp, NEW s \in Starts, d.phys = s,
         NEW x \in Slots, NEW b, bc'[x] = b, b.gen = bc_generation,
         imem[s] \in BlockTexts \/ s \in unfenced,
         NEW f, f = [d EXCEPT !.block = x, !.block_gen = bc_generation]
  PROVE  f \in MemoEntries /\ MemoSound(h, f)'
  <1>1. MemoSound(h, d)'
    BY MemoKept, TypedCounters, Zenon DEF CodeInv
  <1>2. bc_generation \in Nat
    BY Zenon DEF CodeInv, CodeTypes
  <1>3. /\ f \in MemoEntries /\ f.key = d.key /\ f.phys = s /\ f.fn = d.fn /\ f.interp = d.interp
        /\ f.block = x /\ f.block_gen = bc_generation
    BY <1>2, Zenon DEF MemoEntries
  <1>4. Formed(f)'
    BY <1>3 DEF Formed
  <1> QED BY <1>1, <1>2, <1>3, <1>4 DEF MemoSound

\* run_blocks below the JIT: the block run is the one of its start, current unless the guest
\* owes a FENCE.I.
LEMMA InterpretStep ==
  ASSUME OneHart, CodeInv, InterpretBlock
  PROVE  CodeInv' /\ Harmless'
  <1>1. PICK h, s, w, va : h = busy.hart /\ s = busy.start /\ w = busy.way /\ va = busy.va
    BY Zenon
  <1>2. PICK d, a, new : d = memo[h][w] /\ a = asid[h] /\ new = CompileSlot[s]
    BY Zenon
  <1>3. CodeTypes /\ MemosSound /\ BlocksSound /\ BusySound /\ Counters
    BY TypedCounters, Zenon DEF CodeInv
  <1>4. busy \in InInterpreter /\ h \in Harts /\ w \in MemoIndices /\ va \in Vas /\ s \in Starts
    <2>1. busy \in InChain \cup InInterpreter /\ busy.at = "interpret"
      BY <1>3, Zenon DEF CodeTypes, InterpretBlock
    <2> QED BY <1>1, <2>1, Places, Zenon
  <1>5. d \in MemoEntries /\ d.interp /\ d.phys = s /\ d.key = Key(h, va)
    BY <1>1, <1>2, <1>3, <1>4, Zenon DEF BusySound
  <1>6. MemoSound(h, d)
    BY <1>2, <1>3, <1>4, <1>5, ZenonT(60) DEF MemosSound, OneHart
  <1>7. Placed(h, s, a, va)
    BY <1>2, <1>5, <1>6 DEF MemoSound, Key
  <1>8. new \in Slots /\ LookupSlot[s] \in Slots /\ PageOf[s] \in Pages
    BY <1>2, <1>4, Zenon DEF Slots, OneHart
  <1>9. UNCHANGED <<imem, map, asid, g_smc_epoch, g_code_page_gen, cache, chain_key, chain_epoch, links,
                    bc_generation, missed, unfenced>>
    BY Zenon DEF InterpretBlock, chainVars
  <1>10. \/ /\ MemoBlock(h, w, s)
            /\ UNCHANGED <<bc, memo, g_executed_pages, gen, writable, granular, g_arena_gen>>
            /\ RunBlock(h, va, d.block)
         \/ /\ bc_lookup(s)
            /\ Remember(h, w, [d EXCEPT !.block = LookupSlot[s], !.block_gen = bc_generation])
            /\ UNCHANGED <<bc, g_executed_pages, gen, writable, granular, g_arena_gen>>
            /\ RunBlock(h, va, LookupSlot[s])
         \/ /\ imem[s] \in BlockTexts
            /\ bc' = [bc EXCEPT ![new] = [start |-> s, text |-> imem[s], gen |-> bc_generation,
                                          smc |-> g_smc_epoch]]
            /\ g_executed_pages' = g_executed_pages \cup {PageOf[s]}
            /\ note_exec(h, PageOf[s])
            /\ Remember(h, w, [d EXCEPT !.block = new, !.block_gen = bc_generation])
            /\ UNCHANGED g_arena_gen
            /\ RunBlock(h, va, new)
         \/ /\ imem[s] \notin BlockTexts
            /\ bc' = IF bc[new] = None THEN bc ELSE [bc EXCEPT ![new].start = s, ![new].gen = 0]
            /\ busy' = None /\ entered' = {}
            /\ UNCHANGED <<memo, g_executed_pages, gen, writable, granular, g_arena_gen>>
    BY <1>1, <1>2, Zenon DEF InterpretBlock
  <1>11. InterpretSame
    BY <1>9, <1>10, Zenon DEF InterpretSame
  <1>12. /\ g_executed_pages \subseteq Pages /\ gen \in [Harts -> Nat] /\ writable \in [Harts -> SUBSET Pages]
         /\ granular \in [Harts -> SUBSET (Asids \X Vas)] /\ bc \in [Slots -> Blocks \cup {None}]
         /\ bc_generation \in Nat \ {0} /\ g_smc_epoch \in Nat /\ imem[s] \in Texts
    BY <1>3, <1>4, Zenon DEF CodeTypes
  <1>13. Counters' <=> gen' \in [Harts -> Nat]
    BY <1>3, <1>9, Zenon DEF Counters
  <1>14. g_executed_pages \subseteq g_executed_pages' => EpochMoves
    <2>1. g_executed_pages \subseteq g_executed_pages' => \A fn \in Codes : Live(fn) => Live(fn)'
      BY <1>11, Zenon DEF Live, InterpretSame
    <2> QED BY <1>9, <2>1, Zenon DEF EpochMoves
  <1>15. UNCHANGED <<gen, granular>> => GenMoves
    BY <1>9, <1>12 DEF GenMoves, Placed
  <1>16. bc' = bc => BlocksMove /\ BlocksSound'
    BY <1>3, <1>9, BlocksHeld, Zenon
  <1>17. CASE /\ MemoBlock(h, w, s)
              /\ UNCHANGED <<bc, memo, g_executed_pages, gen, writable, granular, g_arena_gen>>
              /\ RunBlock(h, va, d.block)
    <2>1. PICK b : b = bc[d.block]
      BY Zenon
    <2>2. d.block # None /\ d.block_gen = bc_generation /\ b # None /\ b.start = s
      BY <1>2, <1>17, <2>1, Zenon DEF MemoBlock
    <2>3. d.block \in Slots
      BY <1>5, <2>2, Fields, Zenon
    <2>4. BlockSound(b)
      BY <1>3, <2>1, <2>2, <2>3, Zenon DEF BlocksSound
    <2>5. Formed(d)
      BY <1>6, <2>2, Zenon DEF MemoSound
    <2>6. b.text = imem[s] \/ s \in unfenced
      BY <1>5, <2>1, <2>2, <2>4, <2>5, Zenon DEF Formed, BlockSound
    <2>7. busy' = None /\ Harmless'
      BY <1>2, <1>4, <1>7, <1>17, <2>1, <2>2, <2>6, RunStep, Zenon
    <2> QED BY <1>11, <1>12, <1>15, <1>16, <1>17, <2>7, Interpreted, Zenon
  <1>18. CASE /\ bc_lookup(s)
              /\ Remember(h, w, [d EXCEPT !.block = LookupSlot[s], !.block_gen = bc_generation])
              /\ UNCHANGED <<bc, g_executed_pages, gen, writable, granular, g_arena_gen>>
              /\ RunBlock(h, va, LookupSlot[s])
    <2>1. PICK b, x, f : /\ x = LookupSlot[s] /\ b = bc[x]
                         /\ f = [d EXCEPT !.block = x, !.block_gen = bc_generation]
      BY Zenon
    <2>2. b # None /\ b.start = s /\ b.gen = bc_generation /\ bc'[x] = b /\ x \in Slots
      BY <1>8, <1>18, <2>1, Zenon DEF bc_lookup
    <2>3. BlockSound(b)
      BY <1>3, <2>1, <2>2, Zenon DEF BlocksSound
    <2>4. /\ b.text = imem[s] \/ s \in unfenced
          /\ imem[s] \in BlockTexts \/ s \in unfenced
      BY <2>2, <2>3, Zenon DEF BlockSound
    <2>5. busy' = None /\ Harmless'
      BY <1>2, <1>4, <1>7, <1>18, <2>1, <2>2, <2>4, RunStep, Zenon
    <2>6. EpochMoves /\ GenMoves /\ BlocksMove /\ BlocksSound' /\ Counters'
      BY <1>12, <1>13, <1>14, <1>15, <1>16, <1>18, Zenon
    <2>7. f \in MemoEntries /\ MemoSound(h, f)'
      BY <1>4, <1>5, <1>6, <1>9, <2>1, <2>2, <2>4, <2>6, BlockRemembered, ZenonT(60)
    <2>8. Remember(h, w, f)
      BY <1>18, <2>1, Zenon
    <2> QED BY <1>4, <1>11, <1>12, <1>18, <2>5, <2>6, <2>7, <2>8, Interpreted, Zenon
  <1>19. CASE /\ imem[s] \in BlockTexts
              /\ bc' = [bc EXCEPT ![new] = [start |-> s, text |-> imem[s], gen |-> bc_generation,
                                            smc |-> g_smc_epoch]]
              /\ g_executed_pages' = g_executed_pages \cup {PageOf[s]}
              /\ note_exec(h, PageOf[s])
              /\ Remember(h, w, [d EXCEPT !.block = new, !.block_gen = bc_generation])
              /\ UNCHANGED g_arena_gen
              /\ RunBlock(h, va, new)
    <2>1. PICK b, f : /\ b = [start |-> s, text |-> imem[s], gen |-> bc_generation, smc |-> g_smc_epoch]
                      /\ f = [d EXCEPT !.block = new, !.block_gen = bc_generation]
      BY Zenon
    <2>2. b \in Blocks /\ b.start = s /\ b.text = imem[s] /\ b.gen = bc_generation
      BY <1>4, <1>12, <2>1, Zenon DEF Blocks
    <2>3. bc' = [bc EXCEPT ![new] = b]
      BY <1>19, <2>1, Zenon
    <2>4. bc' \in [Slots -> Blocks \cup {None}] /\ bc'[new] = b /\ BlocksMove /\ BlocksSound'
      BY <1>3, <1>4, <1>8, <1>9, <1>19, <2>2, <2>3, SlotFilled, Zenon
    <2>5. busy' = None /\ Harmless'
      BY <1>2, <1>4, <1>7, <1>19, <2>2, <2>4, RunStep, Zenon
    <2>6. /\ gen' \in [Harts -> Nat] /\ writable' \in [Harts -> SUBSET Pages]
          /\ granular' \in [Harts -> SUBSET (Asids \X Vas)] /\ GenMoves
      BY <1>3, <1>4, <1>9, <1>19, NoteExec, Zenon
    <2>7. g_executed_pages \subseteq g_executed_pages' /\ g_executed_pages' \subseteq Pages
      BY <1>8, <1>12, <1>19, Zenon
    <2>8. EpochMoves /\ Counters'
      BY <1>13, <1>14, <2>6, <2>7, Zenon
    <2>9. f \in MemoEntries /\ MemoSound(h, f)'
      <3>1. imem[s] \in BlockTexts /\ new \in Slots
        BY <1>8, <1>19, Zenon
      <3>2. bc'[new] = b /\ b.gen = bc_generation /\ f = [d EXCEPT !.block = new, !.block_gen = bc_generation]
        BY <2>1, <2>2, <2>4, Zenon
      <3>3. EpochMoves /\ GenMoves /\ BlocksMove /\ Counters'
        BY <2>4, <2>6, <2>8, Zenon
      <3> QED BY <1>4, <1>5, <1>6, <1>9, <3>1, <3>2, <3>3, BlockRemembered, ZenonT(60)
    <2>10. Remember(h, w, f)
      BY <1>19, <2>1, Zenon
    <2> QED BY <1>4, <1>11, <2>4, <2>5, <2>6, <2>7, <2>9, <2>10, Interpreted, Zenon
  <1>20. CASE /\ imem[s] \notin BlockTexts
              /\ bc' = IF bc[new] = None THEN bc ELSE [bc EXCEPT ![new].start = s, ![new].gen = 0]
              /\ busy' = None /\ entered' = {}
              /\ UNCHANGED <<memo, g_executed_pages, gen, writable, granular, g_arena_gen>>
    <2>1. bc' \in [Slots -> Blocks \cup {None}] /\ BlocksMove /\ BlocksSound'
      <3>1. CASE bc[new] = None
        BY <1>12, <1>16, <1>20, <3>1, Zenon
      <3>2. CASE bc[new] # None
        <4>1. PICK b : b = [bc[new] EXCEPT !.start = s, !.gen = 0]
          BY Zenon
        <4>2. bc[new] \in Blocks
          BY <1>8, <1>12, <3>2, Zenon
        <4>3. b \in Blocks /\ b.start = s /\ b.gen = 0
          BY <1>4, <4>1, <4>2, Zenon DEF Blocks
        <4>4. bc' = [bc EXCEPT ![new] = b]
          BY <1>8, <1>12, <1>20, <3>2, <4>1, Zenon
        <4> QED BY <1>3, <1>4, <1>8, <1>9, <1>20, <4>3, <4>4, SlotFilled, Zenon
      <3> QED BY <3>1, <3>2, Zenon
    <2> QED BY <1>11, <1>12, <1>15, <1>20, <2>1, Interpreted, Quiet, Zenon
  <1> QED BY <1>10, <1>17, <1>18, <1>19, <1>20, Zenon

------------------------------------------------------------------------------
(* The theorems. *)

\* The code caches start empty.
LEMMA InitSound == OneHart /\ CodeInit => CodeInv /\ Harmless
  <1> SUFFICES ASSUME OneHart, CodeInit PROVE CodeInv /\ Harmless
    BY Zenon
  <1>1. CodeTypes
    <2>1. JitTexts \subseteq Texts
      BY Zenon DEF Texts
    <2>2. imem \in [Starts -> Texts] /\ map \in [Asids -> [Vas -> Starts]] /\ asid \in [Harts -> Asids]
      BY <2>1, Zenon DEF CodeInit, OneHart
    <2>3. /\ cache \in [CacheIndices -> CacheEntries \cup {None}]
          /\ memo \in [Harts -> [MemoIndices -> MemoEntries \cup {None}]]
          /\ bc \in [Slots -> Blocks \cup {None}]
      BY Zenon DEF CodeInit, CacheIndices, MemoIndices, Slots
    <2>4. /\ g_smc_epoch \in Nat /\ g_executed_pages \subseteq Pages /\ g_code_page_gen \in [Pages -> Nat]
          /\ gen \in [Harts -> Nat] /\ writable \in [Harts -> SUBSET Pages]
          /\ granular \in [Harts -> SUBSET (Asids \X Vas)] /\ g_arena_gen \in Nat
          /\ chain_key \in [Harts -> ChainKeys \cup {None}] /\ chain_epoch \in [Harts -> Nat]
          /\ links \subseteq LinkEntries /\ bc_generation \in Nat \ {0} /\ busy = None
      BY DEF CodeInit
    <2> QED BY <2>2, <2>3, <2>4, Zenon DEF CodeTypes
  <1>2. MemosSound /\ CacheSound /\ BlocksSound
    BY Zenon DEF CodeInit, MemosSound, CacheSound, BlocksSound, MemoIndices, CacheIndices, Slots
  <1>3. LinksSound
    <2>1. links = {} /\ \A h \in Harts : chain_key[h] = None
      BY Zenon DEF CodeInit
    <2> QED BY <2>1, Zenon DEF LinksSound, KeySound, OneHart
  <1>4. BusySound
    BY Zenon DEF CodeInit, BusySound, OneHart
  <1>5. Harmless
    BY Zenon DEF CodeInit, Harmless, NoFreedCode, StaleExplained, MovedOnlyIfGranular
  <1> QED BY <1>1, <1>2, <1>3, <1>4, <1>5, Zenon DEF CodeInv

\* Every step of the runner, of compiled code and of the guest keeps the invariant, and what
\* it enters is wrong in no way the three properties do not excuse.
LEMMA CodeStep == OneHart /\ CodeInv /\ Harmless /\ [CodeNext]_codeVars => CodeInv' /\ Harmless'
  <1> SUFFICES ASSUME OneHart, CodeInv, Harmless, [CodeNext]_codeVars PROVE CodeInv' /\ Harmless'
    BY Zenon
  <1>1. \A x \in Writes : x[1] \in Starts /\ x[2] \in Texts
    BY Zenon DEF OneHart, Texts
  <1>2. CASE \E h \in Harts, va \in Vas, m \in Modes : Dispatch(h, va, m)
    BY <1>2, DispatchStep, Zenon
  <1>3. CASE \E va \in Vas : ChainHop(va)
    BY <1>3, HopStep, Zenon
  <1>4. CASE \E x \in Writes : InlineStore(x[1], x[2])
    BY <1>1, <1>4, InlineStoreStep, Zenon
  <1>5. CASE Exit
    BY <1>5, ExitStep, Zenon
  <1>6. CASE InterpretBlock
    BY <1>6, InterpretStep, Zenon
  <1>7. CASE \E h \in Harts, x \in Writes : Store(h, x[1], x[2])
    BY <1>1, <1>7, StoreStep, Zenon
  <1>8. CASE \E h \in Harts, x \in Remaps : x[1] = asid[h] /\ (RemapAll(h, x[2], x[3]) \/ RemapOne(h, x[2], x[3]))
    BY <1>8, RemapStep, Zenon DEF OneHart
  <1>9. CASE \E h \in Harts : FENCE_I(h)
    <2>1. PICK h \in Harts : FENCE_I(h)
      BY <1>9, Zenon
    <2>2. asid[h] \in Asids
      BY Zenon DEF CodeInv, CodeTypes
    <2> QED BY <2>1, <2>2, FenceStep, Zenon
  <1>10. CASE \E h \in Harts, a \in Asids : WriteSatp(h, a)
    BY <1>10, FenceStep, Zenon
  <1>11. CASE UNCHANGED codeVars
    <2>1. UNCHANGED <<imem, map, asid, g_smc_epoch, g_executed_pages, g_code_page_gen, gen, writable, cache,
                      g_arena_gen, memo, chain_key, chain_epoch, links, bc,
                      bc_generation, busy, missed, granular, unfenced, entered>>
      BY <1>11, Zenon DEF codeVars
    <2>2. CodeTypes /\ Counters /\ BlocksSound
      BY TypedCounters, Zenon DEF CodeInv
    <2>3. CodeTypes'
      BY <2>1, <2>2, Zenon DEF CodeTypes
    <2>4. EpochMoves /\ GenMoves
      BY <2>1, <2>2, Still, Zenon DEF smcVars
    <2>5. BlocksMove
      BY <2>1, <2>2, BlocksHeld, Zenon
    <2>6. MemosSound' /\ CacheSound' /\ LinksSound' /\ BlocksSound'
      BY <2>1, <2>3, <2>4, <2>5, Carried, Zenon DEF chainVars
    <2>7. BusySound'
      BY <2>1, Zenon DEF CodeInv, BusySound, Key
    <2>8. Harmless'
      BY <2>1, Zenon DEF Harmless, NoFreedCode, StaleExplained, MovedOnlyIfGranular
    <2> QED BY <2>3, <2>6, <2>7, <2>8, Zenon DEF CodeInv
  <1> QED BY <1>2, <1>3, <1>4, <1>5, <1>6, <1>7, <1>8, <1>9, <1>10, <1>11, Zenon DEF CodeNext

\* The invariant and the three properties hold together in every reachable state.
LEMMA CodeAlways ==
  ASSUME OneHart
  PROVE  CodeSpec => [](CodeInv /\ Harmless)
  <1>1. CodeInit => CodeInv /\ Harmless
    BY InitSound, Zenon
  <1>2. CodeInv /\ Harmless /\ [CodeNext]_codeVars => CodeInv' /\ Harmless'
    BY CodeStep, Zenon
  <1> QED BY <1>1, <1>2, PTL DEF CodeSpec

\* With one hart, run_blocks never enters compiled code whose arena release_arenas gave back,
\* whichever of memo, cache, salvage or chain link led to it.
THEOREM CodeNeverFreed ==
  ASSUME OneHart
  PROVE  CodeSpec => []NoFreedCode
  <1>1. Harmless => NoFreedCode
    BY Zenon DEF Harmless
  <1> QED BY <1>1, CodeAlways, PTL

\* With one hart, code that differs from the guest's text is entered only after an inline store
\* through a writable TLB entry, or, for interpreter blocks, before the guest's FENCE.I.
THEOREM CodeStaleExplained ==
  ASSUME OneHart
  PROVE  CodeSpec => []StaleExplained
  <1>1. Harmless => StaleExplained
    BY Zenon DEF Harmless
  <1> QED BY <1>1, CodeAlways, PTL

\* With one hart, code of another physical start than the pc is mapped to is entered only
\* after an SFENCE.VMA of that address alone.
THEOREM CodeMovedOnlyIfGranular ==
  ASSUME OneHart
  PROVE  CodeSpec => []MovedOnlyIfGranular
  <1>1. Harmless => MovedOnlyIfGranular
    BY Zenon DEF Harmless
  <1> QED BY <1>1, CodeAlways, PTL
==============================================================================
