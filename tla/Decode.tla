------------------------------- MODULE Decode -------------------------------
(***************************************************************************)
(* The instruction decoder of src/decode.cpp and include/decode.hpp: the   *)
(* two hashed look-up tables built from the registered patterns, and the   *)
(* two-way decode cache in front of them.                                  *)
(***************************************************************************)
EXTENDS Integers, FiniteSetsExt, SequencesExt

CONSTANTS instructions, \* the registered patterns: Patterns!init_all_instrs
          Words,       \* the words fetched first, in an empty cache
          Few,         \* the words that may follow one another
          Pcs,         \* physical addresses, all of one cache set, none 0
          MaxGen       \* bound on cache_generation and on g_smc_epoch

VARIABLES ways, victim, cache_generation, smc_epoch,
          got          \* [word, inst]: the last word fetched and its instruction
decodeVars == <<ways, victim, cache_generation, smc_epoch, got>>

-----------------------------------------------------------------------------
\* Widths of the fields, and the fields HASH_MASK (32 bits: all but rs1 and
\* rd) and HASH_MASK_16 (16 bits: all) keep.
Width(n) == IF n = 6 THEN <<7, 5, 5, 3, 5, 7>> ELSE <<3, 1, 2, 3, 2, 3, 2>>
Hashed(n) == IF n = 6 THEN {1, 2, 4, 6} ELSE 1 .. 7

Fits(f, v) == (v % f.above) - (v % f.below) = f.match
Bits(f, width) == {b \in 0 .. width - 1 : f.below <= 2^b /\ 2^b < f.above}
popcount ==
    LET Fixed(p) == {<<k, b>> \in (DOMAIN p) \X (0 .. 6) : b \in Bits(p[k], Width(Len(p))[k])}
    IN  [i \in DOMAIN instructions |-> Cardinality(Fixed(instructions[i].fields))]

\* Every pattern fixes the last field: the instructions by length and opcode.
OfOpcode ==
    [n \in {6, 7}, op \in 0 .. 127 |->
        SelectSeq([i \in DOMAIN instructions |-> i],
                  LAMBDA i : Len(instructions[i].fields) = n /\ instructions[i].fields[n].match = op)]
Same(w) == OfOpcode[Len(w), w[Len(w)]]

\* The instructions build_lut offers for the word's hash: those that fit it on
\* the hashed fields, in the order they were registered.
Offered(w) ==
    SelectSeq(Same(w), LAMBDA i :
        \A k \in Hashed(Len(w)) : Fits(instructions[i].fields[k], w[k]))

\* build_lut: a later instruction replaces one with fewer fixed bits.
build_lut_last(w) == FoldLeft(LAMBDA best, i : i, 0, Offered(w))
build_lut(w) ==
    FoldLeft(LAMBDA best, i : IF best = 0 THEN i
                              ELSE IF popcount[i] > popcount[best] THEN i ELSE best,
             0, Offered(w))

Matches(i, w) ==
    \A k \in DOMAIN w : Fits(instructions[i].fields[k], w[k])

\* decode_inst_slow: 0 stands for the null instruction.
decode_inst_slow(w) ==
    LET d == build_lut(w) IN IF d # 0 /\ Matches(d, w) THEN d ELSE 0

-----------------------------------------------------------------------------
(* The decode cache: one set of two ways, pc = 0 marking a way that holds  *)
(* no instruction.                                                         *)
NoWord == <<>>
EmptyWay == [pc |-> 0, word |-> NoWord, inst |-> 0, gen |-> 0, smc |-> 0]

DecodeInit ==
    /\ ways = <<EmptyWay, EmptyWay>> /\ victim \in {1, 2}
    /\ cache_generation = 0 /\ smc_epoch = 0 /\ got = [word |-> NoWord, inst |-> 0]

Hit_any_word(w, pc, k) ==
    /\ ways[k].pc = pc /\ ways[k].gen = cache_generation /\ ways[k].smc = smc_epoch
Hit(w, pc, k) ==
    /\ ways[k].pc = pc /\ ways[k].word = w
    /\ ways[k].gen = cache_generation /\ ways[k].smc = smc_epoch

\* decode_inst, called by fetchInstruction with the word RAM holds now; a way
\* filled with an illegal word has pc 0 and keeps its old epoch.
decode_inst(w, pc) ==
    IF \E k \in {1, 2} : Hit(w, pc, k)
    THEN /\ got' = [word |-> w, inst |-> ways[IF Hit(w, pc, 1) THEN 1 ELSE 2].inst]
         /\ UNCHANGED <<ways, victim>>
    ELSE LET d == decode_inst_slow(w)
         IN  /\ got' = [word |-> w, inst |-> d]
             /\ ways' = [ways EXCEPT ![victim] =
                    IF d # 0 THEN [pc |-> pc, word |-> w, inst |-> d, gen |-> cache_generation, smc |-> smc_epoch]
                    ELSE [pc |-> 0, word |-> w, inst |-> 0, gen |-> 0, smc |-> @.smc]]
             /\ victim' = 3 - victim

\* clear_decode_cache (FENCE.I), and a store that bumps g_smc_epoch.
clear_decode_cache ==
    /\ cache_generation < MaxGen
    /\ cache_generation' = cache_generation + 1
    /\ UNCHANGED <<ways, victim, smc_epoch, got>>
bump_smc ==
    /\ smc_epoch < MaxGen
    /\ smc_epoch' = smc_epoch + 1
    /\ UNCHANGED <<ways, victim, cache_generation, got>>

\* Bound: all the words are decoded first, at one pc; only those of Few go on.
Fresh == got.word = NoWord /\ cache_generation = 0 /\ smc_epoch = 0
DecodeNext ==
    /\ got.word = NoWord \/ got.word \in Few
    /\ \/ /\ \E pc \in Pcs : \E w \in IF Fresh /\ pc = Min(Pcs) THEN Words ELSE Few : decode_inst(w, pc)
          /\ UNCHANGED <<cache_generation, smc_epoch>>
       \/ clear_decode_cache \/ bump_smc

\* Every word fetched decodes to the instruction whose pattern it matches, and
\* to the most specific one when it matches several (all of whose fixed bits
\* that one fixes too); a word that matches none is illegal.  Neither the hash,
\* which ignores rs1 and rd, nor the cache, nor the registration order changes
\* that.
DecodeExact ==
    got.word # NoWord =>
        LET M == {i \in Range(Same(got.word)) : Matches(i, got.word)}
            n == Len(got.word)
            Fixed(i) == {<<k, b>> \in (1 .. n) \X (0 .. 6) : b \in Bits(instructions[i].fields[k], Width(n)[k])}
        IN  IF M = {} THEN got.inst = 0
            ELSE /\ got.inst \in M
                 /\ \A j \in M \ {got.inst} : Fixed(j) \subseteq Fixed(got.inst) /\ Fixed(j) # Fixed(got.inst)
=============================================================================
