------------------------------ MODULE MmuProofs ------------------------------
(***************************************************************************)
(* Proofs about the TLB of Mmu, for every number of slots, levels, pages   *)
(* and address spaces.                                                     *)
(***************************************************************************)
EXTENDS Mmu, FiniteSetTheorems, TLAPS

MmuTypes ==
  /\ cells \in [DOMAIN Tables0 -> Ptes]
  /\ tlb \in [TlbSlots -> Entries \cup {NoEntry}]
  /\ w_writable_oversized \in BOOLEAN

\* The slots whose entries the census counts for a page.
Crediting(p) == {i \in TlbSlots : Credits(tlb[i], p)}

\* No page is writable through more resident entries than a credit can count to.
FewAliases == \A p \in Ppns : Cardinality(Crediting(p)) <= W_MAX

HostMapped == \A i \in TlbSlots : tlb[i] # NoEntry /\ tlb[i].host => Covered(tlb[i]) \subseteq Ram

CensusExact ==
  /\ w_writable \in [Ppns -> Nat]
  /\ \A p \in Ppns : w_writable[p] = Cardinality(Crediting(p))

FlagRaised == \A i \in TlbSlots : Oversized(tlb[i]) => w_writable_oversized

\* WritableNotExecuted for every address there is.
StoresMiss ==
  w_writable_oversized \/
  \A i \in TlbSlots, va \in Nat :
    slot(va) = i /\ tlb[i] # NoEntry /\ Inside(tlb[i], va) /\ {"W", "D"} \subseteq tlb[i].perm
      => Pa(tlb[i], va) \notin executed

WxInv == CensusExact /\ FlagRaised /\ StoresMiss

------------------------------------------------------------------------------
(* Arithmetic. *)

\* Remainders, and the quotient that goes with them.
LEMMA Remainders ==
  ASSUME NEW x \in Nat, NEW n \in Nat \ {0}
  PROVE  x % n \in 0 .. (n - 1) /\ x \div n \in Int /\ x = (x \div n) * n + (x % n)
  <1>1. x % n \in 0 .. (n - 1)
    OBVIOUS
  <1>2. x \div n \in Int
    OBVIOUS
  <1>3. x = (x \div n) * n + (x % n)
    BY Z3
  <1> QED BY <1>1, <1>2, <1>3

\* Numbers less than n apart with the same remainder are equal.
LEMMA SameRemainder ==
  ASSUME NEW n \in Nat \ {0}, NEW x \in Nat, NEW y \in Nat, x % n = y % n, x - y < n, y - x < n
  PROVE  x = y
  <1> DEFINE p == x \div n
             q == y \div n
             r == x % n
  <1>1. p \in Int /\ q \in Int /\ r \in Int /\ x = p * n + r /\ y = q * n + r
    BY Remainders
  <1> HIDE DEF p, q, r
  <1>2. ASSUME NEW i \in Int, NEW j \in Int, i < j PROVE i * n + n <= j * n
    BY <1>2
  <1>3. p * n \in Int /\ q * n \in Int
    BY <1>1
  <1>4. ~(p < q)
    BY <1>1, <1>2, <1>3
  <1>5. ~(q < p)
    BY <1>1, <1>2, <1>3
  <1> QED BY <1>1, <1>4, <1>5

\* The first page of a mapping, and a page's place in it.
LEMMA Bases ==
  ASSUME MmuConstants, NEW i \in Levels, NEW x \in Nat
  PROVE  /\ 2^i \in Nat \ {0}
         /\ x % 2^i \in 0 .. (2^i - 1)
         /\ Base(x, i) \in Nat
  <1>1. PICK n : n = 2^i
    OBVIOUS
  <1>2. n \in Nat \ {0}
    BY <1>1 DEF MmuConstants
  <1>3. x % n \in 0 .. (n - 1)
    BY <1>2, Remainders
  <1>4. x - (x % n) \in Nat
    BY <1>2, Remainders
  <1> QED BY <1>1, <1>2, <1>3, <1>4 DEF Base

\* An entry that is credited page by page answers, from its slot, for the one
\* address it was filled for.
LEMMA OneAddress ==
  ASSUME MmuConstants, NEW i \in Levels, 2^i <= W_CREDIT_CAP_PAGES,
         NEW x \in Nat, NEW y \in Nat, slot(x) = slot(y), Base(x, i) = Base(y, i)
  PROVE  x = y
  <1>1. PICK n : n = 2^i
    OBVIOUS
  <1>2. n \in Nat \ {0} /\ n <= SIZE /\ SIZE \in Nat \ {0}
    BY <1>1 DEF MmuConstants
  <1>3. x % n \in 0 .. (n - 1) /\ y % n \in 0 .. (n - 1)
    BY <1>2, Remainders
  <1>4. x - (x % n) = y - (y % n)
    BY <1>1 DEF Base
  <1>5. x - y < SIZE /\ y - x < SIZE
    BY <1>2, <1>3, <1>4
  <1> QED BY <1>2, <1>5, SameRemainder DEF slot

\* What an entry leads to is a page it covers.
LEMMA PaCovered ==
  ASSUME MmuConstants, NEW e \in Entries, NEW va \in Nat
  PROVE  Pa(e, va) \in Covered(e)
  <1>1. e.page_bits \in Levels /\ e.ppage_base \in Nat
    BY DEF Entries
  <1>2. PICK b, n : b = e.page_bits /\ n = 2^b
    OBVIOUS
  <1>3. n \in Nat \ {0} /\ va % n \in 0 .. (n - 1)
    BY <1>1, <1>2, Bases
  <1>4. e.ppage_base + (va % n) \in e.ppage_base .. (e.ppage_base + n - 1)
    BY <1>1, <1>3
  <1> QED BY <1>2, <1>4 DEF Pa, Covered

------------------------------------------------------------------------------
(* The census. *)

\* The slots that credit a page are finitely many.
LEMMA CreditingFinite ==
  ASSUME MmuConstants, NEW p
  PROVE  IsFiniteSet(Crediting(p)) /\ Cardinality(Crediting(p)) \in Nat
  <1>0. SIZE \in Nat
    BY DEF MmuConstants
  <1>1. IsFiniteSet(TlbSlots)
    BY <1>0, FS_Interval DEF TlbSlots
  <1>2. Crediting(p) \in SUBSET TlbSlots
    BY DEF Crediting
  <1> QED BY <1>1, <1>2, FS_Subset, FS_CardinalityType

\* drop_writable takes the slots in S out of the count: it never meets a credit of 0.
LEMMA Dropped ==
  ASSUME MmuConstants, CensusExact, NEW S \in SUBSET TlbSlots, NEW p \in Ppns
  PROVE  /\ drop_writable(w_writable, S)[p] = Cardinality(Crediting(p) \ S)
         /\ IsFiniteSet(Crediting(p) \ S) /\ Cardinality(Crediting(p) \ S) \in Nat
  <1>1. PICK C : C = Crediting(p)
    OBVIOUS
  <1>2. IsFiniteSet(C) /\ Cardinality(C) \in Nat
    BY <1>1, CreditingFinite
  <1>3. {i \in S : Credits(tlb[i], p)} = C \cap S
    BY <1>1 DEF Crediting
  <1>4. /\ IsFiniteSet(C \ S) /\ Cardinality(C \ S) \in Nat
        /\ Cardinality(C \ S) = Cardinality(C) - Cardinality(C \cap S)
        /\ Cardinality(C \cap S) \in Nat /\ Cardinality(C \cap S) <= Cardinality(C)
    BY <1>2, FS_Difference, FS_Intersection, FS_CardinalityType
  <1>5. p \in DOMAIN w_writable /\ w_writable[p] = Cardinality(C)
    BY <1>1 DEF CensusExact
  <1>6. drop_writable(w_writable, S)[p] = IF Cardinality(C \cap S) <= w_writable[p]
                                          THEN w_writable[p] - Cardinality(C \cap S) ELSE 0
    BY <1>3, <1>5 DEF drop_writable
  <1> QED BY <1>1, <1>4, <1>5, <1>6

\* The domain and range of the census after a drop.
LEMMA DroppedType ==
  ASSUME MmuConstants, CensusExact, NEW S \in SUBSET TlbSlots
  PROVE  drop_writable(w_writable, S) \in [Ppns -> Nat]
  <1>1. DOMAIN w_writable = Ppns
    BY DEF CensusExact
  <1>2. \A p \in Ppns : drop_writable(w_writable, S)[p] \in Nat
    BY Dropped
  <1>3. PICK f : f = [p \in Ppns |-> drop_writable(w_writable, S)[p]]
    OBVIOUS
  <1>4. f = drop_writable(w_writable, S)
    BY <1>1, <1>3 DEF drop_writable
  <1> QED BY <1>2, <1>3, <1>4

\* A step that empties the slots in S.
LEMMA CensusFlushed ==
  ASSUME MmuConstants, CensusExact, NEW S \in SUBSET TlbSlots,
         tlb \in [TlbSlots -> Entries \cup {NoEntry}],
         tlb' = [i \in TlbSlots |-> IF i \in S THEN NoEntry ELSE tlb[i]],
         w_writable' = drop_writable(w_writable, S)
  PROVE  CensusExact'
  <1>1. w_writable' \in [Ppns -> Nat]
    BY DroppedType
  <1>2. ASSUME NEW p \in Ppns PROVE Crediting(p)' = Crediting(p) \ S
    BY DEF Crediting, Credits
  <1>3. ASSUME NEW p \in Ppns PROVE w_writable'[p] = Cardinality(Crediting(p)')
    BY <1>2, Dropped
  <1> QED BY <1>1, <1>3 DEF CensusExact

\* A step that fills slot k with e: as long as no credit overflows, the count follows.
LEMMA CensusFilled ==
  ASSUME MmuConstants, CensusExact, FewAliases', NEW k \in TlbSlots, NEW e \in Entries,
         tlb \in [TlbSlots -> Entries \cup {NoEntry}],
         tlb' = [tlb EXCEPT ![k] = e],
         w_writable' = add_writable(drop_writable(w_writable, {k}), e)
  PROVE  CensusExact'
  <1>0. PICK w : w = drop_writable(w_writable, {k})
    OBVIOUS
  <1>1. w \in [Ppns -> Nat] /\ W_MAX \in Nat
    BY <1>0, DroppedType DEF MmuConstants
  <1>2. ASSUME NEW p \in Ppns
        PROVE  Crediting(p)' = IF Credits(e, p) THEN (Crediting(p) \ {k}) \cup {k} ELSE Crediting(p) \ {k}
    BY DEF Crediting, Credits
  <1>3. ASSUME NEW p \in Ppns PROVE w_writable'[p] = Cardinality(Crediting(p)') /\ w_writable'[p] \in Nat
    <2>1. PICK C : C = Crediting(p) \ {k}
      OBVIOUS
    <2>2. w[p] = Cardinality(C) /\ IsFiniteSet(C) /\ Cardinality(C) \in Nat /\ k \notin C
      BY <1>0, <2>1, Dropped
    <2>3. w_writable'[p] = IF Credits(e, p) /\ w[p] # W_MAX THEN w[p] + 1 ELSE w[p]
      BY <1>0, <1>1 DEF add_writable
    <2>4. CASE Credits(e, p)
      <3>1. Crediting(p)' = C \cup {k}
        BY <1>2, <2>1, <2>4
      <3>2. Cardinality(C \cup {k}) = Cardinality(C) + 1
        BY <2>2, FS_AddElement
      <3>3. Cardinality(C \cup {k}) <= W_MAX
        BY <3>1 DEF FewAliases
      <3> QED BY <1>1, <2>2, <2>3, <2>4, <3>1, <3>2, <3>3
    <2>5. CASE ~Credits(e, p)
      BY <1>2, <2>1, <2>2, <2>3, <2>5
    <2> QED BY <2>4, <2>5
  <1>4. w_writable' \in [Ppns -> Nat]
    <2>1. w_writable' = [p \in Ppns |-> w_writable'[p]]
      BY <1>0, <1>1 DEF add_writable
    <2> QED BY <1>3, <2>1
  <1> QED BY <1>3, <1>4 DEF CensusExact

------------------------------------------------------------------------------
(* What an insert fills its slot with. *)

\* The new entry: its span, its host mapping, and no W on an executed page.
Filled(e, va, bits) ==
  /\ e \in Entries
  /\ e.vpage_base = Base(va, bits)
  /\ e.page_bits = bits
  /\ e.host => Covered(e) \subseteq Ram
  /\ "W" \in e.perm => Pa(e, va) \notin executed
  /\ tlb' = [tlb EXCEPT ![slot(va)] = e]
  /\ w_writable' = add_writable(drop_writable(w_writable, {slot(va)}), e)
  /\ w_writable_oversized' = (w_writable_oversized \/ Oversized(tlb[slot(va)]) \/ Oversized(e))

\* A page's slot is one of the TLB's.
LEMMA SlotOf ==
  ASSUME MmuConstants, NEW va \in Nat
  PROVE  slot(va) \in TlbSlots
  <1>1. SIZE \in Nat \ {0}
    BY DEF MmuConstants
  <1> QED BY <1>1, Remainders DEF slot, TlbSlots

\* TLB::insert, with the arguments its callers give it.
LEMMA Inserted ==
  ASSUME MmuConstants, NEW va \in Nat, NEW pa \in Nat, NEW bits \in Levels, NEW perm \in SUBSET PteFlags,
         NEW asid \in AsidsInUse, NEW global \in BOOLEAN, insert(va, pa, bits, perm, asid, global)
  PROVE  \E e : Filled(e, va, bits)
  <1> DEFINE base == Base(pa, bits)
             host == Covered([ppage_base |-> base, page_bits |-> bits]) \subseteq Ram
             raw == [vpage_base |-> Base(va, bits), ppage_base |-> base,
                     page_bits |-> bits, asid |-> asid, global |-> global, host |-> host, perm |-> perm]
             kept == IF "W" \in perm /\ Pa(raw, va) \in executed THEN perm \ {"W", "D"} ELSE perm
             e == [raw EXCEPT !.perm = kept]
  <1>1. base \in Nat /\ Base(va, bits) \in Nat /\ host \in BOOLEAN
    BY Bases
  <1>2. kept \in SUBSET PteFlags
    OBVIOUS
  <1>3. e = [vpage_base |-> Base(va, bits), ppage_base |-> base,
             page_bits |-> bits, asid |-> asid, global |-> global, host |-> host, perm |-> kept]
    OBVIOUS
  <1>4. e \in Entries
    <2> HIDE DEF base, host, kept, e
    <2> QED BY <1>1, <1>2, <1>3 DEF Entries
  <1>5. e.host => Covered(e) \subseteq Ram
    BY DEF Covered
  <1>6. "W" \in e.perm => Pa(e, va) \notin executed
    BY DEF Pa
  <1>7. /\ tlb' = [tlb EXCEPT ![slot(va)] = e]
        /\ w_writable' = add_writable(drop_writable(w_writable, {slot(va)}), e)
        /\ w_writable_oversized' = (w_writable_oversized \/ Oversized(tlb[slot(va)]) \/ Oversized(e))
    BY DEF insert
  <1>8. e.vpage_base = Base(va, bits) /\ e.page_bits = bits
    BY <1>3
  <1> HIDE DEF e
  <1> QED BY <1>4, <1>5, <1>6, <1>7, <1>8 DEF Filled

\* Translation in machine mode fills a slot and touches nothing else.
LEMMA BareFills ==
  ASSUME MmuConstants, NEW va \in MachineVas, NEW asid \in AsidsInUse, translate_bare(va, asid)
  PROVE  va \in Nat /\ 0 \in Levels /\ (\E e : Filled(e, va, 0)) /\ UNCHANGED <<cells, executed, stale>>
  <1>1. va \in Nat /\ 0 \in Levels
    BY DEF MmuConstants, Levels
  <1>2. PICK perm : perm \in SUBSET PteFlags /\ insert(va, va, 0, perm, asid, TRUE)
    BY DEF translate_bare, PteFlags
  <1>3. \E e : Filled(e, va, 0)
    BY <1>1, <1>2, Inserted
  <1> QED BY <1>1, <1>3 DEF translate_bare

\* Translation through the tables fills a slot and writes A and D to the leaf.
LEMMA WalkFills ==
  ASSUME MmuConstants, MmuTypes, NEW va \in TableVas, NEW type \in Types, NEW s \in Satps,
         translate_impl(va, type, s)
  PROVE  /\ va \in Nat
         /\ \E bits \in Levels : \E e : Filled(e, va, bits)
         /\ cells' \in [DOMAIN Tables0 -> Ptes]
         /\ UNCHANGED <<executed, stale>>
  <1>1. va \in Nat /\ s.asid \in AsidsInUse
    BY DEF MmuConstants, AsidsInUse
  <1>2. PICK l \in Leaves :
          LET flags == cells[l.cell].flags \cup {"A"} \cup (IF type = "STORE" THEN {"D"} ELSE {})
              pa == Target(cells, l, va)
              perm == flags \cap {"R", "W", "X", "U", "A", "D"}
          IN /\ cells' = [cells EXCEPT ![l.cell].flags = flags]
             /\ insert(va, pa, l.level,
                       IF pa \in executed \/ type = "EXEC" THEN perm \ {"W", "D"} ELSE perm,
                       s.asid, "G" \in cells[l.cell].flags)
             /\ UNCHANGED <<executed, stale>>
    BY Zenon DEF translate_impl
  <1> DEFINE flags == cells[l.cell].flags \cup {"A"} \cup (IF type = "STORE" THEN {"D"} ELSE {})
             cut == flags \cap {"R", "W", "X", "U", "A", "D"}
             perm == IF Target(cells, l, va) \in executed \/ type = "EXEC" THEN cut \ {"W", "D"} ELSE cut
  <1>3. l.cell \in DOMAIN Tables0 /\ l.level \in Levels
    BY DEF Leaves, Levels
  <1>4. cells[l.cell] \in Ptes
    BY <1>3 DEF MmuTypes
  <1>5. cells[l.cell].flags \in SUBSET PteFlags /\ cells[l.cell].ppn \in Nat
    BY <1>4 DEF Ptes
  <1>6. flags \in SUBSET PteFlags /\ perm \in SUBSET PteFlags
    BY <1>5 DEF PteFlags
  <1>6a. /\ cells' = [cells EXCEPT ![l.cell].flags = flags]
        /\ insert(va, Target(cells, l, va), l.level, perm, s.asid, "G" \in cells[l.cell].flags)
    BY <1>2, Zenon
  <1> HIDE DEF flags, perm
  <1>7. Target(cells, l, va) \in Nat
    <2>1. PICK n : n = 2^l.level /\ n \in Nat \ {0} /\ va % n \in 0 .. (n - 1)
      BY <1>1, <1>3, Bases
    <2> QED BY <1>5, <2>1 DEF Target
  <1>8. \E e : Filled(e, va, l.level)
    <2>1. PICK pa, q, g, a : /\ pa = Target(cells, l, va) /\ q = perm
                             /\ g = ("G" \in cells[l.cell].flags) /\ a = s.asid
      OBVIOUS
    <2>2. pa \in Nat /\ q \in SUBSET PteFlags /\ g \in BOOLEAN /\ a \in AsidsInUse
      BY <1>1, <1>6, <1>7, <2>1
    <2>3. insert(va, pa, l.level, q, a, g)
      BY <1>6a, <2>1, Zenon
    <2> QED BY <1>1, <1>3, <2>2, <2>3, Inserted, Zenon
  <1>9. cells' \in [DOMAIN Tables0 -> Ptes]
    <2>1. [cells[l.cell] EXCEPT !.flags = flags] \in Ptes
      BY <1>4, <1>6 DEF Ptes
    <2>2. cells' = [cells EXCEPT ![l.cell] = [cells[l.cell] EXCEPT !.flags = flags]]
      BY <1>6a
    <2> QED BY <1>3, <2>1, <2>2 DEF MmuTypes
  <1> QED BY <1>1, <1>2, <1>3, <1>8, <1>9

------------------------------------------------------------------------------
(* The steps, as what they do to the TLB. *)

Filling == \E va \in Nat, bits \in Levels : \E e : Filled(e, va, bits) /\ executed' = executed
Emptying == \E S \in SUBSET TlbSlots : Flush(S) /\ executed' = executed
Keeping == UNCHANGED <<tlb, w_writable, w_writable_oversized>> /\ executed' \subseteq executed
Marking ==
  \E p \in Ppns : /\ w_writable_oversized \/ w_writable[p] = 0
                  /\ executed' = executed \cup {p}
                  /\ UNCHANGED <<tlb, w_writable, w_writable_oversized>>

\* Each operation on the TLB, each access and each store is one of five.
LEMMA Operations ==
  ASSUME MmuConstants, MmuTypes, [MmuNext]_mmuVars
  PROVE  (Filling \/ Emptying \/ tlb_flush_all \/ Keeping \/ Marking) /\ cells' \in [DOMAIN Tables0 -> Ptes]
  <1>0. cells \in [DOMAIN Tables0 -> Ptes] /\ DOMAIN tlb = TlbSlots
    BY DEF MmuTypes
  <1>1. ASSUME NEW va \in MachineVas, NEW asid \in AsidsInUse, translate_bare(va, asid)
        PROVE  Filling /\ UNCHANGED cells
    BY <1>1, BareFills DEF Filling
  <1>2. ASSUME NEW va \in TableVas, NEW type \in Types, NEW s \in Satps, translate_impl(va, type, s)
        PROVE  Filling /\ cells' \in [DOMAIN Tables0 -> Ptes]
    BY <1>2, WalkFills DEF Filling
  <1>3. ASSUME SFENCE_VMA_all PROVE tlb_flush_all /\ UNCHANGED cells
    BY <1>3, Zenon DEF SFENCE_VMA_all
  <1>4. ASSUME NEW va \in TableVas, flush_addr(va) PROVE Emptying /\ UNCHANGED cells
    <2>1. {slot(va)} \in SUBSET TlbSlots
      BY SlotOf DEF MmuConstants
    <2> QED BY <1>4, <2>1, Zenon DEF flush_addr, Emptying
  <1>5. ASSUME NEW asid \in AsidsInUse, flush_asid(asid) PROVE Emptying /\ UNCHANGED cells
    <2>1. {i \in DOMAIN tlb : OfAsid(i, asid)} \in SUBSET TlbSlots
      BY <1>0
    <2> QED BY <1>5, <2>1, Zenon DEF flush_asid, Emptying
  <1>6. ASSUME NEW va \in TableVas, NEW asid \in AsidsInUse, flush_addr_asid(va, asid)
        PROVE  Emptying /\ UNCHANGED cells
    <2>1. {i \in {slot(va)} : OfAsid(i, asid)} \in SUBSET TlbSlots
      BY SlotOf DEF MmuConstants
    <2> QED BY <1>6, <2>1, Zenon DEF flush_addr_asid, Emptying
  <1>7. ASSUME NEW x \in Edits, StorePte(x[1], x[2])
        PROVE  Keeping /\ cells' \in [DOMAIN Tables0 -> Ptes]
    <2>1. cells' = [cells EXCEPT ![x[1]] = x[2]] /\ Keeping
      BY <1>7, Zenon DEF StorePte, Keeping
    <2>2. x[1] \in DOMAIN Tables0 /\ x[2] \in Ptes
      BY DEF MmuConstants
    <2> QED BY <1>0, <2>1, <2>2
  <1>8. ASSUME NEW p \in CodePages, tlb_note_exec(p)
        PROVE  (tlb_flush_all \/ Marking) /\ UNCHANGED cells
    <2>1. p \in Ppns
      BY DEF MmuConstants
    <2> QED BY <1>8, <2>1, Zenon DEF tlb_note_exec, Marking
  <1>9. ASSUME NEW p \in CodePages, smc_store_hit(p) PROVE Keeping /\ UNCHANGED cells
    BY <1>9, Zenon DEF smc_store_hit, Keeping
  <1>10. ASSUME UNCHANGED mmuVars PROVE Keeping /\ UNCHANGED cells
    BY <1>10, Zenon DEF mmuVars, Keeping
  <1> QED BY <1>0, <1>1, <1>2, <1>3, <1>4, <1>5, <1>6, <1>7, <1>8, <1>9, <1>10, Zenon DEF MmuNext

------------------------------------------------------------------------------
(* The inline check. *)

\* Types, and the host mapping of every resident entry.
LEMMA TypesKept ==
  ASSUME MmuConstants, MmuTypes, HostMapped, [MmuNext]_mmuVars
  PROVE  MmuTypes' /\ HostMapped'
  <1>1. cells' \in [DOMAIN Tables0 -> Ptes]
    BY Operations, Zenon
  <1>2. CASE Filling
    <2>1. PICK va \in Nat, bits \in Levels : \E e : Filled(e, va, bits)
      BY <1>2, Zenon DEF Filling
    <2>2. PICK e : Filled(e, va, bits)
      BY <2>1
    <2>3. slot(va) \in TlbSlots /\ e \in Entries
      BY <2>2, SlotOf DEF Filled
    <2>4. tlb' = [tlb EXCEPT ![slot(va)] = e] /\ w_writable_oversized' \in BOOLEAN
      BY <2>2 DEF Filled
    <2>5. e.host => Covered(e) \subseteq Ram
      BY <2>2 DEF Filled
    <2> QED BY <1>1, <2>3, <2>4, <2>5 DEF MmuTypes, HostMapped
  <1>3. CASE Emptying
    <2>1. PICK S \in SUBSET TlbSlots : Flush(S)
      BY <1>3, Zenon DEF Emptying
    <2>2. tlb' = [i \in TlbSlots |-> IF i \in S THEN NoEntry ELSE tlb[i]] /\ w_writable_oversized' \in BOOLEAN
      BY <2>1 DEF Flush, MmuTypes
    <2> QED BY <1>1, <2>2 DEF MmuTypes, HostMapped
  <1>4. CASE tlb_flush_all
    BY <1>1, <1>4 DEF tlb_flush_all, MmuTypes, HostMapped
  <1>5. CASE UNCHANGED <<tlb, w_writable_oversized>>
    BY <1>1, <1>5 DEF MmuTypes, HostMapped
  <1> QED BY <1>2, <1>3, <1>4, <1>5, Operations, Zenon DEF Keeping, Marking

\* The bits the emitted code compares decide at least what TLB::lookup decides.
LEMMA InlineDecides ==
  ASSUME NEW va, NEW asid, NEW type \in {"LOAD", "STORE"}, NEW c \in Policies, emit_tlb_checks(va, type, asid, c)
  PROVE  tlb_lookup(va, type, asid, c) /\ tlb[slot(va)] # NoEntry /\ tlb[slot(va)].host
  <1>1. PICK e : e = tlb[slot(va)]
    OBVIOUS
  <1>2. PICK must, forb :
          /\ must = (IF type = "STORE" THEN {"W", "D"} ELSE IF c.mxr THEN {"R", "X"} ELSE {"R"})
                      \cup (IF c.mode = "U" THEN {"U"} ELSE {})
          /\ forb = Forbidden(c)
    OBVIOUS
  <1>3. e # NoEntry /\ Inside(e, va) /\ (e.asid = asid \/ e.global) /\ e.perm \cap (must \cup forb) = must /\ e.host
    BY <1>1, <1>2, Zenon DEF emit_tlb_checks
  <1>4. must \subseteq e.perm
    BY <1>3
  <1>6. type = "STORE" => {"W", "D"} \subseteq e.perm
    <2>1. type = "STORE" => "W" \in must /\ "D" \in must
      BY <1>2
    <2> QED BY <1>4, <2>1
  <1>7. type = "LOAD" => "R" \in e.perm
    <2>1. type = "LOAD" => "R" \in must
      BY <1>2
    <2> QED BY <1>4, <2>1
  <1>8. c.mode = "U" => "U" \in e.perm
    BY <1>2, <1>4
  <1>9. c.mode = "S" /\ "U" \in e.perm => c.sum
    <2> SUFFICES ASSUME c.mode = "S", ~c.sum, "U" \in e.perm PROVE FALSE
      OBVIOUS
    <2>1. forb = {"U"}
      BY <1>2 DEF Forbidden
    <2>2. "U" \in must
      BY <1>3, <2>1
    <2>3. "U" \notin must
      BY <1>2
    <2> QED BY <2>2, <2>3
  <1> QED BY <1>1, <1>3, <1>6, <1>7, <1>8, <1>9, Zenon DEF tlb_lookup, Serves

\* For every TLB size, page-table depth and number of address spaces: a compiled
\* load or store whose inline check passes (emit_tlb_checks) is one TLB::lookup
\* would have answered, and leads to a page with a host mapping, whatever was
\* inserted, flushed, remapped or marked before.
THEOREM InlineCheckSound == MmuSpec => []InlineHitIsLookupHit
  <1>0. MmuConstants
    BY MmuAssumption
  <1>1. MmuInit => MmuTypes /\ HostMapped
    <2> SUFFICES ASSUME MmuInit PROVE MmuTypes /\ HostMapped
      OBVIOUS
    <2>1. tlb = [i \in TlbSlots |-> NoEntry] /\ cells = Tables0 /\ w_writable_oversized = FALSE
      BY Zenon DEF MmuInit, TlbSlots
    <2>2. Tables0 \in [DOMAIN Tables0 -> Ptes]
      BY <1>0 DEF MmuConstants
    <2> QED BY <2>1, <2>2 DEF MmuTypes, HostMapped
  <1>2. MmuTypes /\ HostMapped /\ [MmuNext]_mmuVars => MmuTypes' /\ HostMapped'
    BY <1>0, TypesKept
  <1>3. MmuTypes /\ HostMapped => InlineHitIsLookupHit
    <2> SUFFICES ASSUME MmuTypes, HostMapped, NEW va \in TableVas, NEW asid \in AsidsInUse,
                        NEW type \in {"LOAD", "STORE"}, NEW c \in Policies, emit_tlb_checks(va, type, asid, c)
                 PROVE  tlb_lookup(va, type, asid, c) /\ Pa(tlb[slot(va)], va) \in Ram
      BY Zenon DEF InlineHitIsLookupHit
    <2>1. tlb_lookup(va, type, asid, c) /\ tlb[slot(va)] # NoEntry /\ tlb[slot(va)].host
      BY InlineDecides, Zenon
    <2>2. va \in Nat /\ slot(va) \in TlbSlots
      BY <1>0, SlotOf DEF MmuConstants
    <2>3. tlb[slot(va)] \in Entries
      BY <2>1, <2>2 DEF MmuTypes
    <2>4. PICK e : e = tlb[slot(va)]
      OBVIOUS
    <2>5. Pa(e, va) \in Covered(e)
      BY <1>0, <2>2, <2>3, <2>4, PaCovered, Zenon
    <2>6. Covered(e) \subseteq Ram
      BY <2>1, <2>2, <2>4 DEF HostMapped
    <2> QED BY <2>1, <2>4, <2>5, <2>6
  <1> QED BY <1>1, <1>2, <1>3, PTL DEF MmuSpec

------------------------------------------------------------------------------
(* W^X. *)

\* While every credit fits, filling, emptying and marking keep the census exact,
\* the oversized flag up, and compiled stores away from executed pages.
LEMMA WxKept ==
  ASSUME MmuConstants, MmuTypes, WxInv, FewAliases', [MmuNext]_mmuVars
  PROVE  WxInv'
  <1>0. CensusExact /\ FlagRaised /\ StoresMiss /\ tlb \in [TlbSlots -> Entries \cup {NoEntry}]
    BY DEF WxInv, MmuTypes
  <1>1. CASE Filling
    <2>1. PICK va \in Nat, bits \in Levels : \E e : Filled(e, va, bits) /\ executed' = executed
      BY <1>1, Zenon DEF Filling
    <2>2. PICK e : Filled(e, va, bits) /\ executed' = executed
      BY <2>1
    <2>3. PICK k : k = slot(va)
      OBVIOUS
    <2>4. k \in TlbSlots /\ e \in Entries
      BY <2>2, <2>3, SlotOf DEF Filled
    <2>5. /\ tlb' = [tlb EXCEPT ![k] = e]
          /\ w_writable' = add_writable(drop_writable(w_writable, {k}), e)
          /\ w_writable_oversized' = (w_writable_oversized \/ Oversized(tlb[k]) \/ Oversized(e))
      BY <2>2, <2>3, Zenon DEF Filled
    <2>6. CensusExact'
      BY <1>0, <2>4, <2>5, CensusFilled, Zenon
    <2>7. FlagRaised'
      BY <1>0, <2>4, <2>5 DEF FlagRaised, Oversized
    <2>8. StoresMiss'
      <3> SUFFICES ASSUME ~w_writable_oversized', NEW i \in TlbSlots, NEW x \in Nat,
                          slot(x) = i, tlb'[i] # NoEntry, Inside(tlb'[i], x), {"W", "D"} \subseteq tlb'[i].perm
                   PROVE  Pa(tlb'[i], x) \notin executed
        BY <2>2, Zenon DEF StoresMiss, slot, Inside, Pa, Base
      <3>1. ~w_writable_oversized /\ ~Oversized(e)
        BY <2>5
      <3>2. CASE i # k
        BY <1>0, <2>4, <2>5, <3>1, <3>2 DEF StoresMiss
      <3>3. CASE i = k
        <4>1. tlb'[i] = e /\ e # NoEntry /\ "W" \in e.perm
          BY <1>0, <2>4, <2>5, <3>3
        <4>2. e.page_bits = bits /\ e.vpage_base = Base(va, bits) /\ Pa(e, va) \notin executed
          BY <2>2, <4>1 DEF Filled
        <4>3. 2^bits <= W_CREDIT_CAP_PAGES
          <5>1. PICK n : n = 2^bits /\ n \in Nat
            BY Bases
          <5>2. ~(n > W_CREDIT_CAP_PAGES)
            BY <3>1, <4>1, <4>2, <5>1, Zenon DEF Oversized
          <5> QED BY <5>1, <5>2 DEF MmuConstants
        <4>4. Base(x, bits) = Base(va, bits)
          BY <4>1, <4>2, Zenon DEF Inside
        <4>5. x = va
          BY <2>3, <3>3, <4>3, <4>4, OneAddress, Zenon
        <4> QED BY <4>1, <4>2, <4>5, Zenon
      <3> QED BY <3>2, <3>3
    <2> QED BY <2>6, <2>7, <2>8 DEF WxInv
  <1>2. CASE Emptying
    <2>1. PICK S \in SUBSET TlbSlots : Flush(S) /\ executed' = executed
      BY <1>2, Zenon DEF Emptying
    <2>2. /\ tlb' = [i \in TlbSlots |-> IF i \in S THEN NoEntry ELSE tlb[i]]
          /\ w_writable' = drop_writable(w_writable, S)
          /\ w_writable_oversized' = (w_writable_oversized \/ \E i \in S : Oversized(tlb[i]))
      BY <1>0, <2>1 DEF Flush
    <2>3. CensusExact'
      BY <1>0, <2>2, CensusFlushed, Zenon
    <2>4. FlagRaised'
      BY <1>0, <2>2 DEF FlagRaised, Oversized
    <2>5. \A i \in TlbSlots : tlb'[i] # NoEntry => tlb'[i] = tlb[i]
      BY <2>2
    <2>6. ~w_writable_oversized' => ~w_writable_oversized
      BY <2>2
    <2>7. StoresMiss'
      BY <1>0, <2>1, <2>5, <2>6, Zenon DEF StoresMiss, slot, Inside, Pa, Base
    <2> QED BY <2>3, <2>4, <2>7 DEF WxInv
  <1>3. CASE tlb_flush_all
    <2>1. tlb' = [i \in TlbSlots |-> NoEntry] /\ w_writable' = [p \in Ppns |-> 0]
      BY <1>0, <1>3 DEF tlb_flush_all
    <2>2. ASSUME NEW p \in Ppns PROVE Crediting(p)' = {}
      BY <2>1 DEF Crediting, Credits
    <2>3. CensusExact'
      BY <2>1, <2>2, FS_EmptySet DEF CensusExact
    <2>4. FlagRaised' /\ StoresMiss'
      BY <2>1 DEF FlagRaised, StoresMiss, Oversized
    <2> QED BY <2>3, <2>4 DEF WxInv
  <1>4. CASE UNCHANGED <<tlb, w_writable, w_writable_oversized>>
    <2>1. CensusExact' /\ FlagRaised'
      BY <1>0, <1>4 DEF CensusExact, FlagRaised, Crediting, Credits, Oversized, Covered
    <2>2. CASE executed' \subseteq executed
      <3>1. StoresMiss'
        BY <1>0, <1>4, <2>2, Zenon DEF StoresMiss, slot, Inside, Pa, Base
      <3> QED BY <2>1, <3>1 DEF WxInv
    <2>3. CASE Marking
      <3>1. PICK p \in Ppns : (w_writable_oversized \/ w_writable[p] = 0) /\ executed' = executed \cup {p}
        BY <2>3, Zenon DEF Marking
      <3>2. SUFFICES ASSUME ~w_writable_oversized, NEW i \in TlbSlots, NEW x \in Nat,
                            slot(x) = i, tlb[i] # NoEntry, Inside(tlb[i], x), {"W", "D"} \subseteq tlb[i].perm
                     PROVE  Pa(tlb[i], x) \notin executed \cup {p}
        BY <1>4, <2>1, <3>1, Zenon DEF WxInv, StoresMiss, slot, Inside, Pa, Base
      <3>3. Pa(tlb[i], x) \notin executed
        BY <1>0, <3>2 DEF StoresMiss
      <3>4. Crediting(p) = {}
        BY <1>0, <3>1, <3>2, CreditingFinite, FS_EmptySet DEF CensusExact
      <3>5. PICK e : e = tlb[i] /\ e \in Entries
        BY <1>0, <3>2
      <3>6. ~Oversized(e) /\ ~Credits(e, p)
        BY <1>0, <3>2, <3>4, <3>5 DEF FlagRaised, Crediting
      <3>7. p \notin Covered(e)
        <4>1. e.page_bits \in Levels
          BY <3>5 DEF Entries
        <4>2. PICK n : n = 2^e.page_bits /\ n \in Nat
          BY <4>1, Bases
        <4>3. n > W_CREDIT_CAP_PAGES \/ n <= W_CREDIT_CAP_PAGES
          BY <4>2 DEF MmuConstants
        <4> QED BY <3>2, <3>5, <3>6, <4>2, <4>3 DEF Oversized, Credits
      <3>8. Pa(e, x) \in Covered(e)
        BY <3>5, PaCovered
      <3> QED BY <3>3, <3>5, <3>7, <3>8
    <2> QED BY <1>4, <2>2, <2>3, Operations, <1>1, <1>2, <1>3, Zenon DEF Keeping
  <1> QED BY <1>1, <1>2, <1>3, <1>4, Operations, Zenon DEF Keeping, Marking

\* For every TLB size and page-table depth, and as long as no physical page is
\* writable through more resident entries than its credit can count (W_MAX, 255
\* in the code): while no oversized writable mapping has been resident since the
\* last full flush, no compiled store reaches a page that hosts compiled code.
THEOREM CompiledStoresMissCode == MmuSpec /\ []FewAliases => []WritableNotExecuted
  <1>0. MmuConstants
    BY MmuAssumption
  <1>1. MmuInit => MmuTypes /\ HostMapped /\ WxInv
    <2> SUFFICES ASSUME MmuInit PROVE MmuTypes /\ HostMapped /\ WxInv
      OBVIOUS
    <2>1. /\ tlb = [i \in TlbSlots |-> NoEntry] /\ cells = Tables0 /\ w_writable_oversized = FALSE
          /\ w_writable = [p \in Ppns |-> 0]
      BY Zenon DEF MmuInit, TlbSlots
    <2>2. Tables0 \in [DOMAIN Tables0 -> Ptes]
      BY <1>0 DEF MmuConstants
    <2>3. MmuTypes /\ HostMapped
      BY <2>1, <2>2 DEF MmuTypes, HostMapped
    <2>4. ASSUME NEW p \in Ppns PROVE Crediting(p) = {}
      BY <2>1 DEF Crediting, Credits
    <2>5. CensusExact
      BY <2>1, <2>4, FS_EmptySet DEF CensusExact
    <2>6. FlagRaised /\ StoresMiss
      BY <2>1 DEF FlagRaised, StoresMiss, Oversized
    <2> QED BY <2>3, <2>5, <2>6 DEF WxInv
  <1>2. MmuTypes /\ HostMapped /\ WxInv /\ FewAliases' /\ [MmuNext]_mmuVars => (MmuTypes /\ HostMapped /\ WxInv)'
    BY <1>0, TypesKept, WxKept
  <1>3. WxInv => WritableNotExecuted
    <2>1. \A va \in TableVas \cup MachineVas : va \in Nat /\ slot(va) \in TlbSlots
      BY <1>0, SlotOf DEF MmuConstants
    <2> QED BY <2>1, Zenon DEF WxInv, StoresMiss, WritableNotExecuted
  <1> QED BY <1>1, <1>2, <1>3, PTL DEF MmuSpec
=============================================================================
