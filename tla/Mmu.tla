-------------------------------- MODULE Mmu --------------------------------
(***************************************************************************)
(* One hart's address translation: the page walk (include/mmu.inl), the    *)
(* direct-mapped TLB with its census of writable pages (include/tlb.hpp,   *)
(* src/tlb.cpp), SFENCE.VMA (src/sets/priv.cpp) and the check that         *)
(* compiled loads and stores make inline on the same TLB (emit_tlb_checks  *)
(* in src/jit/arch/x86_64/emit.cpp).                                       *)
(*                                                                         *)
(* An address is a page number: the offset inside a page plays no part.  A *)
(* table holds two entries, so level i of the walk reads bit i of the      *)
(* address and a leaf found there maps 2^i pages.  Mode, satp, MXR and SUM *)
(* are not kept: writing them changes nothing of the TLB (csr_write), so   *)
(* each access picks its own.                                              *)
(***************************************************************************)
EXTENDS Integers, FiniteSets

CONSTANTS
  LEVELS,     \* levels of the page table (SvMode::LEVELS)
  SIZE,       \* slots of the TLB (TLB::SIZE)
  W_CREDIT_CAP_PAGES,  \* the widest mapping the census credits
  W_MAX,      \* the value at which a credit saturates (0xFF)
  TableVas,   \* pages the guest accesses through the page tables
  MachineVas, \* pages it accesses in machine mode, where va = pa
  Satps,      \* its address spaces, records [asid, root]
  Tables0,    \* the initial page-table entries, a function on cells
  Edits,      \* pairs of a cell and the entry the guest may store there
  Ppns,       \* physical page numbers
  Ram,        \* those of them with a host mapping
  CodePages,  \* physical pages that may come to hold code
  NoEntry     \* a slot whose generation is not the current one

VARIABLES
  cells,      \* page-table memory: <<table, index>> -> [flags, ppn]
  tlb,        \* slot -> NoEntry or an entry of the current generation
  w_writable, \* physical page -> credits
  w_writable_oversized,
  executed,   \* g_executed_pages
  stale       \* <<va, asid, global>> remapped and not fenced since

mmuVars == <<cells, tlb, w_writable, w_writable_oversized, executed, stale>>

Types == {"LOAD", "STORE", "EXEC"}
\* Mode, MXR and SUM of an access; SUM says nothing of user mode.
Policies == {c \in [mode : {"U", "S"}, mxr : BOOLEAN, sum : BOOLEAN] : c.mode = "U" => ~c.sum}
AsidsInUse == {s.asid : s \in Satps}

PteFlags == {"V", "R", "W", "X", "U", "G", "A", "D"}
TlbSlots == 0 .. (SIZE - 1)
Levels == 0 .. (LEVELS - 1)
Ptes == [flags : SUBSET PteFlags, ppn : Nat]
Entries == [vpage_base : Nat, ppage_base : Nat, page_bits : Levels, asid : AsidsInUse, global : BOOLEAN,
            host : BOOLEAN, perm : SUBSET PteFlags]

\* Pages are numbers, and a mapping that is credited page by page is no wider
\* than the TLB (512 pages and 2^17 slots in the code).  The provers do not
\* know that powers of two are positive.
MmuConstants ==
  /\ SIZE \in Nat \ {0}
  /\ LEVELS \in Nat \ {0}
  /\ W_CREDIT_CAP_PAGES \in Nat
  /\ W_CREDIT_CAP_PAGES <= SIZE
  /\ W_MAX \in Nat
  /\ \A i \in Levels : 2^i \in Nat \ {0}
  /\ TableVas \subseteq Nat
  /\ MachineVas \subseteq Nat
  /\ CodePages \subseteq Ppns
  /\ Tables0 \in [DOMAIN Tables0 -> Ptes]
  /\ \A x \in Edits : x[1] \in DOMAIN Tables0 /\ x[2] \in Ptes
  /\ NoEntry \notin Entries

ASSUME MmuAssumption == MmuConstants

------------------------------------------------------------------------------
(* The walk. *)

\* get_vpn(i)
get_vpn(va, i) == (va \div 2^i) % 2

\* The first page of the mapping of 2^i pages that holds page p.
Base(p, i) == p - (p % 2^i)

\* The leaf the walk ends at, as [cell, level], or NoEntry where it faults:
\* an invalid or reserved entry, no leaf at the last level, or a superpage
\* whose physical base is not aligned to its size.
Leaf(tables, root, va) ==
  LET step[i \in Levels, a \in Nat] ==
        LET cell == <<a, get_vpn(va, i)>>
            pte == tables[cell]
        IN IF "V" \notin pte.flags \/ ("W" \in pte.flags /\ "R" \notin pte.flags) THEN NoEntry
           ELSE IF pte.flags \cap {"R", "X"} # {}
           THEN IF pte.ppn % 2^i = 0 THEN [cell |-> cell, level |-> i] ELSE NoEntry
           ELSE IF i = 0 THEN NoEntry ELSE step[i - 1, pte.ppn]
  IN step[LEVELS - 1, root]

Leaves == [cell : DOMAIN Tables0, level : Levels]

\* The U/SUM rule, then R, W, X and MXR.
Allowed(flags, type, c) ==
  /\ c.mode = "U" => "U" \in flags
  /\ c.mode = "S" /\ "U" \in flags => type # "EXEC" /\ c.sum
  /\ \/ type = "LOAD" /\ ("R" \in flags \/ ("X" \in flags /\ c.mxr))
     \/ type = "STORE" /\ "W" \in flags
     \/ type = "EXEC" /\ "X" \in flags

\* Where a walk of va that ends at leaf l leads.
Target(tables, l, va) == tables[l.cell].ppn + (va % 2^l.level)

------------------------------------------------------------------------------
(* The TLB. *)

\* TLB::index
slot(va) == va % SIZE

Covered(e) == e.ppage_base .. (e.ppage_base + 2^e.page_bits - 1)

Inside(e, va) == Base(va, e.page_bits) = e.vpage_base

\* The mapping of e is credited to page p: one wider than the cap only raises
\* the flag, any other is credited to every page it covers.
Credits(e, p) ==
  e # NoEntry /\ "W" \in e.perm /\ 2^e.page_bits <= W_CREDIT_CAP_PAGES /\ p \in Covered(e)

\* Both saturate: a credit stops at W_MAX, and the drops of the slots in S, made
\* one after the other, at 0.
add_writable(w, e) == [p \in DOMAIN w |-> IF Credits(e, p) /\ w[p] # W_MAX THEN w[p] + 1 ELSE w[p]]
drop_writable(w, S) ==
  [p \in DOMAIN w |-> LET n == Cardinality({i \in S : Credits(tlb[i], p)})
                      IN IF n <= w[p] THEN w[p] - n ELSE 0]

Oversized(e) == e # NoEntry /\ "W" \in e.perm /\ 2^e.page_bits > W_CREDIT_CAP_PAGES

\* Lookup in the slot of va.
\* Mutant: the address space is not compared.
Serves_any_asid(e, va, type, asid, c) ==
  /\ e # NoEntry
  /\ Inside(e, va)
  /\ \/ type = "STORE" /\ {"W", "D"} \subseteq e.perm
     \/ type = "EXEC" /\ "X" \in e.perm /\ ~(c.mode = "S" /\ "U" \in e.perm)
     \/ type = "LOAD" /\ ("R" \in e.perm \/ ("X" \in e.perm /\ c.mxr))
  /\ c.mode = "U" => "U" \in e.perm
  /\ c.mode = "S" /\ "U" \in e.perm => c.sum
Serves(e, va, type, asid, c) ==
  /\ e # NoEntry
  /\ Inside(e, va)
  /\ e.global \/ e.asid = asid
  /\ \/ type = "STORE" /\ {"W", "D"} \subseteq e.perm
     \/ type = "EXEC" /\ "X" \in e.perm /\ ~(c.mode = "S" /\ "U" \in e.perm)
     \/ type = "LOAD" /\ ("R" \in e.perm \/ ("X" \in e.perm /\ c.mxr))
  /\ c.mode = "U" => "U" \in e.perm
  /\ c.mode = "S" /\ "U" \in e.perm => c.sum

tlb_lookup(va, type, asid, c) == Serves(tlb[slot(va)], va, type, asid, c)

Pa(e, va) == e.ppage_base + (va % 2^e.page_bits)

\* Insert: the old entry's credits are dropped, the new entry loses W and D
\* when the page the access touches was executed, and what is left of it is
\* credited.
insert(va, pa, bits, perm, asid, global) ==
  LET base == Base(pa, bits)
      raw == [vpage_base |-> Base(va, bits), ppage_base |-> base,
              page_bits |-> bits, asid |-> asid, global |-> global,
              host |-> Covered([ppage_base |-> base, page_bits |-> bits]) \subseteq Ram,
              perm |-> perm]
      e == [raw EXCEPT !.perm = IF "W" \in perm /\ Pa(raw, va) \in executed THEN perm \ {"W", "D"} ELSE perm]
  IN /\ tlb' = [tlb EXCEPT ![slot(va)] = e]
     /\ w_writable' = add_writable(drop_writable(w_writable, {slot(va)}), e)
     /\ w_writable_oversized' = (w_writable_oversized \/ Oversized(tlb[slot(va)]) \/ Oversized(e))

------------------------------------------------------------------------------
(* The inline check of compiled loads and stores. *)

\* The permission bits the emitted code tests to be clear.
\* Mutant: none, so the supervisor stores to a user page with SUM clear.
Forbidden_none(c) == {}
Forbidden(c) == IF c.mode = "S" /\ ~c.sum THEN {"U"} ELSE {}

emit_tlb_checks(va, type, asid, c) ==
  LET e == tlb[slot(va)]
      must == (IF type = "STORE" THEN {"W", "D"} ELSE IF c.mxr THEN {"R", "X"} ELSE {"R"}) 
                \cup (IF c.mode = "U" THEN {"U"} ELSE {})
      forb == Forbidden(c)
  IN /\ e # NoEntry
     /\ Inside(e, va)
     /\ e.asid = asid \/ e.global
     /\ e.perm \cap (must \cup forb) = must
     /\ e.host

------------------------------------------------------------------------------
(* Actions. *)

MmuInit ==
  /\ cells = Tables0
  /\ tlb = [i \in TlbSlots |-> NoEntry]
  /\ w_writable = [p \in Ppns |-> 0]
  /\ w_writable_oversized = FALSE
  /\ executed = {}
  /\ stale = {}

\* Translate in machine mode: the lookup is skipped and a global entry seeded.
translate_bare(va, asid) ==
  /\ LET all == {"R", "W", "X", "U", "A", "D"}
     IN insert(va, va, 0, IF va \in executed THEN all \ {"W", "D"} ELSE all, asid, TRUE)
  /\ UNCHANGED <<cells, executed, stale>>

\* Translate through the page tables after a TLB miss: A and D are written
\* back to the leaf, an executed page and an instruction fetch lose W and D.
\* A walk that faults changes nothing.  Nothing else depends on the policy: one
\* under which the lookup misses and the walk allows the access is enough.
translate_impl(va, type, s) ==
  \E l \in Leaves :
  LET pte == cells[l.cell]
      flags == pte.flags \cup {"A"} \cup (IF type = "STORE" THEN {"D"} ELSE {})
      pa == Target(cells, l, va)
      perm == flags \cap {"R", "W", "X", "U", "A", "D"}
  IN /\ l = Leaf(cells, s.root, va)
     /\ ~ \A c \in Policies : Allowed(pte.flags, type, c) => tlb_lookup(va, type, s.asid, c)
     /\ cells' = [cells EXCEPT ![l.cell].flags = flags]
     /\ insert(va, pa, l.level,
               IF pa \in executed \/ type = "EXEC" THEN perm \ {"W", "D"} ELSE perm,
               s.asid, "G" \in pte.flags)
     /\ UNCHANGED <<executed, stale>>

tlb_flush_all ==
  /\ tlb' = [i \in DOMAIN tlb |-> NoEntry]
  /\ w_writable' = [p \in Ppns |-> 0]
  /\ w_writable_oversized' = FALSE

\* The three selective flushes: entries of the slots in S go,
\* and their credits with them.
Flush(S) ==
  /\ tlb' = [i \in DOMAIN tlb |-> IF i \in S THEN NoEntry ELSE tlb[i]]
  /\ w_writable' = drop_writable(w_writable, S)
  /\ w_writable_oversized' = (w_writable_oversized \/ \E i \in S : Oversized(tlb[i]))

OfAsid(i, asid) == tlb[i] # NoEntry /\ ~tlb[i].global /\ tlb[i].asid = asid

SFENCE_VMA_all ==
  tlb_flush_all /\ stale' = {} /\ UNCHANGED <<cells, executed>>

flush_addr(va) ==
  /\ Flush({slot(va)})
  /\ stale' = {t \in stale : t[1] # va}
  /\ UNCHANGED <<cells, executed>>

flush_asid(asid) ==
  /\ Flush({i \in DOMAIN tlb : OfAsid(i, asid)})
  /\ stale' = {t \in stale : ~(t[2] = asid /\ ~t[3])}
  /\ UNCHANGED <<cells, executed>>

flush_addr_asid(va, asid) ==
  /\ Flush({i \in {slot(va)} : OfAsid(i, asid)})
  /\ stale' = {t \in stale : ~(t[1] = va /\ t[2] = asid /\ ~t[3])}
  /\ UNCHANGED <<cells, executed>>

\* The guest stores a page-table entry: every address whose walk it changes
\* must be fenced before the new mapping can be relied on.
StorePte(cell, pte) ==
  LET Walks(t) == [x \in TableVas \X Satps |-> LET l == Leaf(t, x[2].root, x[1])
                                          IN IF l = NoEntry THEN NoEntry ELSE <<t[l.cell], l.level>>]
      after == [cells EXCEPT ![cell] = pte]
      old == Walks(cells)
      new == Walks(after)
      Global(w) == w # NoEntry /\ "G" \in w[1].flags
  IN /\ pte # cells[cell]
     /\ cells' = after
     /\ stale' = stale \cup {<<x[1], x[2].asid, Global(old[x]) \/ Global(new[x])>> :
                               x \in {y \in TableVas \X Satps : old[y] # new[y]}}
     /\ UNCHANGED <<tlb, w_writable, w_writable_oversized, executed>>

\* A page starts to host compiled code: it is marked, and tlb_note_exec flushes
\* when the census shows a writable entry for it.
\* Mutant: the page is marked and the TLB kept.
tlb_note_exec_mark(p) == executed' = executed \cup {p} /\ UNCHANGED <<cells, tlb, w_writable, w_writable_oversized, stale>>
tlb_note_exec(p) ==
  /\ executed' = executed \cup {p}
  /\ IF ~w_writable_oversized /\ w_writable[p] # 0
     THEN tlb_flush_all
     ELSE UNCHANGED <<tlb, w_writable, w_writable_oversized>>
  /\ UNCHANGED <<cells, stale>>

\* smc_store_hit on a page that hosts no live code drops its mark.
smc_store_hit(p) ==
  /\ p \in executed
  /\ executed' = executed \ {p}
  /\ UNCHANGED <<cells, tlb, w_writable, w_writable_oversized, stale>>

MmuNext ==
  \/ \E va \in MachineVas, asid \in AsidsInUse : translate_bare(va, asid)
  \/ \E va \in TableVas, type \in Types, s \in Satps : translate_impl(va, type, s)
  \/ SFENCE_VMA_all
  \/ \E va \in TableVas : flush_addr(va)
  \/ \E asid \in AsidsInUse : flush_asid(asid)
  \/ \E va \in TableVas, asid \in AsidsInUse : flush_addr_asid(va, asid)
  \/ \E x \in Edits : StorePte(x[1], x[2])
  \/ \E p \in CodePages : tlb_note_exec(p) \/ smc_store_hit(p)

MmuSpec == MmuInit /\ [][MmuNext]_mmuVars

------------------------------------------------------------------------------
(* Properties. *)

\* Once the guest has fenced an address it remapped (SFENCE.VMA in any of its
\* forms that covers the address), the TLB never answers for it otherwise than
\* a walk of the page tables would: same physical page, access allowed.
TlbCoherent ==
  \A va \in TableVas, s \in Satps :
    LET e == tlb[slot(va)]
        l == Leaf(cells, s.root, va)
    IN \/ \E g \in BOOLEAN : <<va, s.asid, g>> \in stale
       \/ e = NoEntry
       \/ \A type \in Types, c \in Policies :
            Serves(e, va, type, s.asid, c) =>
              /\ l # NoEntry
              /\ Allowed(cells[l.cell].flags, type, c)
              /\ Target(cells, l, va) = Pa(e, va)

\* A compiled load or store whose inline check passes is one the interpreter's
\* own TLB lookup would have let through, to a page with a host mapping.
InlineHitIsLookupHit ==
  \A va \in TableVas, asid \in AsidsInUse, type \in {"LOAD", "STORE"}, c \in Policies :
    emit_tlb_checks(va, type, asid, c) =>
      tlb_lookup(va, type, asid, c) /\ Pa(tlb[slot(va)], va) \in Ram

\* W^X: unless an oversized writable mapping is resident, no address reaches
\* an executed page through an entry that lets a compiled store pass.
WritableNotExecuted ==
  \/ w_writable_oversized
  \/ \A va \in TableVas \cup MachineVas :
       LET e == tlb[slot(va)]
       IN e # NoEntry /\ Inside(e, va) /\ {"W", "D"} \subseteq e.perm
            => Pa(e, va) \notin executed
=============================================================================
