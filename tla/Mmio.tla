-------------------------------- MODULE Mmio --------------------------------
(***************************************************************************)
(* The bus a hart's loads and stores go through (src/mmio.cpp): an access  *)
(* is translated, sent to DRAM or to the device whose range holds all of   *)
(* it, and cut in two when paging is on and it crosses a page.  A word is  *)
(* the sequence of its bytes, lowest first.                                *)
(***************************************************************************)
EXTENDS Integers, Sequences, SequencesExt

CONSTANTS
  PAGE,          \* bytes of a page (0x1000)
  DramBase, DramSize,
  Devs,          \* the devices in order, records [start, size]
  PageMap,       \* virtual page -> physical page, or NoPage
  Addrs,         \* addresses the hart accesses
  NoPage

VARIABLES
  ram,           \* byte address -> byte
  io,            \* bytes behind the devices
  reserved,      \* physical addresses amo_check_reservation was told of
  last           \* the access just made and what it did

mmioVars == <<ram, io, reserved, last>>

Sizes == {1, 2, 4, 8}
Dram == DramBase .. (DramBase + DramSize - 1)
IoBytes == UNION {d.start .. (d.start + d.size - 1) : d \in ToSet(Devs)}
End == DramBase + DramSize

\* The word a store of n bytes carries: all its bytes differ.
Word(n) == [i \in 1..n |-> i]

\* Physical address of va when paging is on; page offsets pass through.
translate(va) ==
  IF va \div PAGE \notin DOMAIN PageMap \/ PageMap[va \div PAGE] = NoPage THEN NoPage
  ELSE PageMap[va \div PAGE] * PAGE + (va % PAGE)

InDram(p, n) == p >= DramBase /\ p <= End - n
Device(p, n) == SelectInSeq(Devs, LAMBDA d : p >= d.start /\ p <= d.start + d.size - n)

cross_page(paging, addr, n) == paging /\ (addr % PAGE) + n > PAGE

\* The fragments of an access as [va, pa, from, size]: one, or two at a page
\* boundary; from is the index of the fragment's first byte in the word.
Fragments(paging, addr, n) ==
  LET At(va) == IF paging THEN translate(va) ELSE va
      first == PAGE - (addr % PAGE)
  IN IF cross_page(paging, addr, n)
     THEN << [va |-> addr, pa |-> At(addr), from |-> 1, size |-> first],
             [va |-> addr + first, pa |-> At(addr + first), from |-> first + 1, size |-> n - first] >>
     ELSE << [va |-> addr, pa |-> At(addr), from |-> 1, size |-> n] >>

Handled(f) == InDram(f.pa, f.size) \/ Device(f.pa, f.size) # 0

\* The fragment an access faults at: a page fault on any of them comes first,
\* then the first one no region answers for.  0 when there is none.
PageFault(fs) == SelectInSeq(fs, LAMBDA f : f.pa = NoPage)
BusFault(fs) == SelectInSeq(fs, LAMBDA f : ~Handled(f))

\* write_dram_fast and read_dram_fast know four sizes; any other writes
\* nothing, and reads zero.
write_dram_fast(m, f, val) ==
  IF f.size \in Sizes
  THEN [a \in DOMAIN m |-> IF a \in f.pa .. (f.pa + f.size - 1) THEN val[f.from + a - f.pa] ELSE m[a]]
  ELSE m

read_dram_fast(f) ==
  [i \in 1..f.size |-> IF f.size \in Sizes THEN ram[f.pa + i - 1] ELSE 0]

WriteIo(m, f, val) ==
  [a \in DOMAIN m |-> IF a \in f.pa .. (f.pa + f.size - 1) THEN val[f.from + a - f.pa] ELSE m[a]]

MmioInit ==
  /\ ram = [a \in Dram |-> 0]
  /\ io = [a \in IoBytes |-> 0]
  /\ reserved = {}
  /\ last = [op |-> "none"]

\* Mutant: the first fragment is written before the second is translated.
Written_lazily(fs) ==
  IF PageFault(fs) # 0 THEN SubSeq(fs, 1, PageFault(fs) - 1)
  ELSE IF BusFault(fs) # 0 THEN SubSeq(fs, 1, BusFault(fs) - 1) ELSE fs

\* The fragments MMIO::write writes, in order: none when either page faults,
\* otherwise those up to the first that no region answers for.
Written(fs) ==
  IF PageFault(fs) # 0 THEN <<>>
  ELSE IF BusFault(fs) # 0 THEN SubSeq(fs, 1, BusFault(fs) - 1) ELSE fs

write(paging, addr, n) ==
  LET fs == Fragments(paging, addr, n)
      val == Word(n)
      done == Written(fs)
  IN /\ ram' = FoldLeft(LAMBDA m, f : IF InDram(f.pa, f.size) THEN write_dram_fast(m, f, val) ELSE m,
                        ram, done)
     /\ io' = FoldLeft(LAMBDA m, f : IF InDram(f.pa, f.size) THEN m ELSE WriteIo(m, f, val), io, done)
     /\ reserved' = reserved \cup {f.pa : f \in ToSet(done)}
     /\ last' = [op |-> "write", paging |-> paging, addr |-> addr, n |-> n, before |-> ram,
                 fault |-> IF PageFault(fs) # 0 THEN "page" ELSE IF BusFault(fs) # 0 THEN "bus" ELSE "none"]

\* MMIO::read: the second page's bytes are the high ones of the value.
Joined(low, high) == low \o high
read(paging, addr, n) ==
  LET fs == Fragments(paging, addr, n)
      Part(f) == IF InDram(f.pa, f.size) THEN read_dram_fast(f)
                 ELSE [i \in 1..f.size |-> io[f.pa + i - 1]]
      fault == IF PageFault(fs) # 0 THEN "page" ELSE IF BusFault(fs) # 0 THEN "bus" ELSE "none"
  IN /\ last' = [op |-> "read", paging |-> paging, addr |-> addr, n |-> n, fault |-> fault,
                 val |-> IF fault = "none"
                         THEN FoldLeft(LAMBDA acc, f : Joined(acc, Part(f)), <<>>, fs) ELSE <<>>]
     /\ UNCHANGED <<ram, io, reserved>>

MmioNext ==
  \E paging \in BOOLEAN, addr \in Addrs, n \in Sizes :
    \/ last.op = "none" /\ write(paging, addr, n)
    \/ last.op = "write" /\ read(paging, addr, n)

------------------------------------------------------------------------------
(* Properties. *)

\* Where the page tables put the i-th byte of the last access, and what is there.
Where(i) == LET va == last.addr + i - 1 IN IF last.paging THEN translate(va) ELSE va
Byte(i) == IF Where(i) \in Dram THEN ram[Where(i)] ELSE io[Where(i)]

\* Both sides of a page boundary have a size the fast paths know.
Whole ==
  LET first == PAGE - (last.addr % PAGE)
  IN last.paging /\ first < last.n => first \in Sizes /\ last.n - first \in Sizes

\* A store that succeeds puts each byte of its word where the page tables say and
\* nowhere else, and a load that succeeds assembles its bytes in order from both
\* pages, as long as every fragment has a size the fast path knows; a store that
\* takes a page fault on either page has written nothing.
AccessExact ==
  /\ last.op = "write" /\ last.fault = "none" /\ Whole =>
       /\ \A i \in 1..last.n : Byte(i) = i
       /\ \A a \in Dram \ {Where(i) : i \in 1..last.n} : ram[a] = last.before[a]
  /\ last.op = "read" /\ last.fault = "none" /\ Whole =>
       \A i \in 1..last.n : last.val[i] = Byte(i)
  /\ last.op = "write" /\ last.fault = "page" => ram = last.before

\* Every byte of a successful store lands, whatever the fragments' sizes:
\* what the comments on the two fragments in MMIO::write say.
StoredBytesLand ==
  last.op = "write" /\ last.fault = "none" => \A i \in 1..last.n : Byte(i) = i
=============================================================================
