-------------------------------- MODULE LrSc --------------------------------
(***************************************************************************)
(* Load-reserved and store-conditional (src/sets/rv64a.cpp), and what      *)
(* stores and traps do to the reservation (include/hart.hpp                *)
(* amo_check_reservation, called by MMIO::write; src/hart.cpp trap).       *)
(*                                                                         *)
(* Addresses count words of four bytes, so lr.w and sc.w have size 1 and   *)
(* lr.d and sc.d size 2.  The harts take turns on one thread, so an        *)
(* instruction is one step.  Three things change nothing here, and are no  *)
(* actions: a store of compiled code that hits the TLB (emit_store), a     *)
(* store of another hart, and a machine reset, which builds the harts anew *)
(* in storage it does not clear.                                           *)
(***************************************************************************)
EXTENDS Naturals

CONSTANTS
  Harts,
  MemWords       \* the number of words of memory

ASSUME LrScAssumption == MemWords \in Nat

Paddrs == 0 .. MemWords - 1
Sizes  == {1, 2}

VARIABLES
  reservation,
  armed,       \* history: the LR since the last SC or trap of the hart, {} if there is none
  overwritten  \* history: the words the hart has stored to by MMIO::write since then

lrscVars == <<reservation, armed, overwritten>>

\* No constructor sets the reservation: the storage of the first harts is zero pages.
LrScInit ==
  /\ reservation = [h \in Harts |-> [paddr |-> 0, size |-> 0, valid |-> FALSE]]
  /\ armed = [h \in Harts |-> {}]
  /\ overwritten = [h \in Harts |-> {}]
-----------------------------------------------------------------------------
WordsAt(pa, size) == {word \in Paddrs : pa <= word /\ word < pa + size}

\* Mutant of amo_check_reservation: a store to the base itself is let through.
amo_check_reservation_above(r, pa) ==
  IF r.valid /\ r.paddr > pa /\ pa <= r.paddr + r.size THEN [r EXCEPT !.valid = FALSE] ELSE r

amo_check_reservation(r, pa) ==
  IF r.valid /\ r.paddr >= pa /\ pa <= r.paddr + r.size THEN [r EXCEPT !.valid = FALSE] ELSE r

AMO_LR(h, pa, size) ==
  /\ reservation' = [reservation EXCEPT ![h] = [paddr |-> pa, size |-> size, valid |-> TRUE]]
  /\ armed' = [armed EXCEPT ![h] = {<<pa, size>>}]
  /\ overwritten' = [overwritten EXCEPT ![h] = {}]

\* Whether the SC of h to these bytes stores.
sc_succeeds(h, pa, size) ==
  reservation[h].valid /\ reservation[h].paddr = pa /\ reservation[h].size = size

\* The store of a successful SC goes through MMIO::write, and either outcome drops the
\* reservation.
AMO_SC(h, pa, size) ==
  /\ reservation' = [reservation EXCEPT ![h].valid = FALSE]
  /\ armed' = [armed EXCEPT ![h] = {}]
  /\ overwritten' = [overwritten EXCEPT ![h] = {}]

\* MMIO::write of a store or an AMO: only the hart that stores is asked.
mmio_write(h, pa, size) ==
  /\ reservation' = [reservation EXCEPT ![h] = amo_check_reservation(@, pa)]
  /\ overwritten' = [overwritten EXCEPT ![h] = IF armed[h] = {} THEN {} ELSE @ \cup WordsAt(pa, size)]
  /\ UNCHANGED armed

\* Hart::trap drops the reservation.
trap_lrsc(h) ==
  /\ reservation' = [reservation EXCEPT ![h].valid = FALSE]
  /\ armed' = [armed EXCEPT ![h] = {}]
  /\ overwritten' = [overwritten EXCEPT ![h] = {}]

LrScNext ==
  \/ \E h \in Harts : trap_lrsc(h)
  \/ \E h \in Harts, pa \in Paddrs, size \in Sizes :
       \/ AMO_LR(h, pa, size) \/ AMO_SC(h, pa, size)
       \/ mmio_write(h, pa, size)

LrScSpec == LrScInit /\ [][LrScNext]_lrscVars
-----------------------------------------------------------------------------
\* An SC succeeds only as the partner of one LR: the last one of its hart, to the same
\* bytes, with no trap and no other SC, failed ones included, in between
\* (rv64a.cpp:22-72, hart.cpp:200), and only while MMIO::write has not overwritten, for
\* the same hart, the first word it is about to replace (hart.hpp:246-252, mmio.cpp:64).
ScPaired ==
  \A h \in Harts, pa \in Paddrs, size \in Sizes :
    sc_succeeds(h, pa, size) => armed[h] = {<<pa, size>>} /\ pa \notin overwritten[h]

\* "Clears reservation if defined address is within CPU reservation address"
\* (hart.hpp:243): after MMIO::write of a hart into the reserved bytes its SC fails.
StoreInsideClears ==
  \A h \in Harts, pa \in Paddrs, size \in Sizes :
    sc_succeeds(h, pa, size) => WordsAt(pa, size) \cap overwritten[h] = {}
=============================================================================
