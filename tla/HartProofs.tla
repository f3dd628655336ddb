----------------------------- MODULE HartProofs -----------------------------
(***************************************************************************)
(* Proofs about a hart: its traps (Hart), for every set of interrupt       *)
(* numbers; its polling (Cadence), for every quarter Q and every length of *)
(* blocks and chains that CadenceAssumption allows; and the pairing of LR  *)
(* and SC (LrSc), for every set of harts and size of memory.               *)
(***************************************************************************)
EXTENDS Hart, Cadence, LrSc, TLAPS

------------------------------------------------------------------------------
(* Traps. *)

\* The frames and MPRV need the types, and nothing else: together they are inductive.
FrameInv == TypeOK /\ FramesKept /\ MprvOnlyInMachine

\* The facts about modes and addresses the steps need, with both sets kept opaque.
LEMMA Constants ==
  /\ "code" \in Addresses /\ "tvec" \in Addresses /\ "tvec+4" \in Addresses
  /\ User \in Modes /\ Supervisor \in Modes /\ Machine \in Modes
  /\ Modes \subseteq MppValues
  /\ Machine # Supervisor /\ Machine # User /\ Supervisor # User
  /\ \A m \in Modes : m # Machine => m = Supervisor \/ m = User
  /\ \A m \in Modes : m >= Machine => m = Machine
  <1>1. /\ "code" \in Addresses /\ "tvec" \in Addresses /\ "tvec+4" \in Addresses
    BY DEF Addresses
  <1> QED BY <1>1 DEF Modes, MppValues, User, Supervisor, Machine

\* A trap records in MPP/MPIE or in SPP/SPIE what it interrupts, leaves the other
\* pair alone and clears MPRV (hart.cpp:198-243).
LEMMA TrapStep ==
  ASSUME FrameInv,
         NEW d \in BOOLEAN, NEW m \in Modes, NEW mie \in BOOLEAN, NEW sie \in BOOLEAN,
         NEW at \in Addresses, NEW next \in Addresses,
         trap(d, m, mie, sie, at, next)
  PROVE  FrameInv'
  <1> USE Constants DEF FrameInv, TypeOK, FramesKept, MprvOnlyInMachine, trap,
                        mlevel, slevel, ints
  <1>1. CASE delegate_to_s(m, d)
    <2>1. SPP' \in BOOLEAN /\ m = IF SPP' THEN Supervisor ELSE User
      BY <1>1 DEF delegate_to_s
    <2>2. sframe' = {<<m, sie>>} /\ SPIE' = sie
      BY <1>1
    <2>3. sframe' \subseteq Modes \X BOOLEAN
      BY <2>2
    <2>4. FramesKept'
      BY <1>1, <2>1, <2>2
    <2>5. TypeOK' /\ MprvOnlyInMachine'
      BY <1>1, <2>1, <2>3
    <2> QED BY <2>4, <2>5
  <1>2. CASE ~delegate_to_s(m, d)
    <2>1. mframe' = {<<m, mie>>} /\ MPIE' = mie /\ MPP' = m
      BY <1>2
    <2>2. mframe' \subseteq Modes \X BOOLEAN
      BY <2>1
    <2>3. FramesKept'
      BY <1>2, <2>1
    <2>4. TypeOK' /\ MprvOnlyInMachine'
      BY <1>2, <2>1, <2>2
    <2> QED BY <2>3, <2>4
  <1> QED BY <1>1, <1>2

\* Every step of the hart preserves FrameInv.
LEMMA FrameStep == FrameInv /\ [Next]_vars => FrameInv'
  <1> SUFFICES ASSUME FrameInv, [Next]_vars PROVE FrameInv'
    OBVIOUS
  <1>0. mode \in Modes /\ MIE \in BOOLEAN /\ SIE \in BOOLEAN /\ pc \in Addresses
    BY DEF FrameInv, TypeOK
  <1>1. CASE check_ints
    <2>1. (Chosen \in mideleg) \in BOOLEAN /\ "tvec" \in Addresses
      BY Constants
    <2> QED BY <1>0, <1>1, <2>1, TrapStep, Zenon DEF check_ints
  <1>2. CASE exception
    BY <1>0, <1>2, TrapStep, Constants DEF exception
  <1>3. ASSUME NEW d \in BOOLEAN, NEW w \in BOOLEAN, fcsr_denied(d, w)
        PROVE  FrameInv'
    <2>1. CASE ~w
      BY <1>0, <1>3, <2>1, TrapStep, Constants DEF fcsr_denied
    <2>2. CASE w /\ delegate_to_s(mode, d)
      <3>1. trap(d, Supervisor, FALSE, FALSE, "tvec", "tvec+4") /\ FALSE \in BOOLEAN
        BY <1>3, <2>2, Zenon DEF fcsr_denied
      <3> QED BY <3>1, TrapStep, Constants, Zenon
    <2>3. CASE w /\ ~delegate_to_s(mode, d)
      <3>1. trap(d, Machine, FALSE, FALSE, "tvec", "tvec+4") /\ FALSE \in BOOLEAN
        BY <1>3, <2>3, Zenon DEF fcsr_denied
      <3> QED BY <3>1, TrapStep, Constants, Zenon
    <2> QED BY <2>1, <2>2, <2>3
  <1> USE Constants DEF FrameInv, TypeOK, FramesKept, MprvOnlyInMachine, mlevel, slevel, ints
  <1>4. CASE wake \/ retire \/ exec_WFI
    <2>1. WFI' \in BOOLEAN
      BY <1>4 DEF wake, retire, exec_WFI
    <2>2. /\ UNCHANGED <<mode, mlevel, slevel, MPRV, ints>>
          /\ pc' \in Addresses
      BY <1>4 DEF wake, retire, exec_WFI
    <2> QED BY <2>1, <2>2
  <1>5. CASE exec_MRET
    <2>1. MPRV' \in BOOLEAN /\ (MPRV' => MPRV /\ MPP \notin {User, Supervisor})
      BY <1>5 DEF exec_MRET
    <2>2. mode' \in Modes /\ (mode = Machine => mode' \in {MPP, Machine})
      BY <1>5 DEF exec_MRET
    <2> QED BY <1>5, <2>1, <2>2 DEF exec_MRET
  <1>6. CASE exec_SRET
    BY <1>6 DEF exec_SRET
  <1>7. ASSUME NEW w \in StatusWrites, csr_write_mstatus(w)
        PROVE  FrameInv'
    <2>1. w \in AllStatus
      BY StatusAssumption
    <2>2. mode = Machine
      BY <1>0, <1>7, Zenon DEF csr_write_mstatus, csr_allowed
    <2> QED BY <1>7, <2>1, <2>2 DEF csr_write_mstatus, AllStatus
  <1>8. ASSUME NEW sie \in BOOLEAN, NEW spie \in BOOLEAN, NEW spp \in BOOLEAN,
               csr_write_sstatus(sie, spie, spp)
        PROVE  FrameInv'
    BY <1>8 DEF csr_write_sstatus
  <1>9. ASSUME NEW i \in SUBSET Interrupts, NEW e \in SUBSET Interrupts, NEW g \in SUBSET Interrupts,
               csr_write_m(i, e, g)
        PROVE  FrameInv'
    BY <1>9 DEF csr_write_m
  <1>10. ASSUME NEW i \in SUBSET SE_MASK, NEW e \in SUBSET SE_MASK, csr_write_s(i, e)
         PROVE  FrameInv'
    BY <1>10 DEF csr_write_s, SE_MASK
  <1>11. CASE csr_write_mepc \/ csr_write_sepc
    BY <1>11 DEF csr_write_mepc, csr_write_sepc
  <1>12. ASSUME NEW i \in Interrupts, interrupt_line(i)
         PROVE  FrameInv'
    BY <1>12 DEF interrupt_line
  <1>13. CASE UNCHANGED vars
    BY <1>13 DEF vars
  <1>14. CASE \E v \in SUBSET Interrupts : \/ csr_write_m(v, ie, mideleg)
                                     \/ csr_write_m(ip, v, mideleg)
                                     \/ csr_write_m(ip, ie, v)
    BY <1>9, <1>14
  <1>15. CASE \E v \in SUBSET SE_MASK : \/ csr_write_s(v, ie \cap SE_MASK)
                                        \/ csr_write_s(ip \cap SE_MASK, v)
    BY <1>10, <1>15
  <1> HIDE Constants DEF FrameInv, TypeOK, FramesKept, MprvOnlyInMachine
  <1> QED
    BY <1>1, <1>2, <1>3, <1>4, <1>5, <1>6, <1>7, <1>8, <1>11, <1>12, <1>13, <1>14, <1>15
    DEF Next

\* The frames, the type and MPRV hold together in every state of the hart.
LEMMA FrameAlways == Spec => []FrameInv
  <1>1. Init => FrameInv
    BY Constants DEF Init, FrameInv, TypeOK, FramesKept, MprvOnlyInMachine
  <1> QED BY <1>1, FrameStep, PTL DEF Spec

\* The hart keeps its type (mode included), the frames of its trap handlers, and
\* MPRV down outside machine mode, in every run (hart.cpp:198-332, priv.cpp:29-75).
THEOREM HartFrames == Spec => [](TypeOK /\ FramesKept /\ MprvOnlyInMachine)
  <1>1. FrameInv => TypeOK /\ FramesKept /\ MprvOnlyInMachine
    BY DEF FrameInv
  <1> QED BY <1>1, FrameAlways, PTL

\* int_local_pending is true whenever check_ints would take an interrupt: sleeping
\* in WFI never hides one (hart.cpp:144-196).
THEOREM HartWakes == Spec => []WakesForTakable
  <1>1. FrameInv => WakesForTakable
    BY DEF FrameInv, TypeOK, Modes, User, Supervisor, Machine,
           WakesForTakable, Takable, PendingM, PendingS, int_local_pending
  <1> QED BY <1>1, FrameAlways, PTL

------------------------------------------------------------------------------
(* Polling. *)

\* What has been retired since the last look fits under the current position in the
\* period, one full period for each skipped poll aside; a tick may also stand on
\* the boundary itself, where the next step looks.
CadenceInv ==
  /\ CadenceTypeOK
  /\ \/ since <= instret + slack
     \/ instret = 0 /\ since <= 4 * Q + slack

\* A step that retires n instructions without a poll after them stays in the bound
\* when it does not pass the boundary.
LEMMA Advance ==
  ASSUME CadenceInv
  PROVE  polled_since \in Nat /\ polled_slack \in Nat /\ polled_since <= instret + polled_slack
  BY CadenceAssumption DEF CadenceInv, CadenceTypeOK, polled_since, polled_slack, masked

\* A dispatch of n instructions, by the interpreter or by a chain of compiled blocks,
\* leaves the counter within the window in which a poll is still owed.
LEMMA DispatchStep ==
  ASSUME CadenceInv, NEW n \in Nat, n < 4 * Q, dispatch(n)
  PROVE  CadenceInv'
  <1>1. CASE carries(n)
    BY <1>1, CadenceAssumption DEF CadenceInv, CadenceTypeOK, dispatch, WrapInstret
  <1>2. CASE ~carries(n)
    <2>1. instret + n < 4 * Q
      BY <1>2, CadenceAssumption DEF CadenceInv, CadenceTypeOK, carries, masked
    <2> QED BY <1>2, <2>1, Advance, CadenceAssumption DEF CadenceInv, CadenceTypeOK, dispatch, WrapInstret
  <1> QED BY <1>1, <1>2

\* Every step of the dispatch loop keeps that window: a dispatch, a block that faults
\* and a tick.
LEMMA CadenceStep == CadenceInv /\ [CadenceNext]_cadenceVars => CadenceInv'
  <1> SUFFICES ASSUME CadenceInv, [CadenceNext]_cadenceVars PROVE CadenceInv'
    OBVIOUS
  <1>1. CASE run_blocks \/ jit_chain
    BY <1>1, DispatchStep, CadenceAssumption DEF run_blocks, jit_chain
  <1>2. CASE run_block_fault
    BY <1>2, Advance, CadenceAssumption DEF run_block_fault, CadenceInv, CadenceTypeOK, WrapInstret
  <1>3. CASE tick
    BY <1>3, Advance, CadenceAssumption DEF tick, CadenceInv, CadenceTypeOK, WrapInstret
  <1>4. CASE UNCHANGED cadenceVars
    BY <1>4 DEF cadenceVars, CadenceInv, CadenceTypeOK
  <1> QED BY <1>1, <1>2, <1>3, <1>4 DEF CadenceNext

\* The hart polls at least once per period, for every period length, block length and
\* chain length the code's constants can take; only faults on the boundary add to it
\* (hart.cpp:103-142, block.cpp:175-455).
THEOREM CadencePollBound == CadenceSpec => [](CadenceTypeOK /\ PollBound)
  <1>1. CadenceInit => CadenceInv
    BY CadenceAssumption DEF CadenceInit, CadenceInv, CadenceTypeOK
  <1>2. CadenceInv => CadenceTypeOK /\ PollBound
    BY CadenceAssumption DEF CadenceInv, CadenceTypeOK, PollBound
  <1> QED BY <1>1, <1>2, CadenceStep, PTL DEF CadenceSpec

------------------------------------------------------------------------------
(* LR and SC.  The invariant: a valid reservation names the bytes of the armed LR and
   its base has not been overwritten. *)

Reservations == [paddr : Nat, size : Nat, valid : BOOLEAN]

ReservationInv ==
  /\ reservation \in [Harts -> Reservations]
  /\ armed \in [Harts -> SUBSET (Paddrs \X Sizes)]
  /\ overwritten \in [Harts -> SUBSET Paddrs]
  /\ \A h \in Harts : reservation[h].valid =>
       /\ armed[h] = {<<reservation[h].paddr, reservation[h].size>>}
       /\ reservation[h].paddr \notin overwritten[h]

\* A reservation that survives the check of MMIO::write begins below the address stored
\* to: its first word is not among the words stored.
LEMMA CheckReservation ==
  ASSUME NEW r \in Reservations, NEW pa \in Paddrs, NEW size \in Sizes
  PROVE  LET s == amo_check_reservation(r, pa)
         IN  /\ s \in Reservations
             /\ s.valid => s = r /\ r.paddr \notin WordsAt(pa, size)
<1> DEFINE s == amo_check_reservation(r, pa)
<1>1. s \in Reservations
  BY DEF Reservations, amo_check_reservation
<1>2. s.valid => s = r /\ ~(r.paddr >= pa /\ pa <= r.paddr + r.size)
  BY DEF Reservations, amo_check_reservation
<1>3. pa \in Nat /\ r.paddr \in Nat /\ r.size \in Nat
  BY LrScAssumption DEF Paddrs, Reservations
<1>4. ~(r.paddr >= pa /\ pa <= r.paddr + r.size) => r.paddr \notin WordsAt(pa, size)
  BY <1>3 DEF WordsAt
<1>. QED BY <1>1, <1>2, <1>4

\* Every step of a hart keeps its reservation tied to the armed LR.
LEMMA ReservationStep ==
  ASSUME ReservationInv, [LrScNext]_lrscVars
  PROVE  ReservationInv'
<1> USE DEF ReservationInv
<1>1. ASSUME NEW h \in Harts, trap_lrsc(h) PROVE ReservationInv'
  BY <1>1 DEF trap_lrsc, Reservations
<1>2. ASSUME NEW h \in Harts, NEW pa \in Paddrs, NEW size \in Sizes, AMO_LR(h, pa, size)
      PROVE  ReservationInv'
  <2>1. pa \in Nat /\ size \in Nat
    BY LrScAssumption DEF Paddrs, Sizes
  <2>. QED BY <1>2, <2>1 DEF AMO_LR, Reservations
<1>3. ASSUME NEW h \in Harts, NEW pa \in Paddrs, NEW size \in Sizes, AMO_SC(h, pa, size)
      PROVE  ReservationInv'
  BY <1>3 DEF AMO_SC, Reservations
<1>4. ASSUME NEW h \in Harts, NEW pa \in Paddrs, NEW size \in Sizes, mmio_write(h, pa, size)
      PROVE  ReservationInv'
  <2> DEFINE s == amo_check_reservation(reservation[h], pa)
  <2>1. s \in Reservations /\ (s.valid => s = reservation[h]
                                          /\ reservation[h].paddr \notin WordsAt(pa, size))
    BY CheckReservation
  <2>2. WordsAt(pa, size) \subseteq Paddrs
    BY DEF WordsAt
  <2>3. reservation' = [reservation EXCEPT ![h] = s]
    BY <1>4 DEF mmio_write
  <2> HIDE DEF s
  <2>. QED BY <1>4, <2>1, <2>2, <2>3 DEF mmio_write
<1>5. CASE UNCHANGED lrscVars
  BY <1>5 DEF lrscVars
<1>. QED BY <1>1, <1>2, <1>3, <1>4, <1>5 DEF LrScNext

\* An SC succeeds only as the partner of one LR, over a first word its hart has not
\* stored to since, however the harts' LRs, SCs, stores and traps interleave
\* (rv64a.cpp:22-72, hart.hpp:246-252).
THEOREM LrScPaired == LrScSpec => []ScPaired
<1>1. LrScInit => ReservationInv
  BY DEF LrScInit, ReservationInv, Reservations
<1>2. ReservationInv => ScPaired
  BY DEF ReservationInv, ScPaired, sc_succeeds
<1>. QED BY <1>1, <1>2, ReservationStep, PTL DEF LrScSpec
=============================================================================
