-------------------------------- MODULE Hart --------------------------------
(***************************************************************************)
(* Privilege modes, traps and interrupts of one hart (src/hart.cpp,        *)
(* src/sets/priv.cpp, src/sets/zicsr.cpp).                                 *)
(*                                                                         *)
(* ip, ie and mideleg are sets of interrupt numbers.  Addresses are        *)
(* abstract: "code" is some instruction of the guest, "tvec" the first one *)
(* of a trap handler.  The cadence at which the run loop looks for         *)
(* interrupts is in Cadence; here it may look before every instruction.    *)
(***************************************************************************)
EXTENDS Naturals, FiniteSets

CONSTANTS Interrupts,      \* the interrupt numbers in play
          StatusWrites     \* the values the guest writes to mstatus

User       == 0
Supervisor == 1
Machine    == 3
Modes == {User, Supervisor, Machine}

\* SE_MASK: the supervisor's bits of ip and ie.
SE_MASK == Interrupts \cap {1, 5, 9}

\* mstatus.MPP is two bits wide, and 2 is no mode of this hart.
MppValues == 0 .. 3

AllStatus == [mie : BOOLEAN, mpie : BOOLEAN, mpp : MppValues, mprv : BOOLEAN,
              sie : BOOLEAN, spie : BOOLEAN, spp : BOOLEAN]

ASSUME IrqsAssumption == Interrupts \subseteq {1, 3, 5, 7, 9, 11}
ASSUME StatusAssumption == StatusWrites \subseteq AllStatus

Addresses == {"code", "tvec", "tvec+4"}

VARIABLES
  mode, WFI, pc,
  MIE, MPIE, MPP, mepc,     \* what a trap into machine mode saves
  SIE, SPIE, SPP, sepc,     \* what a trap into supervisor mode saves
  MPRV,
  ip, ie, mideleg,
  mframe,   \* history: {} or the mode and enable the last trap into machine mode interrupted
  sframe    \* history: the same for supervisor mode

mlevel == <<MIE, MPIE, MPP, mepc, mframe>>
slevel == <<SIE, SPIE, SPP, sepc, sframe>>
ints   == <<ip, ie, mideleg>>
vars   == <<mode, WFI, pc, mlevel, slevel, MPRV, ints>>

\* Hart::Hart and Hart::init: machine mode at the entry point.  The other registers
\* keep what the storage held: zero pages at first, the previous guest's after a reset.
Init ==
  /\ mode = Machine /\ WFI = FALSE /\ pc = "code"
  /\ MIE \in BOOLEAN /\ MPIE \in BOOLEAN /\ MPP \in MppValues /\ mepc = "code"
  /\ SIE \in BOOLEAN /\ SPIE \in BOOLEAN /\ SPP \in BOOLEAN /\ sepc = "code"
  /\ MPRV \in BOOLEAN
  /\ ip \in SUBSET Interrupts /\ ie \in SUBSET Interrupts /\ mideleg \in SUBSET Interrupts
  /\ mframe = {} /\ sframe = {}
-----------------------------------------------------------------------------
\* A trap never goes to the supervisor from machine mode.
delegate_to_s(prev_mode, delegated) == prev_mode # Machine /\ delegated

\* Mutant of trap: the enable bit is cleared before it is saved.
trap_swapped(delegated, prev_mode, mie, sie, trap_pc, next_pc) ==
  /\ WFI' = FALSE /\ MPRV' = FALSE /\ pc' = next_pc
  /\ IF delegate_to_s(prev_mode, delegated)
     THEN /\ mode' = Supervisor
          /\ sepc' = trap_pc /\ SPIE' = FALSE /\ SIE' = FALSE /\ SPP' = (prev_mode # User)
          /\ sframe' = {<<prev_mode, sie>>}
          /\ UNCHANGED mlevel
     ELSE /\ mode' = Machine
          /\ mepc' = trap_pc /\ MPIE' = FALSE /\ MIE' = FALSE /\ MPP' = prev_mode
          /\ mframe' = {<<prev_mode, mie>>}
          /\ UNCHANGED slevel
  /\ UNCHANGED ints

\* Hart::trap at trap_pc out of prev_mode and its interrupt enables, for a cause whose
\* bit of medeleg or mideleg is `delegated'; execution goes on at next_pc.
trap(delegated, prev_mode, mie, sie, trap_pc, next_pc) ==
  /\ WFI' = FALSE /\ MPRV' = FALSE /\ pc' = next_pc
  /\ IF delegate_to_s(prev_mode, delegated)
     THEN /\ mode' = Supervisor
          /\ sepc' = trap_pc /\ SPIE' = sie /\ SIE' = FALSE /\ SPP' = (prev_mode # User)
          /\ sframe' = {<<prev_mode, sie>>}
          /\ UNCHANGED mlevel
     ELSE /\ mode' = Machine
          /\ mepc' = trap_pc /\ MPIE' = mie /\ MIE' = FALSE /\ MPP' = prev_mode
          /\ mframe' = {<<prev_mode, mie>>}
          /\ UNCHANGED slevel
  /\ UNCHANGED ints

\* What check_ints would take: for machine mode first, then for the supervisor.
PendingM == IF mode < Machine \/ MIE THEN (ip \cap ie) \ mideleg ELSE {}
PendingS == IF mode = User \/ (mode = Supervisor /\ SIE)
            THEN ip \cap ie \cap mideleg \cap SE_MASK
            ELSE {}
Takable  == IF PendingM # {} THEN PendingM ELSE PendingS

\* The highest bit wins (63 - clz).
Chosen == CHOOSE i \in Takable : \A j \in Takable : j <= i

\* Mutant of int_local_pending: delegated interrupts are forgotten.
int_local_pending_m == (ip \cap ie) \ mideleg # {}

int_local_pending ==
  \/ (ip \cap ie) \ mideleg # {}
  \/ mode <= Supervisor /\ ip \cap ie \cap SE_MASK \cap mideleg # {}
-----------------------------------------------------------------------------
check_ints ==
  /\ Takable # {}
  /\ trap(Chosen \in mideleg, mode, MIE, SIE, pc, "tvec")

\* The run loop turns to a sleeping hart.
wake ==
  /\ WFI /\ int_local_pending
  /\ WFI' = FALSE
  /\ UNCHANGED <<mode, pc, mlevel, slevel, MPRV, ints>>

\* Any other instruction.
retire ==
  /\ ~WFI
  /\ pc' = "code"
  /\ UNCHANGED <<mode, WFI, mlevel, slevel, MPRV, ints>>

\* An exception, also that of an illegal instruction below; medeleg decides.
exception ==
  /\ ~WFI
  /\ \E delegated \in BOOLEAN : trap(delegated, mode, MIE, SIE, pc, "tvec")

\* exec_MRET: no mode is asked for, and MPP = 2 leaves the mode as it is.
exec_MRET ==
  /\ ~WFI
  /\ pc' = mepc
  /\ mode' = IF MPP \in Modes THEN MPP ELSE mode
  /\ MPRV' = (MPRV /\ MPP \notin {User, Supervisor})
  /\ MIE' = MPIE /\ MPIE' = TRUE /\ MPP' = User
  /\ mframe' = {}
  /\ UNCHANGED <<WFI, mepc, slevel, ints>>

\* exec_SRET, when TSR does not make it illegal.
exec_SRET ==
  /\ ~WFI /\ mode # User
  /\ pc' = sepc /\ MPRV' = FALSE
  /\ mode' = IF SPP THEN Supervisor ELSE User
  /\ SIE' = SPIE /\ SPIE' = TRUE /\ SPP' = FALSE
  /\ sframe' = {}
  /\ UNCHANGED <<WFI, sepc, mlevel, ints>>

\* exec_WFI, when TW does not make it illegal: with something pending it is a nop.
exec_WFI ==
  /\ ~WFI
  /\ WFI' = (ip \cap ie = {})
  /\ pc' = "code"
  /\ UNCHANGED <<mode, mlevel, slevel, MPRV, ints>>
-----------------------------------------------------------------------------
(***************************************************************************)
(* The CSR instructions: csr_accessible, then csr_write.                   *)
(***************************************************************************)
csr_allowed(csr_level) == mode >= csr_level

csr_write_mstatus(w) ==
  /\ ~WFI /\ csr_allowed(Machine)
  /\ MIE' = w.mie /\ MPIE' = w.mpie /\ MPP' = w.mpp /\ MPRV' = w.mprv
  /\ SIE' = w.sie /\ SPIE' = w.spie /\ SPP' = w.spp
  /\ pc' = "code"
  /\ mframe' = {} /\ sframe' = {}
  /\ UNCHANGED <<mode, WFI, mepc, sepc, ints>>

\* Only the bits of SSTATUS_MASK.
csr_write_sstatus(sie, spie, spp) ==
  /\ ~WFI /\ csr_allowed(Supervisor)
  /\ SIE' = sie /\ SPIE' = spie /\ SPP' = spp
  /\ pc' = "code"
  /\ sframe' = {}
  /\ UNCHANGED <<mode, WFI, mlevel, sepc, MPRV, ints>>

\* mip, mie and mideleg: whole.
csr_write_m(newip, newie, newdeleg) ==
  /\ ~WFI /\ csr_allowed(Machine)
  /\ ip' = newip /\ ie' = newie /\ mideleg' = newdeleg
  /\ pc' = "code"
  /\ UNCHANGED <<mode, WFI, mlevel, slevel, MPRV>>

\* sip and sie: the bits of SE_MASK.
csr_write_s(newip, newie) ==
  /\ ~WFI /\ csr_allowed(Supervisor)
  /\ ip' = (ip \ SE_MASK) \cup newip
  /\ ie' = (ie \ SE_MASK) \cup newie
  /\ pc' = "code"
  /\ UNCHANGED <<mode, WFI, mideleg, mlevel, slevel, MPRV>>

\* The handler moves its return address.
csr_write_mepc ==
  /\ ~WFI /\ csr_allowed(Machine)
  /\ mepc' = "code" /\ pc' = "code"
  /\ UNCHANGED <<mode, WFI, MIE, MPIE, MPP, mframe, slevel, MPRV, ints>>

csr_write_sepc ==
  /\ ~WFI /\ csr_allowed(Supervisor)
  /\ sepc' = "code" /\ pc' = "code"
  /\ UNCHANGED <<mode, WFI, SIE, SPIE, SPP, sframe, mlevel, MPRV, ints>>

\* fcsr, fflags or frm with FS = 0: csr_read traps; when the instruction also writes,
\* csr_write traps again, out of the handler; and then the instruction succeeds and
\* steps over four bytes.
fcsr_denied(delegated, writes) ==
  /\ ~WFI
  /\ IF writes
     THEN trap(delegated, IF delegate_to_s(mode, delegated) THEN Supervisor ELSE Machine,
               FALSE, FALSE, "tvec", "tvec+4")
     ELSE trap(delegated, mode, MIE, SIE, pc, "tvec+4")

\* The CLINT and the PLIC drive ip.
interrupt_line(i) ==
  /\ ip' = IF i \in ip THEN ip \ {i} ELSE ip \cup {i}
  /\ UNCHANGED <<mode, WFI, pc, mlevel, slevel, MPRV, ie, mideleg>>

Next ==
  \/ check_ints \/ wake \/ retire \/ exception
  \/ exec_MRET \/ exec_SRET \/ exec_WFI
  \/ \E w \in StatusWrites : csr_write_mstatus(w)
  \/ \E sie, spie, spp \in BOOLEAN : csr_write_sstatus(sie, spie, spp)
  \/ \E v \in SUBSET Interrupts : \/ csr_write_m(v, ie, mideleg)
                            \/ csr_write_m(ip, v, mideleg)
                            \/ csr_write_m(ip, ie, v)
  \/ \E v \in SUBSET SE_MASK : \/ csr_write_s(v, ie \cap SE_MASK)
                               \/ csr_write_s(ip \cap SE_MASK, v)
  \/ csr_write_mepc \/ csr_write_sepc
  \/ \E delegated, writes \in BOOLEAN : fcsr_denied(delegated, writes)
  \/ \E i \in Interrupts : interrupt_line(i)

Spec == Init /\ [][Next]_vars
-----------------------------------------------------------------------------
\* The hart stays in one of its three modes, whatever MPP holds at a return.
TypeOK ==
  /\ mode \in Modes /\ pc \in Addresses /\ mepc \in Addresses /\ sepc \in Addresses
  /\ WFI \in BOOLEAN /\ MPRV \in BOOLEAN
  /\ MIE \in BOOLEAN /\ MPIE \in BOOLEAN /\ MPP \in MppValues
  /\ SIE \in BOOLEAN /\ SPIE \in BOOLEAN /\ SPP \in BOOLEAN
  /\ ip \subseteq Interrupts /\ ie \subseteq Interrupts /\ mideleg \subseteq Interrupts
  /\ mframe \subseteq Modes \X BOOLEAN /\ sframe \subseteq Modes \X BOOLEAN

\* A trap handler that does not write the status register of its level, and is not
\* interrupted by another trap into that level, returns to the mode and the
\* interrupt enable its trap interrupted, whatever the other level does meanwhile:
\* the MPP/MPIE and SPP/SPIE pairs hold the frame (hart.cpp:198-243, priv.cpp:29-75).
FramesKept ==
  /\ mframe \subseteq {<<MPP, MPIE>>}
  /\ sframe \subseteq {<<IF SPP THEN Supervisor ELSE User, SPIE>>}

\* Loads and stores borrow another mode's privilege only in machine mode: MPRV is
\* down in the other modes, by traps and by every way out of machine mode
\* (hart.cpp:217, priv.cpp:32-45, 60).
MprvOnlyInMachine == MPRV => mode = Machine

\* A sleeping hart sleeps through nothing that check_ints would take: the two
\* functions read ip, ie, mideleg and the mode differently (hart.cpp:144-196).
WakesForTakable == Takable # {} => int_local_pending

\* An instruction that traps leaves the pc at the first instruction of the handler
\* and its own address in the exception pc (block.cpp:85-86).
TrapsArePrecise ==
  [][\A delegated, writes \in BOOLEAN :
       fcsr_denied(delegated, writes) =>
         /\ pc' = "tvec"
         /\ (IF mode' = Machine THEN mepc' ELSE sepc') = pc]_vars
=============================================================================
