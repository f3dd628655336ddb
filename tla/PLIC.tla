-------------------------------- MODULE PLIC --------------------------------
(***************************************************************************)
(* The platform-level interrupt controller (src/devices/plic.cpp).         *)
(*                                                                         *)
(* Devices raise and lower numbered sources with set_pending.  Every hart  *)
(* has two contexts (2h for machine mode, 2h+1 for supervisor mode).  The  *)
(* guest programs priorities, enables and thresholds, claims the best      *)
(* pending source of a context and completes it.  The controller drives    *)
(* one line per context into the hart's ip register, and it does so on     *)
(* the edges of the line only.                                             *)
(*                                                                         *)
(* Every handler is one action: reads and writes come from the guest on    *)
(* the work thread, and so do most set_pending calls.                      *)
(***************************************************************************)
EXTENDS Naturals

CONSTANTS
  NumHarts,     \* cpu.get_hart_count()
  MaxSources,   \* max_sources, 64 in init_auto
  WordBits,     \* bits of a pending or enable word, 32
  NumIrqs,      \* how many sources devices acquired with acquire_irq
  PrioLimit     \* priorities and thresholds are masked to 31 bits: PrioLimit = 2^31

ASSUME NumHartsAssumption   == NumHarts \in 1 .. 64
ASSUME MaxSourcesAssumption == MaxSources \in Nat \ {0}
ASSUME WordBitsAssumption   == WordBits \in Nat \ {0}
ASSUME NumIrqsAssumption    == NumIrqs \in 0 .. MaxSources
ASSUME PrioLimitAssumption  == PrioLimit \in Nat \ {0}

Contexts == 0 .. 2 * NumHarts - 1

Sources == 1 .. MaxSources

\* acquire_irq hands out 1, 2, 3, ... to the devices as they are built.
Irqs == 1 .. NumIrqs

\* The words of the pending and enable vectors, and the ids each word holds.
Words == 0 .. ((MaxSources + WordBits - 1) \div WordBits) - 1
WordIds(w) == {i \in 0 .. MaxSources + WordBits : i \div WordBits = w}

\* The ids that have a bit in the vectors.
Bits == UNION {WordIds(w) : w \in Words}

\* The values a 32-bit register write can carry: one bit more than is kept.
RegValues == 0 .. 2 * PrioLimit - 1

VARIABLES
  priorities,   \* source -> priority
  pending,      \* the ids whose bit is set in pending_words
  enables,      \* context -> ids whose enable bit is set
  threshold,    \* context -> threshold
  line,         \* context -> interrupt_line
  eip           \* context -> the hart's MEIP or SEIP bit

vars == <<priorities, pending, enables, threshold, line, eip>>

Init ==
  /\ priorities = [s \in Sources |-> 0]
  /\ pending    = {}
  /\ enables    = [c \in Contexts |-> {}]
  /\ threshold  = [c \in Contexts |-> 0]
  /\ line       = [c \in Contexts |-> FALSE]
  /\ eip        = [c \in Contexts |-> FALSE]
-----------------------------------------------------------------------------
\* What context c could claim now.
Claimable(c) ==
  {s \in Sources : /\ s \in pending
                   /\ s \in enables[c]
                   /\ priorities[s] > threshold[c]}

\* The highest priority wins, the lowest id among equals; 0 when there is none.
find_highest_pending_enabled(c) ==
  IF Claimable(c) = {}
  THEN 0
  ELSE CHOOSE s \in Claimable(c) :
         \A t \in Claimable(c) : \/ priorities[s] > priorities[t]
                                 \/ priorities[s] = priorities[t] /\ s <= t

\* Mutant of update_contexts: the hart's bit is set on a rising line and never cleared.
update_contexts_raise_only(S) ==
  /\ line' = [c \in Contexts |-> IF c \in S THEN Claimable(c)' # {} ELSE line[c]]
  /\ eip'  = [c \in Contexts |-> IF line'[c] # line[c] THEN TRUE ELSE eip[c]]

\* update_context for every context of S, in the state the handler leaves: the
\* line follows find_highest_pending_enabled, and the hart's bit is written
\* only when the line changed.
update_contexts(S) ==
  /\ line' = [c \in Contexts |-> IF c \in S THEN Claimable(c)' # {} ELSE line[c]]
  /\ eip'  = [c \in Contexts |-> IF line'[c] # line[c] THEN line'[c] ELSE eip[c]]
-----------------------------------------------------------------------------
\* A device drives its source (UART, I2C, virtio, xHCI and HID all end here).
\* The last id of a full table has no bit in the vectors; acquire_irq never gets that far.
set_pending(s, level) ==
  /\ s \in Sources
  /\ pending'  = IF level THEN pending \cup ({s} \cap Bits) ELSE pending \ {s}
  /\ UNCHANGED <<priorities, enables, threshold>>
  /\ update_contexts(Contexts)

write_priority(s, value) ==
  /\ priorities' = [priorities EXCEPT ![s] = value % PrioLimit]
  /\ UNCHANGED <<pending, enables, threshold>>
  /\ update_contexts(Contexts)

\* Mutant of write_enable: the context is not re-evaluated.
write_enable_silent(c, w, value) ==
  /\ enables' = [enables EXCEPT ![c] = (@ \ WordIds(w)) \cup value]
  /\ UNCHANGED <<priorities, pending, threshold, line, eip>>

write_enable(c, w, value) ==
  /\ enables' = [enables EXCEPT ![c] = (@ \ WordIds(w)) \cup value]
  /\ UNCHANGED <<priorities, pending, threshold>>
  /\ update_contexts({c})

write_threshold(c, value) ==
  /\ threshold' = [threshold EXCEPT ![c] = value % PrioLimit]
  /\ UNCHANGED <<priorities, pending, enables>>
  /\ update_contexts({c})

\* A read of the claim register.  A claim that finds nothing updates nothing.
claim_interrupt(c) ==
  LET id == find_highest_pending_enabled(c)
  IN  /\ id # 0
      /\ pending'  = pending \ {id}
      /\ UNCHANGED <<priorities, enables, threshold>>
      /\ update_contexts({c})

\* A write of the complete register: the id is whatever the guest wrote.
complete_interrupt(c, id) ==
  /\ id \in Sources
  /\ pending'  = pending \ {id}
  /\ UNCHANGED <<priorities, enables, threshold>>
  /\ update_contexts({c})

\* The guest writes mip (or sip, which keeps MEIP): the bits the controller
\* drives are plain bits of the register, and the write replaces them.
csr_write_ip(h, meip, seip) ==
  /\ eip' = [eip EXCEPT ![2 * h] = meip, ![2 * h + 1] = seip]
  /\ UNCHANGED <<priorities, pending, enables, threshold, line>>
-----------------------------------------------------------------------------
Next ==
  \/ \E s \in Irqs, level \in BOOLEAN : set_pending(s, level)
  \/ \E s \in Sources, value \in RegValues : write_priority(s, value)
  \/ \E c \in Contexts, w \in Words : \E value \in SUBSET WordIds(w) : write_enable(c, w, value)
  \/ \E c \in Contexts, value \in RegValues : write_threshold(c, value)
  \/ \E c \in Contexts : claim_interrupt(c)
  \/ \E c \in Contexts, id \in 0 .. MaxSources + 1 : complete_interrupt(c, id)
  \/ \E h \in 0 .. NumHarts - 1, meip, seip \in BOOLEAN : csr_write_ip(h, meip, seip)

Spec == Init /\ [][Next]_vars
-----------------------------------------------------------------------------
TypeOK ==
  /\ priorities \in [Sources -> 0 .. PrioLimit - 1]
  /\ pending \subseteq Bits
  /\ enables \in [Contexts -> SUBSET Bits]
  /\ threshold \in [Contexts -> 0 .. PrioLimit - 1]
  /\ line \in [Contexts -> BOOLEAN]
  /\ eip \in [Contexts -> BOOLEAN]

\* Whatever order the guest programs the controller, claims and completes in, a
\* context that could claim a source has its line up: claim and complete, which
\* re-evaluate only their own context (plic.cpp:289-309), can only take sources
\* away from the others.  The converse fails: a peer's line may stay up with
\* nothing behind it, see PLICRouted.
NoLostInterrupt == \A c \in Contexts : Claimable(c) # {} => line[c]
=============================================================================
