-------------------------------- MODULE MCDma --------------------------------
(***************************************************************************)
(* The devices that walk rings in guest memory, for TLC: virtio and xHCI.  *)
(* They share no state, so a behaviour is one of theirs: part says whose,  *)
(* and the other keeps its initial state.                                  *)
(***************************************************************************)
EXTENDS MCVirtio

CONSTANTS EV, CK, RK, Interior, ZK, INTERVAL, MaxQueued, TouchLinks    \* of Xhci

VARIABLES part, x, xhci_rings, deq, ccs, isr

xhciVars == <<x, xhci_rings, deq, ccs, isr>>

X == INSTANCE Xhci WITH rings <- xhci_rings

DmaInit ==
  /\ part \in {"virtio", "xhci"}
  /\ Init /\ X!XhciInit
  /\ part = "xhci" => kind = "rng"

DmaNext ==
  /\ UNCHANGED part
  /\ \/ part = "virtio" /\ UNCHANGED xhciVars /\ Next
     \/ part = "xhci" /\ UNCHANGED vars /\ X!XhciNext

DmaSpec == DmaInit /\ [][DmaNext]_<<part, vars, xhciVars>>

------------------------------------------------------------------------------
(* Properties: the refinement of RequestQueue, and those of Xhci.          *)

\* Every request the driver submits is served once and in order, with the effect and the
\* result its type asks for: process_queue walks the rings of virtio_blk.cpp:179 and
\* virtio_rng.cpp:130 across the wrap of both, the pieces of a request, and resets.
\* Virtio implements RequestQueue; a step of the other part is none of its own.
ServedInOrder == Queue!Init /\ [][part = "xhci" \/ Queue!Next]_queueVars

\* Unless the event ring overran, the guest reads exactly the events pushed,
\* in order (Xhci!EventsExact).
EventsExact == X!EventsExact

\* An event the guest has not read is signalled (Xhci!UnreadSignalled).
UnreadSignalled == X!UnreadSignalled

\* Controller and guest agree where a ring goes on (Xhci!CursorsAgree).
CursorsAgree == X!CursorsAgree

\* A transfer is answered once, in order and by the tick it is due at
\* (Xhci!TransfersServed).
TransfersServed == X!TransfersServed
=============================================================================
