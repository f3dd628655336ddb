----------------------------- MODULE PLICRouted -----------------------------
(***************************************************************************)
(* The PLIC under a disciplined guest, the way kernels program it: every   *)
(* source is enabled in one context only, a context completes only sources *)
(* of its own, and mip and sip writes put back the external bits they read *)
(* (csrrs and csrrc with other bits).  Same handlers, inputs restricted.   *)
(***************************************************************************)
EXTENDS PLIC

CONSTANT Route      \* source -> the context the guest routes it to

ASSUME RouteAssumption == Route \in [Sources -> Contexts]

Routed(c) == {s \in Sources : Route[s] = c}

RoutedNext ==
  \/ \E s \in Irqs, level \in BOOLEAN : set_pending(s, level)
  \/ \E s \in Sources, value \in RegValues : write_priority(s, value)
  \/ \E c \in Contexts, w \in Words :
       \E value \in SUBSET (WordIds(w) \cap Routed(c)) : write_enable(c, w, value)
  \/ \E c \in Contexts, value \in RegValues : write_threshold(c, value)
  \/ \E c \in Contexts : claim_interrupt(c)
  \/ \E c \in Contexts : \E id \in Routed(c) : complete_interrupt(c, id)

RoutedSpec == Init /\ [][RoutedNext]_vars

\* The line of a context is up exactly when the context has something to claim.
LineExact == \A c \in Contexts : line[c] <=> Claimable(c) # {}

\* The hart's MEIP and SEIP bits equal the lines.
EipFollowsLine == eip = line

\* Under routing there are no lost and no spurious external interrupts: the hart's bit
\* of a context is up exactly when the context has something to claim, although
\* claim_interrupt and complete_interrupt re-evaluate no context but their own
\* (plic.cpp:297, 308) and signal_cpu_interrupt writes the bit on the edges of the line
\* only (plic.cpp:315-319).
InterruptExact == LineExact /\ EipFollowsLine

\* The enables never leave the routing, which is what makes LineExact inductive.
EnablesRouted == \A c \in Contexts : enables[c] \subseteq Routed(c)
=============================================================================
