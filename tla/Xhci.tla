-------------------------------- MODULE Xhci --------------------------------
(***************************************************************************)
(* The xHCI USB controller (src/devices/usb/xhci.cpp) with one keyboard on *)
(* root port 1, and the guest's driver.  Register writes, doorbells and    *)
(* ticks all run on the machine's work thread, one handler at a time, so a *)
(* handler is one step: an operator from the controller's record x to the  *)
(* record it leaves.  A TRB address is an index into its ring; an input    *)
(* context is folded into the command that points at it.                   *)
(***************************************************************************)
EXTENDS Integers, Sequences, SequencesExt

CONSTANTS
  EV,            \* TRBs of the event ring
  CK,            \* TRBs of the command ring, the last a LINK
  RK,            \* TRBs of the endpoint's ring, the last a LINK
  Interior,      \* index of a LINK inside the endpoint's ring
  ZK,            \* TRBs of endpoint 0's ring, the last a LINK
  INTERVAL,      \* EP_POLL_INTERVAL, in ticks
  MaxQueued,     \* transfers the guest keeps on the endpoint
  TouchLinks     \* whether the guest hands over interior LINKs as it passes

VARIABLES
  x,             \* the controller
  rings,         \* guest memory: the rings, and where the guest writes next
  deq, ccs,      \* the guest's place in the event ring, and its cycle state
  isr            \* the guest's interrupt handler
xhciVars == <<x, rings, deq, ccs, isr>>

Nowhere == -1
Zero == [type |-> "NONE", cycle |-> FALSE, ent |-> FALSE, to |-> 0, arg |-> <<0, FALSE>>]
Link(to, ent) == [Zero EXCEPT !.type = "LINK", !.to = to, !.ent = ent]
Fresh(n, links) ==
  [trbs |-> [i \in 0..(n - 1) |-> IF i = n - 1 THEN Link(0, TRUE)
                                  ELSE IF i \in links THEN Link(i + 1, FALSE) ELSE Zero],
   enq |-> 0, cs |-> TRUE]
EpRing == Fresh(RK, {Interior})

------------------------------------------------------------------------------
(* The event ring and the interrupt. *)

\* update_irq: unread events bring EINT, IP and the PLIC's pending bit, line, back.
update_irq(c) ==
  LET unread == c.base /\ c.enq # c.erdp
      eint == c.eint \/ unread
      iman == c.iman \/ unread
  IN [c EXCEPT !.eint = eint, !.iman = iman, !.line = eint /\ iman /\ c.inte]

\* Mutant: the producer's cycle state is not toggled at the end of the ring.
push_event_same_cycle(c, evt) ==
  IF ~c.base THEN c
  ELSE LET next == (c.enq + 1) % EV
       IN update_irq([c EXCEPT !.ev[c.enq] = [evt |-> evt, cycle |-> c.epcs], !.enq = next,
                               !.iman = TRUE, !.eint = TRUE, !.log = Append(@, evt),
                               !.overrun = @ \/ next = c.erdp])

\* push_event.  log and overrun are history: the events no one has read, and
\* whether one was pushed into a full ring.
push_event(c, evt) ==
  IF ~c.base THEN c
  ELSE LET next == (c.enq + 1) % EV
       IN update_irq([c EXCEPT !.ev[c.enq] = [evt |-> evt, cycle |-> c.epcs],
                               !.enq = next,
                               !.epcs = IF next = 0 THEN ~@ ELSE @,
                               !.iman = TRUE, !.eint = TRUE,
                               !.log = Append(@, evt),
                               !.overrun = @ \/ next = c.erdp])

\* reset: the slots, and the place in the command ring, stay as they are.
reset(c) ==
  [c EXCEPT !.inte = FALSE, !.eint = FALSE, !.iman = FALSE, !.base = FALSE,
            !.enq = 0, !.epcs = TRUE, !.erdp = 0, !.dcbaap = FALSE,
            !.port = {"PP", "CCS", "CSC"}, !.log = <<>>]

XhciInit ==
  /\ x = [inte |-> FALSE, eint |-> FALSE, iman |-> FALSE, base |-> FALSE, enq |-> 0, epcs |-> TRUE,
          erdp |-> 0, ev |-> [i \in 0..(EV - 1) |-> [evt |-> <<"none", 0>>, cycle |-> FALSE]],
          line |-> FALSE, dcbaap |-> FALSE, port |-> {"PP", "CCS", "CSC"},
          cdeq |-> 0, cpcs |-> TRUE, slot |-> FALSE, dev |-> FALSE, ep0deq |-> Nowhere, ep0pcs |-> TRUE,
          deq |-> Nowhere, pcs |-> FALSE, since |-> INTERVAL, enabled |-> FALSE,
          ctx |-> [deq |-> Nowhere, cs |-> FALSE],
          log |-> <<>>, overrun |-> FALSE, queued |-> <<>>, wrong |-> FALSE, starved |-> FALSE]
  /\ rings = [cmd |-> Fresh(CK, {}), ep0 |-> Fresh(ZK, {}), ep |-> EpRing]
  /\ deq = 0 /\ ccs = TRUE /\ isr = "idle" 

------------------------------------------------------------------------------
(* Transfer rings. *)

Follow(c, t) == [c EXCEPT !.deq = t.to, !.pcs = IF t.ent THEN ~@ ELSE @]

\* The loop of process_ep_ring: the cycle test, then LINK, then a NORMAL TRB
\* as soon as EP_POLL_INTERVAL ticks have passed since the last one.  The
\* keyboard always has a report.  queued and wrong are history.
RECURSIVE EpLoop(_)
EpLoop(c) ==
  LET t == rings.ep.trbs[c.deq]
  IN IF t.cycle # c.pcs THEN c
     ELSE IF t.type = "LINK" THEN EpLoop(Follow(c, t))
     ELSE IF t.type # "NORMAL" THEN EpLoop([c EXCEPT !.deq = @ + 1])
     ELSE IF c.since < INTERVAL THEN c
     ELSE EpLoop([push_event([c EXCEPT !.since = 0], <<"TRANSFER", c.deq>>) EXCEPT
                    !.deq = @ + 1,
                    !.wrong = @ \/ c.queued = <<>> \/ Head(c.queued) # c.deq,
                    !.queued = IF @ = <<>> THEN @ ELSE Tail(@)])

\* Mutant: the context is read once.
adopt_once(c) == IF c.dcbaap /\ c.deq = Nowhere
                 THEN [c EXCEPT !.deq = c.ctx.deq, !.pcs = c.ctx.cs] ELSE c

\* The endpoint context's dequeue pointer is adopted before the loop and
\* published after it.
adopt(c) == IF c.dcbaap /\ (c.deq = Nowhere \/ c.ctx.deq # Nowhere)
            THEN [c EXCEPT !.deq = c.ctx.deq, !.pcs = c.ctx.cs] ELSE c
publish(c) == IF c.dcbaap THEN [c EXCEPT !.ctx = [deq |-> c.deq, cs |-> c.pcs]] ELSE c
process_ep_ring(c) ==
  IF ~c.slot \/ ~c.dev \/ adopt(c).deq = Nowhere THEN c ELSE publish(EpLoop(adopt(c)))

\* process_ep0_transfer_ring at address a.  A LINK moves a only: the saved
\* position follows with the next TRB.
RECURSIVE Ep0Loop(_, _, _, _)
Ep0Loop(c, r, a, setup) ==
  LET t == r.trbs[a]
      event == \/ t.type = "STATUS_STAGE"
               \/ t.type = "DATA_STAGE" /\ setup = "IN" /\ t.arg[2]
      done == IF event THEN push_event(c, <<"CONTROL", a>>) ELSE c
  IN IF t.cycle # c.ep0pcs THEN c
     ELSE IF t.type = "LINK" THEN Ep0Loop([c EXCEPT !.ep0pcs = IF t.ent THEN ~@ ELSE @], r, t.to, setup)
     ELSE Ep0Loop([done EXCEPT !.ep0deq = a + 1], r, a + 1,
                  IF t.type = "SETUP_STAGE" THEN (IF t.arg[2] THEN "IN" ELSE "OUT") ELSE setup)
process_ep0_transfer_ring(c, r) ==
  IF c.slot /\ c.dev /\ c.ep0deq # Nowhere THEN Ep0Loop(c, r, c.ep0deq, "OUT") ELSE c

------------------------------------------------------------------------------
(* Commands. *)

fresh_slot(c, slot) ==
  [c EXCEPT !.slot = slot, !.dev = FALSE, !.ep0deq = Nowhere, !.ep0pcs = TRUE, !.deq = Nowhere,
            !.pcs = FALSE, !.since = INTERVAL, !.enabled = FALSE]

\* Mutant: endpoint 0 starts at the ring's base.
address_base(c, t) == [c EXCEPT !.dev = TRUE, !.ep0deq = 0, !.ep0pcs = t.arg[2]]
address(c, t) == [c EXCEPT !.dev = TRUE, !.ep0deq = t.arg[1], !.ep0pcs = t.arg[2]]

\* A command's effect; t.arg is the ring position its input context or its
\* parameter gives.  ENABLE_SLOT attaches port 0, which is empty.
\* DISABLE_SLOT erases the slot, and the guest frees its context.
\* CONFIG_ENDPOINT drops the cached position of the next endpoint, not of
\* the one it saves: the context that is adopted is what moves the ring.
effect(c, t) ==
  CASE t.type = "ENABLE_SLOT" /\ ~c.slot -> fresh_slot(c, TRUE)
    [] t.type = "DISABLE_SLOT" ->
         [fresh_slot(c, FALSE) EXCEPT !.queued = <<>>, !.ctx = [deq |-> Nowhere, cs |-> FALSE]]
    [] t.type = "ADDRESS_DEVICE" /\ c.slot -> address(c, t)
    [] t.type = "CONFIG_ENDPOINT" /\ c.slot /\ c.dcbaap ->
         [c EXCEPT !.enabled = TRUE, !.ctx = [deq |-> t.arg[1], cs |-> t.arg[2]], !.queued = <<>>]
    [] t.type = "STOP_ENDPOINT" /\ c.slot /\ c.deq # Nowhere ->
         IF rings.ep.trbs[c.deq].cycle = c.pcs THEN push_event(c, <<"STOPPED", c.deq>>) ELSE c
    [] t.type = "SET_TR_DEQUEUE" /\ c.slot ->
         publish([c EXCEPT !.deq = t.arg[1], !.pcs = t.arg[2], !.queued = <<>>])
    [] OTHER -> c     \* NO_OP_CMD, EVAL_CONTEXT, RESET_ENDPOINT, RESET_DEVICE and unknown types

RECURSIVE process_command_ring(_, _)
process_command_ring(c, r) ==
  LET t == r.trbs[c.cdeq]
  IN IF t.cycle # c.cpcs THEN c
     ELSE IF t.type = "LINK"
     THEN process_command_ring([c EXCEPT !.cdeq = t.to, !.cpcs = IF t.ent THEN ~@ ELSE @], r)
     ELSE process_command_ring(
            [push_event(effect(c, t), <<"COMMAND", c.cdeq>>) EXCEPT !.cdeq = @ + 1], r)

------------------------------------------------------------------------------
(* The guest writes TRBs.  It passes a LINK when it writes the TRB after it. *)

pass(r) ==
  LET t == r.trbs[r.enq]
  IN IF t.type # "LINK" THEN r
     ELSE [trbs |-> IF t.ent \/ TouchLinks THEN [r.trbs EXCEPT ![r.enq].cycle = r.cs] ELSE r.trbs,
           enq |-> t.to, cs |-> IF t.ent THEN ~r.cs ELSE r.cs]
put(ring, type, arg) ==
  LET r == pass(ring)
  IN [r EXCEPT !.trbs[r.enq] = [Zero EXCEPT !.type = type, !.cycle = r.cs, !.arg = arg], !.enq = @ + 1]

\* A TRB that was taken is remembered by its cycle bit alone: read again, it
\* would count as a TRB of this type.
spent(r, type) ==
  [r EXCEPT !.trbs = [i \in DOMAIN @ |->
     IF @[i].type \in {"NONE", "LINK"} THEN @[i]
     ELSE [Zero EXCEPT !.type = type, !.cycle = r.trbs[i].cycle]]]

\* The guest waits for its commands and control transfers to complete before
\* it starts the next; transfers of the endpoint complete in the background.
Ready == /\ x.base /\ x.dcbaap /\ x.inte
         /\ \A i \in DOMAIN x.log : x.log[i][1] = "TRANSFER"
Commands == {"NO_OP_CMD", "ENABLE_SLOT", "DISABLE_SLOT", "ADDRESS_DEVICE", "CONFIG_ENDPOINT",
             "STOP_ENDPOINT", "SET_TR_DEQUEUE"}

\* A command TRB and the command doorbell (write_doorbell, 536-562).  Nothing
\* between the two reads the ring.  The driver enables a slot for a port it
\* has reset, with new rings for the device.  Bound: it configures the endpoint
\* when its last control transfer ended at the ring's third TRB.
Command(type) ==
  LET at == IF type = "ADDRESS_DEVICE" THEN rings.ep0 ELSE rings.ep
      cmd == put(rings.cmd, type, <<at.enq, at.cs>>)
  IN /\ Ready
     /\ type = "ENABLE_SLOT" => ~x.slot /\ x.port = {"PP", "CCS", "PED"}
     /\ type \in {"CONFIG_ENDPOINT", "SET_TR_DEQUEUE", "STOP_ENDPOINT"} => x.slot /\ x.dev
     /\ type = "CONFIG_ENDPOINT" => rings.ep0.enq = 2
     /\ x' = process_command_ring(x, cmd)
     /\ rings' = [cmd |-> spent(cmd, "NO_OP_CMD"),
                  ep0 |-> IF type = "ENABLE_SLOT" THEN Fresh(ZK, {}) ELSE rings.ep0,
                  ep |-> IF type = "ENABLE_SLOT" THEN EpRing ELSE rings.ep]
     /\ UNCHANGED <<deq, ccs, isr>>

\* A control transfer and endpoint 0's doorbell, before the endpoint is
\* configured.
Control(in, data, short) ==
  LET setup == put(rings.ep0, "SETUP_STAGE", <<0, in>>)
      stage == IF data THEN put(setup, "DATA_STAGE", <<0, short>>) ELSE setup
      ep0 == put(stage, "STATUS_STAGE", <<0, FALSE>>)
  IN /\ Ready /\ x.slot /\ ~x.enabled /\ x.ep0deq # Nowhere
     /\ x' = process_ep0_transfer_ring(x, ep0)
     /\ rings' = [rings EXCEPT !.ep0 = spent(ep0, "STATUS_STAGE")]
     /\ UNCHANGED <<deq, ccs, isr>>

\* A transfer, whose doorbell comes later or not at all.
WriteTransfer ==
  /\ x.slot /\ x.enabled /\ Len(x.queued) < MaxQueued
  /\ LET r == put(rings.ep, "NORMAL", <<0, FALSE>>)
     IN /\ rings' = [rings EXCEPT !.ep = r]
        /\ x' = [x EXCEPT !.queued = Append(@, r.enq - 1)]
  /\ UNCHANGED <<deq, ccs, isr>>

------------------------------------------------------------------------------
(* Register writes. *)

Outside == isr \in {"idle", "completed"}     \* the guest is not in its handler
Step(c) == x' = c /\ UNCHANGED <<rings, deq, ccs, isr>>

\* USBCMD.  The guest resets the controller and turns interrupts on and off
\* outside its handler and with its slot disabled, writes PORTSC then too when
\* no event is unread, and writes IMAN in its handler.
write_USBCMD(inte) == ~x.slot /\ Outside /\ x.inte # inte /\ Step(update_irq([x EXCEPT !.inte = inte]))
write_HCRST == /\ ~x.slot /\ Outside
               /\ Step(update_irq(reset(x)))
write_DCBAAP == ~x.dcbaap /\ Outside /\ Step([x EXCEPT !.dcbaap = TRUE])
write_IMAN(ip) == isr = "draining" /\ Step(update_irq([x EXCEPT !.iman = ip]))

\* The segment's first TRB is where events go next.
update_event_ring_segment(c) == [c EXCEPT !.base = TRUE, !.enq = 0]

\* ERSTBA, once after a reset: the guest hands over a cleared ring.
write_ERSTBA ==
  /\ ~x.base
  /\ x' = [update_event_ring_segment(x) EXCEPT
             !.ev = [i \in 0..(EV - 1) |-> [evt |-> <<"none", 0>>, cycle |-> FALSE]]]
  /\ deq' = 0 /\ ccs' = TRUE
  /\ UNCHANGED <<rings, isr>>

\* PORTSC: the change bits the guest clears, port power, then port reset.
write_PORTSC(pp, pr, clear) ==
  LET cleared == [x EXCEPT !.port = @ \ clear]
      powered == IF ~pp /\ "PP" \in x.port THEN [cleared EXCEPT !.port = @ \ {"PP", "PED"}]
                 ELSE IF pp /\ "PP" \notin x.port
                 THEN push_event([cleared EXCEPT !.port = @ \cup {"PP", "CCS", "CSC"}], <<"PORT", 2>>)
                 ELSE cleared
      was_reset == push_event([powered EXCEPT !.port = @ \cup {"PED", "PRC"}], <<"PORT", 2>>)
  IN ~x.slot /\ x.log = <<>> /\ Step(IF pr THEN was_reset ELSE powered)

\* write_doorbell for the endpoint.
doorbell_endpoint == x.queued # <<>> /\ Step(process_ep_ring(x))

served(c) == IF c.slot /\ c.enabled THEN process_ep_ring(c) ELSE c
Ticked(c) ==
  /\ x' = c
  /\ isr' = IF isr = "completed" THEN "idle" ELSE isr
  /\ UNCHANGED <<rings, deq, ccs>>

\* Mutant: the interrupt is left as push_event last set it.
tick_underived == Ticked(served([x EXCEPT !.since = IF @ < INTERVAL THEN @ + 1 ELSE @]))

\* tick: every configured ring is served, and the interrupt derived again.
\* starved and the end of "completed" are history.
tick ==
  LET c == [x EXCEPT !.since = IF @ < INTERVAL THEN @ + 1 ELSE @]
      due == c.slot /\ c.dev /\ c.enabled /\ c.queued # <<>> /\ c.since = INTERVAL
  IN Ticked(update_irq([served(c) EXCEPT !.starved = @ \/ (due /\ served(c).queued = c.queued)]))

------------------------------------------------------------------------------
(* The guest's interrupt handler: claim, leave unless EINT, clear EINT,     *)
(* drain the event ring by its cycle bits, write ERDP, complete.  Claim and *)
(* complete both clear the PLIC's pending bit (plic.cpp).                   *)

Isr(from, to, c) == isr = from /\ isr' = to /\ x' = c /\ UNCHANGED rings
claim == \E from \in {"idle", "completed"} :
  x.line /\ Isr(from, "claimed", [x EXCEPT !.line = FALSE]) /\ UNCHANGED <<deq, ccs>>
not_ours == ~x.eint /\ Isr("claimed", "leaving", x) /\ UNCHANGED <<deq, ccs>>
write_USBSTS == /\ x.eint /\ Isr("claimed", "draining", update_irq([x EXCEPT !.eint = FALSE]))
                /\ UNCHANGED <<deq, ccs>>
take_event ==
  /\ x.ev[deq].cycle = ccs
  /\ Isr("draining", "draining", [x EXCEPT !.log = IF @ = <<>> THEN @ ELSE Tail(@),
                                            !.ev[deq].evt = <<"none", 0>>])
  /\ deq' = (deq + 1) % EV
  /\ ccs' = IF deq = EV - 1 THEN ~ccs ELSE ccs
write_ERDP == /\ x.ev[deq].cycle # ccs /\ Isr("draining", "leaving", [x EXCEPT !.erdp = deq])
              /\ UNCHANGED <<deq, ccs>>
complete == Isr("leaving", "completed", [x EXCEPT !.line = FALSE]) /\ UNCHANGED <<deq, ccs>>

\* A ring that overran ends the run.
Overrun == x.overrun /\ UNCHANGED xhciVars
XhciNext ==
  \/ Overrun
  \/ /\ ~x.overrun
     /\ \/ \E t \in Commands : Command(t)
        \/ WriteTransfer
        \/ \E in, data, short \in BOOLEAN : (data \/ ~short) /\ Control(in, data, short)
        \/ \E b \in BOOLEAN : write_USBCMD(b) \/ write_IMAN(b)
        \/ \E pp, pr \in BOOLEAN, clear \in {{}, {"CSC", "PRC"}} : write_PORTSC(pp, pr, clear)
        \/ write_HCRST \/ write_DCBAAP \/ write_ERSTBA
        \/ doorbell_endpoint \/ tick
        \/ claim \/ not_ours \/ write_USBSTS \/ take_event \/ write_ERDP \/ complete

XhciSpec == XhciInit /\ [][XhciNext]_xhciVars

------------------------------------------------------------------------------
(* Properties. *)

\* What the guest would read from the event ring now.
View ==
  LET Cycle(k) == IF deq + k >= EV THEN ~ccs ELSE ccs
      Mine(k) == x.ev[(deq + k) % EV].cycle = Cycle(k)
      n == CHOOSE n \in 0..EV : (\A k \in 0..(n - 1) : Mine(k)) /\ (n < EV => ~Mine(n))
  IN [k \in 1..n |-> x.ev[(deq + k - 1) % EV].evt]

\* Unless an event was pushed into a full ring, the cycle bits show the guest
\* exactly the events pushed since it last read, in order: through ring
\* wraps, resets and a handler that drains while more arrive.
EventsExact == x.base /\ ~x.overrun => View = x.log

\* From the first tick after the interrupt handler, an event the guest has not
\* acknowledged keeps the line up: what its claim, its complete or its writes
\* of EINT and IMAN took away is derived again.
UnreadSignalled ==
  x.base /\ x.enq # x.erdp /\ x.inte /\ isr = "idle" /\ ~x.overrun => x.line

\* After a doorbell the controller stands where the guest writes next, with
\* the guest's cycle state, on the command ring and on endpoint 0's ring: a
\* command or control transfer is neither skipped nor taken twice at a wrap.
CursorsAgree ==
  /\ x.cdeq = rings.cmd.enq /\ x.cpcs = rings.cmd.cs
  /\ x.slot /\ x.ep0deq # Nowhere => x.ep0deq = rings.ep0.enq /\ x.ep0pcs = rings.ep0.cs

\* Transfers of the endpoint complete once each, in the order the guest queued
\* them, across wraps, SET_TR_DEQUEUE and a new configuration, and a tick that
\* comes EP_POLL_INTERVAL after the last completion completes the one that waits.
TransfersServed == ~x.wrong /\ ~x.starved
=============================================================================
