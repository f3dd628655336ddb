-------------------------------- MODULE I2c ---------------------------------
(***************************************************************************)
(* The OpenCores I2C controller (src/devices/i2c/i2c-core.cpp) with the    *)
(* HID-over-I2C keyboard as its slave (src/devices/hid/), the guest's two  *)
(* drivers, and the window thread that reports keys.  The controller, the  *)
(* guest and the slave's callbacks run on the work thread; update() runs   *)
(* on the window's.  A handler is one step except where the two threads    *)
(* touch the report queue, which nothing guards: there each access is one. *)
(* A report is a number, an input report that carries none is 0.           *)
(***************************************************************************)
EXTENDS Integers, Sequences

CONSTANTS
  RUN_DELAY,     \* _run_delay: ticks from a command to its execution
  SIZE,          \* input_report_size
  QUEUE,         \* the length at which update() drops a report
  Reports        \* reports go round 1..Reports

\* With more reports than the queue holds, those in it differ.
ASSUME I2cAssumption ==
  RUN_DELAY \in Nat /\ SIZE \in Nat \ {0} /\ QUEUE \in Nat /\ Reports \in Nat /\ Reports > QUEUE

VARIABLES
  bus,           \* the controller
  hid,           \* the keyboard
  i2c_todo,      \* what the work thread has left to do in a slave's callback
  upd,           \* update(): where the window thread is, and its report
  i2c_pending,   \* the two lines in the PLIC
  drv            \* the guest: operations left, bytes read, what it reads
i2cVars == <<bus, hid, i2c_todo, upd, i2c_pending, drv>>

NoAddr == -1
Slave == 1       \* the keyboard's address
Absent == 2      \* an address nothing answers at

\* cur_reg has no initialiser.
I2cInit ==
  /\ bus = [tip |-> FALSE, if |-> FALSE, busy |-> FALSE, nack |-> FALSE, en |-> FALSE, ien |-> FALSE,
            cr |-> {}, txr |-> 0, rxr |-> 0, addr |-> NoAddr, sel |-> FALSE, active |-> FALSE,
            delay |-> 0, int_line |-> FALSE]
  /\ hid \in [cur_reg : {0, 3}, off : {0}, transmitting : {FALSE}, event : {"NONE"}, opcode : {0},
              report : {0}, queue : {<<>>}]
  /\ i2c_todo = <<>> /\ upd = [at |-> "idle", report |-> 0]
  /\ i2c_pending = [i2c |-> FALSE, hid |-> FALSE]
  /\ drv = [ops |-> <<>>, wait |-> FALSE, probed |-> FALSE, serving |-> FALSE, bytes |-> <<>>,
            front |-> 0]

------------------------------------------------------------------------------
(* The keyboard's callbacks. *)

start_transmit(h) == [h EXCEPT !.off = 0, !.transmitting = TRUE, !.event = "NONE"]

\* dev_write: the register's two bytes, then data for a writable register.
\* Of the data only the command's opcode, its second byte, is kept.
dev_write(h, val) ==
  LET event == CASE h.cur_reg = 5 -> "COMMAND" [] h.cur_reg = 6 -> "DATA" [] h.cur_reg = 7 -> "OUTPUT"
                 [] OTHER -> "NONE"
  IN CASE h.off = 0 -> [h EXCEPT !.cur_reg = val, !.off = 1]
       [] h.off = 1 -> [h EXCEPT !.off = 2]
       [] h.off > 1 /\ event = "NONE" -> h
       [] h.off > 1 /\ event # "NONE" ->
            [h EXCEPT !.event = event, !.off = IF @ < 4 THEN @ + 1 ELSE @,
                      !.opcode = IF event = "COMMAND" /\ h.off = 3 THEN val ELSE @]

\* Mutant: the byte before the last one ends the report.
LastByte_early(h) == h.cur_reg = 3 /\ h.off >= SIZE - 2
LastByte(h) == h.cur_reg = 3 /\ h.off >= SIZE - 1
\* dev_read: the byte, the keyboard after it, and what is left to do.
dev_read(h) ==
  [val |-> IF h.cur_reg = 3 /\ h.off < SIZE THEN h.report ELSE 0,
   hid |-> IF LastByte(h) THEN h ELSE [h EXCEPT !.off = IF @ < SIZE THEN @ + 1 ELSE @],
   todo |-> IF LastByte(h) THEN <<"pop", "refill">> ELSE <<>>]

pop ==
  /\ i2c_todo # <<>> /\ Head(i2c_todo) = "pop" /\ i2c_todo' = Tail(i2c_todo)
  /\ hid' = [hid EXCEPT !.queue = IF @ = <<>> THEN @ ELSE Tail(@)]
  /\ UNCHANGED <<bus, upd, i2c_pending, drv>>

\* With a report left io_offset stays where it is.
refill ==
  /\ i2c_todo # <<>> /\ Head(i2c_todo) = "refill"
  /\ IF hid.queue # <<>>
     THEN /\ hid' = [hid EXCEPT !.report = Head(hid.queue)] /\ i2c_todo' = Tail(i2c_todo)
          /\ i2c_pending' = [i2c_pending EXCEPT !.hid = TRUE]
     ELSE /\ hid' = [hid EXCEPT !.off = SIZE] /\ i2c_todo' = <<"clear">>
          /\ UNCHANGED i2c_pending
  /\ UNCHANGED <<bus, upd, drv>>
clear ==
  /\ i2c_todo # <<>> /\ Head(i2c_todo) = "clear" /\ i2c_todo' = Tail(i2c_todo)
  /\ i2c_pending' = [i2c_pending EXCEPT !.hid = FALSE]
  /\ UNCHANGED <<bus, hid, upd, drv>>

\* Mutant: reports that came during the transfer are not signalled.
resignal_never ==
  /\ i2c_todo # <<>> /\ Head(i2c_todo) = "resignal" /\ i2c_todo' = Tail(i2c_todo)
  /\ UNCHANGED <<bus, hid, upd, i2c_pending, drv>>

\* stop_transmit: the written register's event, of which only the RESET
\* command does anything; then the line again for reports that wait.
reset_command ==
  /\ i2c_todo # <<>> /\ Head(i2c_todo) = "reset" /\ i2c_todo' = Tail(i2c_todo)
  /\ hid' = [hid EXCEPT !.off = 0, !.report = 0, !.queue = <<>>]
  /\ i2c_pending' = [i2c_pending EXCEPT !.hid = TRUE]
  /\ UNCHANGED <<bus, upd, drv>>
resignal ==
  /\ i2c_todo # <<>> /\ Head(i2c_todo) = "resignal" /\ i2c_todo' = Tail(i2c_todo)
  /\ i2c_pending' = [i2c_pending EXCEPT !.hid = @ \/ hid.queue # <<>>]
  /\ UNCHANGED <<bus, hid, upd, drv>>

------------------------------------------------------------------------------
(* The controller. *)

lower_interrupt(b, p) == IF b.int_line THEN [p EXCEPT !.i2c = FALSE] ELSE p
raise_interrupt(b, p) == IF b.ien /\ ~b.int_line THEN [p EXCEPT !.i2c = TRUE] ELSE p

\* The guest's driver sends one of these at a time, each with IACK.
\* execute_command is STA, WR, RD, STO in that order; STA and WR address a
\* slave, WR alone writes a byte, and no slave at the address leaves RxACK.
Address(b) ==
  LET found == b.txr = Slave
  IN [b EXCEPT !.addr = b.txr, !.sel = found, !.nack = IF found THEN FALSE ELSE @]

\* Mutant: the acknowledge bit does not lower the line.
ack_ignored(b) == [b EXCEPT !.if = FALSE, !.cr = @ \ {"IACK"}]
ack(b) == [b EXCEPT !.if = FALSE, !.int_line = FALSE, !.cr = @ \ {"IACK"}]

execute_command ==
  LET b0 == IF "IACK" \in bus.cr THEN ack(bus) ELSE bus
      p0 == IF "IACK" \in bus.cr THEN lower_interrupt(bus, i2c_pending) ELSE i2c_pending
      b1 == IF "STA" \in b0.cr THEN [b0 EXCEPT !.busy = TRUE, !.addr = NoAddr] ELSE b0
      addressing == "WR" \in b0.cr /\ b1.addr = NoAddr
      b2 == IF addressing THEN Address(b1)
            ELSE IF "WR" \in b0.cr THEN [b1 EXCEPT !.nack = ~b1.sel] ELSE b1
      h2 == IF "WR" \notin b0.cr \/ ~b2.sel THEN hid
            ELSE IF addressing THEN start_transmit(hid) ELSE dev_write(hid, b1.txr)
      read == dev_read(h2)
      reads == "RD" \in b0.cr /\ b2.sel
      b3 == IF "RD" \in b0.cr
            THEN [b2 EXCEPT !.rxr = IF b2.sel THEN read.val ELSE 0, !.nack = ~b2.sel] ELSE b2
      h3 == IF reads THEN read.hid ELSE h2
      stops == "STO" \in b0.cr
      b4 == IF stops THEN [b3 EXCEPT !.sel = FALSE, !.busy = FALSE] ELSE b3
      h4 == IF stops /\ b3.sel THEN [h3 EXCEPT !.transmitting = FALSE, !.cur_reg = 3] ELSE h3
      after == (IF reads THEN read.todo ELSE <<>>)
               \o (IF stops /\ b3.sel
                   THEN (IF h3.event = "COMMAND" /\ h3.opcode = 1 THEN <<"reset">> ELSE <<>>)
                        \o <<"resignal">>
                   ELSE <<>>)
  IN /\ hid' = [h4 EXCEPT !.opcode = IF stops THEN 0 ELSE @]
     /\ i2c_todo' = after
     /\ IF b0.cr = {} THEN bus' = [b0 EXCEPT !.active = FALSE] /\ i2c_pending' = p0
        ELSE /\ bus' = [b4 EXCEPT !.tip = FALSE, !.if = TRUE, !.active = FALSE,
                                  !.int_line = @ \/ b4.ien]
             /\ i2c_pending' = raise_interrupt(b4, p0)
     /\ UNCHANGED <<upd, drv>>

tick ==
  /\ i2c_todo = <<>> /\ bus.active
  /\ \/ /\ bus.delay + 1 < RUN_DELAY
        /\ bus' = [bus EXCEPT !.delay = @ + 1]
        /\ UNCHANGED <<hid, i2c_todo, upd, i2c_pending, drv>>
     \/ bus.delay + 1 >= RUN_DELAY /\ execute_command

\* write: CTR, whose EN bit resets the bus when it is cleared, and CR.
write_CTR(en) ==
  /\ i2c_todo = <<>> /\ ~drv.wait /\ ~drv.serving
  /\ bus' = [(IF en THEN bus
              ELSE [bus EXCEPT !.tip = FALSE, !.if = FALSE, !.busy = FALSE, !.nack = FALSE,
                               !.sel = FALSE, !.addr = NoAddr, !.int_line = FALSE])
             EXCEPT !.en = en, !.ien = en]
  /\ i2c_pending' = IF en THEN i2c_pending ELSE lower_interrupt(bus, i2c_pending)
  /\ UNCHANGED <<hid, i2c_todo, upd, drv>>

write_CR(b, cr, txr) ==
  [b EXCEPT !.txr = txr, !.cr = cr \cup {"IACK"}, !.active = TRUE, !.delay = 0, !.tip = TRUE, !.if = FALSE]

------------------------------------------------------------------------------
(* update, on the window's thread.  With its size test passed, front() of a  *)
(* queue that was emptied meanwhile is undefined.                            *)

Upd(from, to) == upd.at = from /\ upd' = [upd EXCEPT !.at = to] /\ UNCHANGED <<bus, i2c_todo, drv>>
update ==
  \/ /\ upd.at = "idle" /\ Len(hid.queue) < QUEUE
     /\ upd' = [at |-> "push", report |-> (upd.report % Reports) + 1]
     /\ UNCHANGED <<bus, hid, i2c_todo, i2c_pending, drv>>
  \/ /\ Upd("push", "size") /\ hid' = [hid EXCEPT !.queue = Append(@, upd.report)]
     /\ UNCHANGED i2c_pending
  \/ Upd("size", IF Len(hid.queue) = 1 THEN "copy" ELSE "signal") /\ UNCHANGED <<hid, i2c_pending>>
  \/ /\ Upd("copy", "signal") /\ UNCHANGED i2c_pending
     /\ \E r \in IF hid.queue = <<>> THEN 0..Reports ELSE {Head(hid.queue)} :
          hid' = [hid EXCEPT !.report = r]
  \/ /\ Upd("signal", "idle") /\ UNCHANGED hid
     /\ i2c_pending' = [i2c_pending EXCEPT !.hid = @ \/ ~hid.transmitting]

------------------------------------------------------------------------------
(* The guest: the bus driver sends one command, waits for its interrupt and  *)
(* sends the next; a NACK goes straight to the STOP, and a last IACK ends    *)
(* the transfer.                                                             *)

To(a) == <<{"STA", "WR"}, a>>
Wr(v) == <<{"WR"}, v>>
Rd == <<{"RD"}, 0>>
Stop == <<{"STO"}, 0>>
Probe == <<To(Slave), Wr(1), Wr(0), To(Slave), Rd, Stop>>
InputRead == <<To(Slave)>> \o [i \in 1..SIZE |-> Rd] \o <<Stop>>
Programs == {Probe, <<To(Absent), Stop>>}
            \cup {<<To(Slave), Wr(r), Wr(0), Wr(0), Wr(1), Stop>> : r \in {5, 7}}

BeginTransfer(ops) ==
  /\ bus.en /\ i2c_todo = <<>> /\ drv.ops = <<>> /\ ~drv.wait
  /\ bus' = write_CR(bus, ops[1][1], ops[1][2])
  /\ UNCHANGED <<hid, i2c_todo, upd>>
Transfer(ops) ==
  /\ BeginTransfer(ops) /\ ~drv.serving /\ (drv.probed \/ ops = Probe)
  /\ drv' = [drv EXCEPT !.ops = Tail(ops), !.wait = TRUE, !.probed = TRUE]
  /\ UNCHANGED i2c_pending
\* The keyboard's interrupt: a read of the input register, without its
\* number.  front is history: the oldest report, when update() is not running.
ReadReport ==
  /\ BeginTransfer(InputRead) /\ drv.probed /\ i2c_pending.hid
  /\ i2c_pending' = [i2c_pending EXCEPT !.hid = FALSE]
  /\ drv' = [drv EXCEPT !.ops = Tail(InputRead), !.wait = TRUE, !.serving = TRUE, !.bytes = <<>>,
                        !.front = IF upd.at = "idle" /\ hid.queue # <<>> THEN Head(hid.queue) ELSE 0]
OnInterrupt ==
  LET bytes == IF drv.serving /\ "RD" \in bus.cr THEN Append(drv.bytes, bus.rxr) ELSE drv.bytes
      rest == IF bus.nack /\ drv.ops # <<>> THEN <<Stop>> ELSE drv.ops
  IN /\ i2c_todo = <<>> /\ i2c_pending.i2c /\ bus.if
     /\ i2c_pending' = [i2c_pending EXCEPT !.i2c = FALSE]
     /\ IF rest # <<>>
        THEN /\ bus' = write_CR(bus, rest[1][1], rest[1][2])
             /\ drv' = [drv EXCEPT !.ops = Tail(rest), !.bytes = bytes]
        ELSE /\ bus' = write_CR(bus, {}, 0)
             /\ drv' = [drv EXCEPT !.ops = <<>>, !.wait = FALSE, !.serving = FALSE, !.bytes = <<>>,
                                   !.front = 0]
     /\ UNCHANGED <<hid, i2c_todo, upd>>

I2cNext ==
  \/ tick \/ pop \/ refill \/ clear \/ reset_command \/ resignal
  \/ \E en \in BOOLEAN : write_CTR(en)
  \/ update
  \/ \E ops \in Programs : Transfer(ops)
  \/ ReadReport \/ OnInterrupt

I2cSpec == I2cInit /\ [][I2cNext]_i2cVars

------------------------------------------------------------------------------
(* Properties. *)

\* A command the driver waits for is under way, or has raised its interrupt:
\* the acknowledge that rides on the next command never swallows the edge.
CompletionSignalled ==
  drv.wait /\ ~bus.active /\ i2c_todo = <<>> => i2c_pending.i2c /\ bus.if

\* A report that waits while no transfer is on has its line up, whatever
\* update() and the end of a read or of a reset do to the queue together.
NoReportStranded ==
  hid.queue # <<>> /\ ~hid.transmitting /\ ~drv.serving /\ upd.at = "idle" /\ i2c_todo = <<>>
    => i2c_pending.hid

\* A read that starts on a queued report returns that report in every byte
\* and takes it off the queue, with update() at work all the while.
ReadsExact ==
  drv.front # 0 /\ i2c_todo = <<>> =>
    /\ \A i \in DOMAIN drv.bytes : drv.bytes[i] = drv.front
    /\ Len(drv.bytes) = SIZE => \A i \in DOMAIN hid.queue : hid.queue[i] # drv.front
=============================================================================
