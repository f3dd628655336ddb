----------------------------- MODULE I2cProofs ------------------------------
(***************************************************************************)
(* Proofs about the I2C controller with its keyboard, for every report     *)
(* size, queue length and delay of a command.                              *)
(***************************************************************************)
EXTENDS I2c, SequenceTheorems, TLAPS

Begin == {"STA", "WR"}
Commands == {Begin, {"WR"}, {"RD"}, {"STO"}}
Issued == {{"IACK"}, {"STA", "WR", "IACK"}, {"WR", "IACK"}, {"RD", "IACK"}, {"STO", "IACK"}}
Ops == {To(Slave), Wr(0), Wr(1), Wr(5), Wr(7), Rd, Stop}
Todos == {<<>>, <<"pop", "refill">>, <<"refill">>, <<"clear">>, <<"reset", "resignal">>, <<"resignal">>}

Bus == [tip : BOOLEAN, if : BOOLEAN, busy : BOOLEAN, nack : BOOLEAN, en : BOOLEAN, ien : BOOLEAN,
        cr : SUBSET {"STA", "WR", "RD", "STO", "IACK"}, txr : Nat, rxr : Nat, addr : Int, sel : BOOLEAN,
        active : BOOLEAN, delay : Nat, int_line : BOOLEAN]
Hid == [cur_reg : Nat, off : Nat, transmitting : BOOLEAN, event : {"NONE", "COMMAND", "DATA", "OUTPUT"},
        opcode : Nat, report : Nat, queue : Seq(1 .. Reports)]

I2cTypes ==
  /\ bus \in Bus /\ hid \in Hid /\ i2c_todo \in Todos
  /\ upd \in [at : {"idle", "push", "size", "copy", "signal"}, report : 0 .. Reports]
  /\ i2c_pending \in [i2c : BOOLEAN, hid : BOOLEAN]
  /\ drv \in [ops : Seq(Ops), wait : BOOLEAN, probed : BOOLEAN, serving : BOOLEAN, bytes : Seq(Nat), front : Nat]

\* The controller addresses a slave.
Starting == bus.active /\ bus.cr = {"STA", "WR", "IACK"}

\* What the guest's driver relies on: one command at a time, each acknowledged by the next.
Driver ==
  /\ bus.en => bus.ien
  /\ bus.active => bus.cr \in Issued /\ ~bus.if /\ i2c_todo = <<>>
  /\ \A i \in 1 .. Len(drv.ops) : drv.ops[i] = Stop <=> i = Len(drv.ops)
  /\ drv.wait => /\ bus.ien
                 /\ bus.active => bus.cr # {"IACK"} /\ (bus.cr = {"STO", "IACK"} <=> drv.ops = <<>>)
                 /\ ~bus.active => i2c_pending.i2c /\ bus.if /\ (drv.ops = <<>> => ~bus.sel)
                 /\ bus.addr # NoAddr \/ Starting
  /\ ~drv.wait => /\ ~bus.sel /\ drv.ops = <<>> /\ ~drv.serving /\ drv.front = 0
                  /\ bus.active => bus.cr = {"IACK"}

\* The register the keyboard answers from is the input report's between transfers.
Register ==
  drv.probed => \/ hid.cur_reg = 3
                \/ Starting /\ bus.txr = Slave
                \/ ~Starting /\ bus.sel

\* The line of the keyboard.
Signal ==
  /\ bus.sel => hid.transmitting
  /\ i2c_todo \in {<<"pop", "refill">>, <<"refill">>, <<"clear">>} => hid.transmitting
  /\ drv.serving => \/ Starting /\ bus.txr = Slave
                    \/ hid.transmitting
                    \/ drv.ops = <<>> /\ ~bus.active
  /\ /\ hid.queue # <<>> /\ ~hid.transmitting /\ upd.at \in {"idle", "push"}
     /\ ~drv.serving \/ (drv.ops = <<>> /\ ~bus.active)
     /\ i2c_todo \notin {<<"reset", "resignal">>, <<"resignal">>}
     => i2c_pending.hid

\* The reports in the queue follow one another, the newest is the one update() holds.
Nth(f, d) == IF f + d <= Reports THEN f + d ELSE f + d - Reports
Ahead == IF upd.at = "push" THEN 1 ELSE 0
Queue ==
  /\ Len(hid.queue) + Ahead <= QUEUE /\ (upd.at = "push" => upd.report # 0)
  /\ \A i \in 1 .. Len(hid.queue) : upd.report = Nth(hid.queue[i], Len(hid.queue) - i + Ahead)
  /\ hid.queue # <<>> => \/ hid.report = hid.queue[1]
                         \/ i2c_todo = <<"refill">>
                         \/ upd.at = "size" /\ Len(hid.queue) = 1
                         \/ upd.at = "copy"

\* A read that began on a queued report, before and after that report leaves the queue.
Front ==
  /\ hid.cur_reg = 3 /\ hid.queue # <<>> /\ hid.queue[1] = drv.front /\ hid.report = drv.front
  /\ upd.at = "size" => Len(hid.queue) >= 2
  /\ upd.at # "copy"
Gone == upd.report = Nth(drv.front, Len(hid.queue) + Ahead)
Read == Len(drv.bytes) + (IF "RD" \in bus.cr THEN 1 ELSE 0)

Reading ==
  drv.front # 0 =>
    /\ drv.front \in 1 .. Reports /\ drv.serving
    /\ \A i \in 1 .. Len(drv.bytes) : drv.bytes[i] = drv.front
    /\ \A i \in 1 .. Len(drv.ops) - 1 : drv.ops[i] = Rd
    /\ \/ Starting /\ bus.txr = Slave /\ Len(drv.ops) = SIZE + 1 /\ drv.bytes = <<>> /\ Front
       \/ /\ ~bus.active /\ bus.sel /\ ~bus.nack /\ bus.cr \in {Begin, {"RD"}} /\ hid.event = "NONE"
          /\ Read < SIZE /\ hid.off = Read /\ Len(drv.ops) = SIZE + 1 - Read
          /\ "RD" \in bus.cr => bus.rxr = drv.front
          /\ Front /\ i2c_todo = <<>>
       \/ /\ bus.active /\ bus.sel /\ bus.cr = {"RD", "IACK"} /\ hid.event = "NONE"
          /\ Len(drv.bytes) < SIZE /\ hid.off = Len(drv.bytes) /\ Len(drv.ops) = SIZE - Len(drv.bytes)
          /\ Front
       \/ /\ ~bus.active /\ ~bus.nack /\ bus.cr = {"RD"} /\ bus.rxr = drv.front /\ hid.event = "NONE"
          /\ Len(drv.bytes) = SIZE - 1 /\ Len(drv.ops) = 1
          /\ \/ i2c_todo = <<"pop", "refill">> /\ Front
             \/ i2c_todo \in {<<"refill">>, <<"clear">>, <<>>} /\ Gone
       \/ /\ bus.cr \in {{"STO", "IACK"}, {"STO"}} /\ drv.ops = <<>> /\ Len(drv.bytes) = SIZE /\ Gone
          /\ hid.event = "NONE" /\ i2c_todo # <<"reset", "resignal">>
          /\ i2c_todo \in {<<>>, <<"resignal">>}

I2cInv == I2cTypes /\ Driver /\ Register /\ Signal /\ Queue /\ Reading

\* The keyboard's queue and report are not the callbacks' business, but for the last byte of a report.
Kept(g, h) == g \in Hid /\ g.queue = h.queue /\ g.report = h.report

\* start_transmit: a transfer is on, at its first byte, with no event yet.
LEMMA StartTransmit ==
  ASSUME NEW h \in Hid
  PROVE  /\ Kept(start_transmit(h), h)
         /\ start_transmit(h).transmitting = TRUE /\ start_transmit(h).off = 0
         /\ start_transmit(h).event = "NONE" /\ start_transmit(h).cur_reg = h.cur_reg
  <1>1. 0 \in Nat
    OBVIOUS
  <1> QED BY <1>1, Zenon DEF start_transmit, Hid, Kept

\* dev_write leaves the transfer on and the reports alone.
LEMMA DevWrite ==
  ASSUME NEW h \in Hid, NEW v \in Nat
  PROVE  Kept(dev_write(h, v), h) /\ dev_write(h, v).transmitting = h.transmitting
  <1>1. PICK e : e = CASE h.cur_reg = 5 -> "COMMAND" [] h.cur_reg = 6 -> "DATA" [] h.cur_reg = 7 -> "OUTPUT"
                       [] OTHER -> "NONE"
    BY Zenon
  <1>2. e \in {"NONE", "COMMAND", "DATA", "OUTPUT"}
    BY <1>1, Zenon
  <1>3. h.off \in Nat /\ h.opcode \in Nat
    BY Zenon DEF Hid
  <1>4. PICK o, c : /\ o = (IF h.off < 4 THEN h.off + 1 ELSE h.off)
                    /\ c = IF e = "COMMAND" /\ h.off = 3 THEN v ELSE h.opcode
    BY Zenon
  <1>5. o \in Nat /\ c \in Nat /\ 1 \in Nat /\ 2 \in Nat
    BY <1>3, <1>4
  <1>6. \/ h.off = 0 \/ h.off = 1 \/ (h.off > 1 /\ e = "NONE") \/ (h.off > 1 /\ e # "NONE")
    BY <1>3
  <1>7. /\ ~(0 > 1) /\ ~(1 > 1) /\ 0 # 1
    OBVIOUS
  <1>8. dev_write(h, v) = CASE h.off = 0 -> [h EXCEPT !.cur_reg = v, !.off = 1]
                            [] h.off = 1 -> [h EXCEPT !.off = 2]
                            [] h.off > 1 /\ e = "NONE" -> h
                            [] h.off > 1 /\ e # "NONE" -> [h EXCEPT !.event = e, !.off = o, !.opcode = c]
    BY <1>1, <1>4 DEF dev_write
  <1>9. dev_write(h, v) \in {[h EXCEPT !.cur_reg = v, !.off = 1], [h EXCEPT !.off = 2], h,
                             [h EXCEPT !.event = e, !.off = o, !.opcode = c]}
    BY <1>3, <1>6, <1>7, <1>8, Zenon
  <1>10. \A g \in {[h EXCEPT !.cur_reg = v, !.off = 1], [h EXCEPT !.off = 2], h,
                    [h EXCEPT !.event = e, !.off = o, !.opcode = c]} :
           Kept(g, h) /\ g.transmitting = h.transmitting
    BY <1>2, <1>5, Zenon DEF Hid, Kept
  <1> QED BY <1>9, <1>10, Zenon

\* dev_read: the report's bytes, and after the last of them what is left to do.
LEMMA DevRead ==
  ASSUME NEW h \in Hid
  PROVE  /\ dev_read(h).val \in Nat
         /\ Kept(dev_read(h).hid, h) /\ dev_read(h).hid.transmitting = h.transmitting
         /\ dev_read(h).hid.event = h.event /\ dev_read(h).hid.cur_reg = h.cur_reg
         /\ dev_read(h).todo = (IF LastByte(h) THEN <<"pop", "refill">> ELSE <<>>)
         /\ h.cur_reg = 3 /\ h.off < SIZE => dev_read(h).val = h.report
         /\ h.cur_reg = 3 /\ h.off < SIZE - 1 => ~LastByte(h) /\ dev_read(h).hid.off = h.off + 1
         /\ h.cur_reg = 3 /\ h.off = SIZE - 1 => LastByte(h)
  <1>1. h.off \in Nat /\ h.report \in Nat /\ SIZE \in Nat /\ 0 \in Nat
    BY I2cAssumption DEF Hid
  <1>2. PICK o : o = IF h.off < SIZE THEN h.off + 1 ELSE h.off
    BY Zenon
  <1>3. o \in Nat
    BY <1>1, <1>2
  <1>4. /\ dev_read(h).val = (IF h.cur_reg = 3 /\ h.off < SIZE THEN h.report ELSE 0)
        /\ dev_read(h).hid = (IF LastByte(h) THEN h ELSE [h EXCEPT !.off = o])
        /\ dev_read(h).todo = (IF LastByte(h) THEN <<"pop", "refill">> ELSE <<>>)
    BY <1>2 DEF dev_read
  <1>5. \A g \in {h, [h EXCEPT !.off = o]} : /\ Kept(g, h) /\ g.transmitting = h.transmitting
                                            /\ g.event = h.event /\ g.cur_reg = h.cur_reg
    BY <1>3, Zenon DEF Hid, Kept
  <1>6. [h EXCEPT !.off = o].off = o
    BY Zenon DEF Hid
  <1>7. /\ h.cur_reg = 3 /\ h.off < SIZE - 1 => ~LastByte(h) /\ o = h.off + 1
        /\ h.cur_reg = 3 /\ h.off = SIZE - 1 => LastByte(h)
    BY <1>1, <1>2 DEF LastByte
  <1> QED BY <1>1, <1>4, <1>5, <1>6, <1>7, Zenon

\* The stages of execute_command leave the configuration, the command and the interrupt's state alone.
Alike(x, b) ==
  /\ x \in Bus /\ x.en = b.en /\ x.ien = b.ien /\ x.txr = b.txr /\ x.cr = b.cr /\ x.int_line = b.int_line

\* The stages one by one: the START, the address, a write's and a read's acknowledge, the STOP.
LEMMA Stages ==
  ASSUME NEW b \in Bus, NEW v \in Nat, NEW n \in BOOLEAN
  PROVE  /\ Alike([b EXCEPT !.busy = TRUE, !.addr = NoAddr], b)
         /\ [b EXCEPT !.busy = TRUE, !.addr = NoAddr].addr = NoAddr
         /\ Alike(Address(b), b) /\ Address(b).addr = b.txr /\ Address(b).sel = (b.txr = Slave)
         /\ b.txr = Slave => Address(b).nack = FALSE
         /\ Alike([b EXCEPT !.nack = n], b) /\ [b EXCEPT !.nack = n].sel = b.sel
         /\ [b EXCEPT !.nack = n].nack = n /\ [b EXCEPT !.nack = n].addr = b.addr
         /\ Alike([b EXCEPT !.rxr = v, !.nack = n], b) /\ [b EXCEPT !.rxr = v, !.nack = n].sel = b.sel
         /\ [b EXCEPT !.rxr = v, !.nack = n].rxr = v /\ [b EXCEPT !.rxr = v, !.nack = n].nack = n
         /\ [b EXCEPT !.rxr = v, !.nack = n].addr = b.addr
         /\ Alike([b EXCEPT !.sel = FALSE, !.busy = FALSE], b)
         /\ [b EXCEPT !.sel = FALSE, !.busy = FALSE].sel = FALSE
         /\ [b EXCEPT !.sel = FALSE, !.busy = FALSE].addr = b.addr
  <1>1. NoAddr \in Int
    BY DEF NoAddr
  <1>2. /\ Alike([b EXCEPT !.busy = TRUE, !.addr = NoAddr], b)
        /\ [b EXCEPT !.busy = TRUE, !.addr = NoAddr].addr = NoAddr
    BY <1>1, Zenon DEF Bus, Alike
  <1>3. /\ Alike(Address(b), b) /\ Address(b).addr = b.txr /\ Address(b).sel = (b.txr = Slave)
        /\ b.txr = Slave => Address(b).nack = FALSE
    <2>1. PICK m : m = IF b.txr = Slave THEN FALSE ELSE b.nack
      BY Zenon
    <2>2. m \in BOOLEAN /\ b.txr \in Int
      <3>1. b.nack \in BOOLEAN /\ b.txr \in Nat
        BY Zenon DEF Bus
      <3>2. b.txr \in Int
        BY <3>1
      <3> QED BY <2>1, <3>1, <3>2, Zenon
    <2>3. Address(b) = [b EXCEPT !.addr = b.txr, !.sel = (b.txr = Slave), !.nack = m]
      BY <2>1, Zenon DEF Address
    <2> QED BY <2>1, <2>2, <2>3, Zenon DEF Bus, Alike
  <1>4. /\ Alike([b EXCEPT !.nack = n], b) /\ [b EXCEPT !.nack = n].sel = b.sel
        /\ [b EXCEPT !.nack = n].nack = n /\ [b EXCEPT !.nack = n].addr = b.addr
    BY Zenon DEF Bus, Alike
  <1>5. /\ Alike([b EXCEPT !.rxr = v, !.nack = n], b) /\ [b EXCEPT !.rxr = v, !.nack = n].sel = b.sel
        /\ [b EXCEPT !.rxr = v, !.nack = n].rxr = v /\ [b EXCEPT !.rxr = v, !.nack = n].nack = n
        /\ [b EXCEPT !.rxr = v, !.nack = n].addr = b.addr
    BY Zenon DEF Bus, Alike
  <1>6. /\ Alike([b EXCEPT !.sel = FALSE, !.busy = FALSE], b)
        /\ [b EXCEPT !.sel = FALSE, !.busy = FALSE].sel = FALSE
        /\ [b EXCEPT !.sel = FALSE, !.busy = FALSE].addr = b.addr
    BY Zenon DEF Bus, Alike
  <1> QED BY <1>2, <1>3, <1>4, <1>5, <1>6, Zenon

\* A command's end: the interrupt flag, and the line when interrupts are enabled.
LEMMA Ended ==
  ASSUME NEW b \in Bus, NEW p \in [i2c : BOOLEAN, hid : BOOLEAN], b.int_line = FALSE,
         bus' = [b EXCEPT !.tip = FALSE, !.if = TRUE, !.active = FALSE, !.int_line = @ \/ b.ien],
         i2c_pending' = raise_interrupt(b, p)
  PROVE  /\ bus' \in Bus /\ i2c_pending' \in [i2c : BOOLEAN, hid : BOOLEAN]
         /\ bus'.en = b.en /\ bus'.ien = b.ien /\ bus'.txr = b.txr /\ bus'.cr = b.cr /\ bus'.addr = b.addr
         /\ bus'.sel = b.sel /\ bus'.nack = b.nack /\ bus'.rxr = b.rxr
         /\ bus'.active = FALSE /\ bus'.if /\ i2c_pending'.hid = p.hid /\ (b.ien => i2c_pending'.i2c)
  <1>1. (b.int_line \/ b.ien) \in BOOLEAN
    BY Zenon
  <1>2. bus' = [b EXCEPT !.tip = FALSE, !.if = TRUE, !.active = FALSE, !.int_line = b.int_line \/ b.ien]
    BY Zenon
  <1>3. /\ bus' \in Bus
        /\ bus'.en = b.en /\ bus'.ien = b.ien /\ bus'.txr = b.txr /\ bus'.cr = b.cr /\ bus'.addr = b.addr
        /\ bus'.sel = b.sel /\ bus'.nack = b.nack /\ bus'.rxr = b.rxr
        /\ bus'.active = FALSE /\ bus'.if
    BY <1>1, <1>2, Zenon DEF Bus
  <1>4. /\ i2c_pending' \in [i2c : BOOLEAN, hid : BOOLEAN]
        /\ i2c_pending'.hid = p.hid /\ (b.ien => i2c_pending'.i2c)
    BY Zenon DEF raise_interrupt
  <1> QED BY <1>3, <1>4, Zenon

\* The acknowledge that rides on every command.
Acked == [bus EXCEPT !.if = FALSE, !.int_line = FALSE, !.cr = bus.cr \ {"IACK"}]

\* IACK clears the flag and lowers the line before the rest of the command runs.
LEMMA Acknowledged ==
  ASSUME bus \in Bus, i2c_pending \in [i2c : BOOLEAN, hid : BOOLEAN], "IACK" \in bus.cr
  PROVE  /\ (IF "IACK" \in bus.cr THEN ack(bus) ELSE bus) = Acked
         /\ Acked \in Bus /\ Acked.en = bus.en /\ Acked.ien = bus.ien /\ Acked.txr = bus.txr
         /\ Acked.cr = bus.cr \ {"IACK"} /\ Acked.int_line = FALSE
         /\ Acked.sel = bus.sel /\ Acked.nack = bus.nack /\ Acked.addr = bus.addr /\ Acked.rxr = bus.rxr
         /\ lower_interrupt(bus, i2c_pending) \in [i2c : BOOLEAN, hid : BOOLEAN]
         /\ lower_interrupt(bus, i2c_pending).hid = i2c_pending.hid
  <1>1. (IF "IACK" \in bus.cr THEN ack(bus) ELSE bus) = Acked
    BY Zenon DEF ack, Acked
  <1>2. /\ Acked \in Bus /\ Acked.en = bus.en /\ Acked.ien = bus.ien /\ Acked.txr = bus.txr
        /\ Acked.cr = bus.cr \ {"IACK"} /\ Acked.int_line = FALSE
        /\ Acked.sel = bus.sel /\ Acked.nack = bus.nack /\ Acked.addr = bus.addr /\ Acked.rxr = bus.rxr
    BY Zenon DEF Bus, Acked
  <1>3. /\ lower_interrupt(bus, i2c_pending) \in [i2c : BOOLEAN, hid : BOOLEAN]
        /\ lower_interrupt(bus, i2c_pending).hid = i2c_pending.hid
    BY Zenon DEF lower_interrupt
  <1> QED BY <1>1, <1>2, <1>3, Zenon

\* What all commands have in common, and what each does to the bus and to the keyboard.
Common ==
  /\ bus' \in Bus /\ i2c_pending' \in [i2c : BOOLEAN, hid : BOOLEAN] /\ UNCHANGED <<upd, drv>>
  /\ bus'.en = bus.en /\ bus'.ien = bus.ien /\ bus'.txr = bus.txr /\ bus'.cr = bus.cr \ {"IACK"}
  /\ bus'.active = FALSE /\ i2c_pending'.hid = i2c_pending.hid
Raised == bus'.if /\ (bus.ien => i2c_pending'.i2c)

\* The acknowledge alone, which ends a transfer.
LEMMA ExecuteIack ==
  ASSUME bus \in Bus, hid \in Hid, i2c_pending \in [i2c : BOOLEAN, hid : BOOLEAN],
         bus.cr = {"IACK"}, execute_command
  PROVE  Common /\ hid' = hid /\ i2c_todo' = <<>> /\ bus'.sel = bus.sel /\ bus'.addr = bus.addr
  <1>1. "IACK" \in bus.cr /\ bus.cr \ {"IACK"} = {}
    OBVIOUS
  <1>2. PICK b0, p0 : b0 = Acked /\ p0 = lower_interrupt(bus, i2c_pending)
    BY Zenon
  <1>3. /\ b0 \in Bus /\ b0.en = bus.en /\ b0.ien = bus.ien /\ b0.txr = bus.txr
        /\ b0.cr = {} /\ b0.int_line = FALSE
        /\ b0.sel = bus.sel /\ b0.nack = bus.nack /\ b0.addr = bus.addr /\ b0.rxr = bus.rxr
        /\ p0 \in [i2c : BOOLEAN, hid : BOOLEAN] /\ p0.hid = i2c_pending.hid
    BY <1>1, <1>2, Acknowledged, Zenon
  <1>4. /\ bus' = [b0 EXCEPT !.active = FALSE] /\ i2c_pending' = p0
        /\ i2c_todo' = <<>> \o <<>>
        /\ hid' = [hid EXCEPT !.opcode = hid.opcode] /\ UNCHANGED <<upd, drv>>
    BY <1>1, <1>2, <1>3, Acknowledged, Zenon DEF execute_command
  <1>5. hid' = hid /\ i2c_todo' = <<>>
    BY <1>4 DEF Hid
  <1>6. /\ bus' \in Bus /\ bus'.en = b0.en /\ bus'.ien = b0.ien /\ bus'.txr = b0.txr /\ bus'.cr = b0.cr
        /\ bus'.active = FALSE /\ bus'.sel = b0.sel /\ bus'.addr = b0.addr
    BY <1>3, <1>4, Zenon DEF Bus
  <1> QED BY <1>1, <1>3, <1>4, <1>5, <1>6, Zenon DEF Common

\* STA with WR addresses a slave.
LEMMA ExecuteStart ==
  ASSUME bus \in Bus, hid \in Hid, i2c_pending \in [i2c : BOOLEAN, hid : BOOLEAN],
         bus.cr = {"STA", "WR", "IACK"}, execute_command
  PROVE  /\ Common /\ Raised /\ i2c_todo' = <<>> /\ bus'.addr = bus.txr /\ bus'.sel = (bus.txr = Slave)
         /\ bus.txr = Slave => hid' = start_transmit(hid) /\ bus'.nack = FALSE
         /\ bus.txr # Slave => hid' = hid
  <1>1. /\ "IACK" \in bus.cr /\ bus.cr \ {"IACK"} = Begin
        /\ "STA" \in Begin /\ "WR" \in Begin /\ "RD" \notin Begin /\ "STO" \notin Begin /\ Begin # {}
    BY DEF Begin
  <1>2. PICK b0, p0 : b0 = Acked /\ p0 = lower_interrupt(bus, i2c_pending)
    BY Zenon
  <1>3. /\ b0 \in Bus /\ b0.en = bus.en /\ b0.ien = bus.ien /\ b0.txr = bus.txr
        /\ b0.cr = Begin /\ b0.int_line = FALSE
        /\ p0 \in [i2c : BOOLEAN, hid : BOOLEAN] /\ p0.hid = i2c_pending.hid
    BY <1>1, <1>2, Acknowledged, Zenon
  <1>4. PICK b1 : b1 = [b0 EXCEPT !.busy = TRUE, !.addr = NoAddr]
    BY Zenon
  <1>5. Alike(b1, b0) /\ b1.addr = NoAddr
    BY <1>3, <1>4, Stages, Zenon
  <1>6. PICK b2 : b2 = Address(b1)
    BY Zenon
  <1>7. /\ Alike(b2, b1) /\ b2.addr = b1.txr /\ b2.sel = (b1.txr = Slave)
        /\ b1.txr = Slave => b2.nack = FALSE
    BY <1>5, <1>6, Stages, Zenon DEF Alike
  <1>8. PICK h2 : h2 = IF b2.sel THEN start_transmit(hid) ELSE hid
    BY Zenon
  <1>9. /\ bus' = [b2 EXCEPT !.tip = FALSE, !.if = TRUE, !.active = FALSE, !.int_line = @ \/ b2.ien]
        /\ i2c_pending' = raise_interrupt(b2, p0)
        /\ i2c_todo' = <<>> \o <<>>
        /\ hid' = [h2 EXCEPT !.opcode = h2.opcode] /\ UNCHANGED <<upd, drv>>
    BY <1>1, <1>2, <1>3, <1>4, <1>5, <1>6, <1>8, Acknowledged, ZenonT(60) DEF execute_command
  <1>10. h2 \in Hid
    BY <1>8, StartTransmit, Zenon DEF Kept
  <1>11. hid' = h2 /\ i2c_todo' = <<>>
    BY <1>9, <1>10 DEF Hid
  <1>12. b2 \in Bus /\ b2.int_line = FALSE /\ b2.en = bus.en /\ b2.ien = bus.ien /\ b2.txr = bus.txr /\ b2.cr = Begin
    BY <1>3, <1>5, <1>7, Zenon DEF Alike
  <1>13. /\ bus' \in Bus /\ i2c_pending' \in [i2c : BOOLEAN, hid : BOOLEAN]
         /\ bus'.en = b2.en /\ bus'.ien = b2.ien /\ bus'.txr = b2.txr /\ bus'.cr = b2.cr /\ bus'.addr = b2.addr
         /\ bus'.sel = b2.sel /\ bus'.nack = b2.nack
         /\ bus'.active = FALSE /\ bus'.if /\ i2c_pending'.hid = p0.hid /\ (b2.ien => i2c_pending'.i2c)
    BY <1>3, <1>9, <1>12, Ended, Zenon
  <1>14. b1.txr = bus.txr
    BY <1>3, <1>5, Zenon DEF Alike
  <1> QED BY <1>1, <1>3, <1>7, <1>8, <1>9, <1>11, <1>12, <1>13, <1>14, Zenon DEF Common, Raised

\* WR alone writes a byte to the slave that is addressed.
LEMMA ExecuteWrite ==
  ASSUME bus \in Bus, hid \in Hid, i2c_pending \in [i2c : BOOLEAN, hid : BOOLEAN],
         bus.cr = {"WR", "IACK"}, bus.addr # NoAddr, execute_command
  PROVE  /\ Common /\ Raised /\ i2c_todo' = <<>> /\ bus'.addr = bus.addr /\ bus'.sel = bus.sel
         /\ Kept(hid', hid) /\ hid'.transmitting = hid.transmitting
         /\ ~bus.sel => hid' = hid
  <1>1. /\ "IACK" \in bus.cr /\ bus.cr \ {"IACK"} = {"WR"}
        /\ "STA" \notin {"WR"} /\ "WR" \in {"WR"} /\ "RD" \notin {"WR"} /\ "STO" \notin {"WR"} /\ {"WR"} # {}
    OBVIOUS
  <1>2. PICK b0, p0 : b0 = Acked /\ p0 = lower_interrupt(bus, i2c_pending)
    BY Zenon
  <1>3. /\ b0 \in Bus /\ b0.en = bus.en /\ b0.ien = bus.ien /\ b0.txr = bus.txr
        /\ b0.cr = {"WR"} /\ b0.int_line = FALSE /\ b0.addr = bus.addr /\ b0.sel = bus.sel
        /\ p0 \in [i2c : BOOLEAN, hid : BOOLEAN] /\ p0.hid = i2c_pending.hid
    BY <1>1, <1>2, Acknowledged, Zenon
  <1>n. PICK n : n = (~b0.sel)
    BY Zenon
  <1>4. PICK b2 : b2 = [b0 EXCEPT !.nack = n]
    BY Zenon
  <1>5. /\ Alike(b2, b0) /\ b2.addr = b0.addr /\ b2.sel = b0.sel
    <2>1. n \in BOOLEAN /\ 0 \in Nat
      BY <1>n
    <2> QED BY <1>3, <1>4, <2>1, Zenon DEF Bus, Alike
  <1>6. PICK h2 : h2 = IF b2.sel THEN dev_write(hid, b0.txr) ELSE hid
    BY Zenon
  <1>7. /\ bus' = [b2 EXCEPT !.tip = FALSE, !.if = TRUE, !.active = FALSE, !.int_line = @ \/ b2.ien]
        /\ i2c_pending' = raise_interrupt(b2, p0)
        /\ i2c_todo' = <<>> \o <<>>
        /\ hid' = [h2 EXCEPT !.opcode = h2.opcode] /\ UNCHANGED <<upd, drv>>
    BY <1>1, <1>2, <1>3, <1>n, <1>4, <1>5, <1>6, Acknowledged, ZenonT(60) DEF execute_command
  <1>8. Kept(h2, hid) /\ h2.transmitting = hid.transmitting
    <2>1. b0.txr \in Nat
      BY <1>3, Zenon DEF Bus
    <2> QED BY <1>6, <2>1, DevWrite, Zenon DEF Kept
  <1>9. hid' = h2 /\ i2c_todo' = <<>>
    BY <1>7, <1>8 DEF Hid, Kept
  <1>10. b2 \in Bus /\ b2.int_line = FALSE /\ b2.en = bus.en /\ b2.ien = bus.ien /\ b2.txr = bus.txr /\ b2.cr = {"WR"}
    BY <1>3, <1>5, Zenon DEF Alike
  <1>11. /\ bus' \in Bus /\ i2c_pending' \in [i2c : BOOLEAN, hid : BOOLEAN]
         /\ bus'.en = b2.en /\ bus'.ien = b2.ien /\ bus'.txr = b2.txr /\ bus'.cr = b2.cr /\ bus'.addr = b2.addr
         /\ bus'.sel = b2.sel
         /\ bus'.active = FALSE /\ bus'.if /\ i2c_pending'.hid = p0.hid /\ (b2.ien => i2c_pending'.i2c)
    BY <1>3, <1>7, <1>10, Ended, Zenon
  <1> QED BY <1>1, <1>3, <1>5, <1>6, <1>7, <1>8, <1>9, <1>10, <1>11, Zenon DEF Common, Raised

\* RD reads a byte, and the last byte of a report leaves the callback's end to do.
LEMMA ExecuteRead ==
  ASSUME bus \in Bus, hid \in Hid, i2c_pending \in [i2c : BOOLEAN, hid : BOOLEAN],
         bus.cr = {"RD", "IACK"}, execute_command
  PROVE  /\ Common /\ Raised /\ bus'.addr = bus.addr /\ bus'.sel = bus.sel
         /\ bus.sel => /\ bus'.nack = FALSE /\ bus'.rxr = dev_read(hid).val /\ hid' = dev_read(hid).hid
                       /\ i2c_todo' = dev_read(hid).todo
         /\ ~bus.sel => hid' = hid /\ i2c_todo' = <<>>
  <1>1. /\ "IACK" \in bus.cr /\ bus.cr \ {"IACK"} = {"RD"}
        /\ "STA" \notin {"RD"} /\ "WR" \notin {"RD"} /\ "RD" \in {"RD"} /\ "STO" \notin {"RD"} /\ {"RD"} # {}
    OBVIOUS
  <1>2. PICK b0, p0 : b0 = Acked /\ p0 = lower_interrupt(bus, i2c_pending)
    BY Zenon
  <1>3. /\ b0 \in Bus /\ b0.en = bus.en /\ b0.ien = bus.ien /\ b0.txr = bus.txr
        /\ b0.cr = {"RD"} /\ b0.int_line = FALSE /\ b0.addr = bus.addr /\ b0.sel = bus.sel
        /\ p0 \in [i2c : BOOLEAN, hid : BOOLEAN] /\ p0.hid = i2c_pending.hid
    BY <1>1, <1>2, Acknowledged, Zenon
  <1>4. PICK v : v = IF b0.sel THEN dev_read(hid).val ELSE 0
    BY Zenon
  <1>n. PICK n : n = (~b0.sel)
    BY Zenon
  <1>5. v \in Nat /\ n \in BOOLEAN
    <2>1. 0 \in Nat /\ n \in BOOLEAN
      BY <1>n
    <2> QED BY <1>4, <2>1, DevRead, Zenon
  <1>6. PICK b3 : b3 = [b0 EXCEPT !.rxr = v, !.nack = n]
    BY Zenon
  <1>7. Alike(b3, b0) /\ b3.addr = b0.addr /\ b3.sel = b0.sel /\ b3.rxr = v /\ b3.nack = n
    BY <1>3, <1>5, <1>6, Zenon DEF Bus, Alike
  <1>8. PICK h3, t3 : /\ h3 = (IF b0.sel THEN dev_read(hid).hid ELSE hid)
                      /\ t3 = (IF b0.sel THEN dev_read(hid).todo ELSE <<>>)
    BY Zenon
  <1>9. /\ bus' = [b3 EXCEPT !.tip = FALSE, !.if = TRUE, !.active = FALSE, !.int_line = @ \/ b3.ien]
        /\ i2c_pending' = raise_interrupt(b3, p0)
        /\ i2c_todo' = t3 \o <<>>
        /\ hid' = [h3 EXCEPT !.opcode = h3.opcode] /\ UNCHANGED <<upd, drv>>
    BY <1>1, <1>2, <1>3, <1>n, <1>4, <1>6, <1>7, <1>8, Acknowledged, ZenonT(60) DEF execute_command
  <1>10. h3 \in Hid /\ t3 \in {<<>>, <<"pop", "refill">>}
    BY <1>8, DevRead, Zenon DEF Kept
  <1>11. hid' = h3 /\ i2c_todo' = t3
    <2>1. hid' = h3
      BY <1>9, <1>10 DEF Hid
    <2>2. t3 \o <<>> = t3
      BY <1>10, ConcatEmptySeq
    <2> QED BY <1>9, <2>1, <2>2, Zenon
  <1>12. b3 \in Bus /\ b3.int_line = FALSE /\ b3.en = bus.en /\ b3.ien = bus.ien /\ b3.txr = bus.txr /\ b3.cr = {"RD"}
    BY <1>3, <1>7, Zenon DEF Alike
  <1>13. /\ bus' \in Bus /\ i2c_pending' \in [i2c : BOOLEAN, hid : BOOLEAN]
         /\ bus'.en = b3.en /\ bus'.ien = b3.ien /\ bus'.txr = b3.txr /\ bus'.cr = b3.cr /\ bus'.addr = b3.addr
         /\ bus'.sel = b3.sel /\ bus'.nack = b3.nack /\ bus'.rxr = b3.rxr
         /\ bus'.active = FALSE /\ bus'.if /\ i2c_pending'.hid = p0.hid /\ (b3.ien => i2c_pending'.i2c)
    BY <1>3, <1>9, <1>12, Ended, Zenon
  <1>14. bus.sel => bus'.nack = FALSE
    BY <1>3, <1>n, <1>7, <1>13, Zenon
  <1> QED BY <1>1, <1>3, <1>4, <1>7, <1>8, <1>9, <1>11, <1>12, <1>13, <1>14, ZenonT(60) DEF Common, Raised

\* Sequences of one and of two elements.
LEMMA Short ==
  ASSUME NEW S, NEW x \in S, NEW y \in S
  PROVE  /\ <<x>> \in Seq(S) /\ <<x, y>> \in Seq(S)
         /\ <<>> \o <<x>> = <<x>> /\ <<x>> \o <<y>> = <<x, y>>
  <1>1. <<x>> \in Seq(S) /\ <<y>> \in Seq(S) /\ <<x, y>> \in Seq(S)
    OBVIOUS
  <1>2. PICK a, b, c : a = <<x>> /\ b = <<y>> /\ c = <<x, y>>
    BY Zenon
  <1>3. Len(a) = 1 /\ Len(b) = 1 /\ Len(c) = 2 /\ a[1] = x /\ b[1] = y /\ c[1] = x /\ c[2] = y
    BY <1>2
  <1>4. a \in Seq(S) /\ b \in Seq(S) /\ c \in Seq(S)
    BY <1>1, <1>2, Zenon
  <1>5. a \o b = c
    <2>1. a \o b \in Seq(S) /\ Len(a \o b) = 2 /\ (a \o b)[1] = x /\ (a \o b)[2] = y
      BY <1>3, <1>4, ConcatProperties
    <2>2. \A i \in 1 .. Len(a \o b) : (a \o b)[i] = c[i]
      BY <2>1, <1>3
    <2>3. Len(a \o b) = Len(c)
      BY <2>1, <1>3
    <2> QED BY <2>1, <2>2, <2>3, <1>4, SeqEqual
  <1>6. <<>> \o <<x>> = <<x>>
    BY <1>1, ConcatEmptySeq, Zenon
  <1> QED BY <1>1, <1>2, <1>5, <1>6, Zenon

\* STO lets the slave go, which applies what was written to it and looks at its queue.
LEMMA ExecuteStop ==
  ASSUME bus \in Bus, hid \in Hid, i2c_pending \in [i2c : BOOLEAN, hid : BOOLEAN],
         bus.cr = {"STO", "IACK"}, execute_command
  PROVE  /\ Common /\ Raised /\ bus'.addr = bus.addr /\ bus'.sel = FALSE
         /\ Kept(hid', hid) /\ hid'.event = hid.event
         /\ bus.sel => /\ hid'.transmitting = FALSE /\ hid'.cur_reg = 3
                       /\ i2c_todo' \in {<<"resignal">>, <<"reset", "resignal">>}
                       /\ hid.event = "NONE" => i2c_todo' = <<"resignal">>
         /\ ~bus.sel => i2c_todo' = <<>> /\ hid'.transmitting = hid.transmitting /\ hid'.cur_reg = hid.cur_reg
  <1>1. /\ "IACK" \in bus.cr /\ bus.cr \ {"IACK"} = {"STO"}
        /\ "STA" \notin {"STO"} /\ "WR" \notin {"STO"} /\ "RD" \notin {"STO"} /\ "STO" \in {"STO"} /\ {"STO"} # {}
    OBVIOUS
  <1>2. PICK b0, p0 : b0 = Acked /\ p0 = lower_interrupt(bus, i2c_pending)
    BY Zenon
  <1>3. /\ b0 \in Bus /\ b0.en = bus.en /\ b0.ien = bus.ien /\ b0.txr = bus.txr
        /\ b0.cr = {"STO"} /\ b0.int_line = FALSE /\ b0.addr = bus.addr /\ b0.sel = bus.sel
        /\ p0 \in [i2c : BOOLEAN, hid : BOOLEAN] /\ p0.hid = i2c_pending.hid
    BY <1>1, <1>2, Acknowledged, Zenon
  <1>4. PICK b4 : b4 = [b0 EXCEPT !.sel = FALSE, !.busy = FALSE]
    BY Zenon
  <1>5. Alike(b4, b0) /\ b4.addr = b0.addr /\ b4.sel = FALSE
    <2>1. 0 \in Nat /\ TRUE \in BOOLEAN
      OBVIOUS
    <2> QED BY <1>3, <1>4, <2>1, Stages, Zenon
  <1>6. PICK h4, t4 : /\ h4 = (IF b0.sel THEN [hid EXCEPT !.transmitting = FALSE, !.cur_reg = 3] ELSE hid)
                      /\ t4 = (IF b0.sel
                               THEN (IF hid.event = "COMMAND" /\ hid.opcode = 1 THEN <<"reset">> ELSE <<>>)
                                    \o <<"resignal">>
                               ELSE <<>>)
    BY Zenon
  <1>7. /\ bus' = [b4 EXCEPT !.tip = FALSE, !.if = TRUE, !.active = FALSE, !.int_line = @ \/ b4.ien]
        /\ i2c_pending' = raise_interrupt(b4, p0)
        /\ i2c_todo' = <<>> \o t4
        /\ hid' = [h4 EXCEPT !.opcode = 0] /\ UNCHANGED <<upd, drv>>
    BY <1>1, <1>2, <1>3, <1>4, <1>6, Acknowledged, ZenonT(60) DEF execute_command
  <1>8. /\ hid' \in Hid /\ hid'.queue = hid.queue /\ hid'.report = hid.report /\ hid'.event = hid.event
        /\ b0.sel => hid'.transmitting = FALSE /\ hid'.cur_reg = 3
        /\ ~b0.sel => hid'.transmitting = hid.transmitting /\ hid'.cur_reg = hid.cur_reg
    <2>1. 0 \in Nat /\ 3 \in Nat
      OBVIOUS
    <2>2. CASE b0.sel
      <3>1. hid' = [[hid EXCEPT !.transmitting = FALSE, !.cur_reg = 3] EXCEPT !.opcode = 0]
        BY <1>6, <1>7, <2>2, Zenon
      <3> QED BY <2>1, <2>2, <3>1, ZenonT(60) DEF Hid
    <2>3. CASE ~b0.sel
      <3>1. hid' = [hid EXCEPT !.opcode = 0]
        BY <1>6, <1>7, <2>3, Zenon
      <3> QED BY <2>1, <2>3, <3>1, ZenonT(60) DEF Hid
    <2> QED BY <2>2, <2>3, Zenon
  <1>9. /\ b0.sel => /\ t4 \in {<<"resignal">>, <<"reset", "resignal">>}
                     /\ hid.event = "NONE" => t4 = <<"resignal">>
        /\ ~b0.sel => t4 = <<>>
    <2>1. <<>> \o <<"resignal">> = <<"resignal">> /\ <<"reset">> \o <<"resignal">> = <<"reset", "resignal">>
      <3>1. "reset" \in {"reset", "resignal"} /\ "resignal" \in {"reset", "resignal"}
        BY Zenon
      <3> QED BY <3>1, Short, Zenon
    <2>2. "NONE" # "COMMAND"
      OBVIOUS
    <2> QED BY <1>6, <2>1, <2>2, Zenon
  <1>10. i2c_todo' = t4
    <2>1. t4 \in {<<>>, <<"resignal">>, <<"reset", "resignal">>}
      BY <1>9, Zenon
    <2>2. t4 \in Seq({"reset", "resignal"})
      <3>1. /\ <<>> \in Seq({"reset", "resignal"}) /\ <<"resignal">> \in Seq({"reset", "resignal"})
            /\ <<"reset", "resignal">> \in Seq({"reset", "resignal"})
        OBVIOUS
      <3> QED BY <2>1, <3>1, Zenon
    <2> QED BY <1>7, <2>2, ConcatEmptySeq, Zenon
  <1>11. b4 \in Bus /\ b4.int_line = FALSE /\ b4.en = bus.en /\ b4.ien = bus.ien /\ b4.txr = bus.txr /\ b4.cr = {"STO"}
    BY <1>3, <1>5, Zenon DEF Alike
  <1>12. /\ bus' \in Bus /\ i2c_pending' \in [i2c : BOOLEAN, hid : BOOLEAN]
         /\ bus'.en = b4.en /\ bus'.ien = b4.ien /\ bus'.txr = b4.txr /\ bus'.cr = b4.cr /\ bus'.addr = b4.addr
         /\ bus'.sel = b4.sel
         /\ bus'.active = FALSE /\ bus'.if /\ i2c_pending'.hid = p0.hid /\ (b4.ien => i2c_pending'.i2c)
    BY <1>3, <1>7, <1>11, Ended, Zenon
  <1> QED BY <1>1, <1>3, <1>5, <1>7, <1>8, <1>9, <1>10, <1>11, <1>12, ZenonT(60) DEF Common, Raised, Kept

\* The front of a sequence that is not empty.
LEMMA HeadIsFirst ==
  ASSUME NEW S, NEW s \in Seq(S), s # <<>>
  PROVE  Head(s) = s[1] /\ s[1] \in S
  OBVIOUS

\* A report stands at distance 0 of itself.
LEMMA NthZero ==
  ASSUME NEW f \in 1 .. Reports
  PROVE  Nth(f, 0) = f
  BY I2cAssumption DEF Nth

\* The report after the d-th.
LEMMA NthNext ==
  ASSUME NEW f \in 1 .. Reports, NEW d \in Nat, d + 1 < Reports
  PROVE  Nth(f, d + 1) = (Nth(f, d) % Reports) + 1
  <1>1. Reports \in Nat /\ Reports > 0
    BY I2cAssumption
  <1>2. \A x \in Nat : x < Reports => x % Reports = x
    BY <1>1
  <1>3. Reports % Reports = 0
    BY <1>1
  <1> QED BY <1>1, <1>2, <1>3 DEF Nth

\* Reports less than a round apart differ.
LEMMA NthDiffers ==
  ASSUME NEW f \in 1 .. Reports, NEW g \in 1 .. Reports, NEW d \in Nat, NEW e \in Nat,
         d < e, e < Reports, Nth(f, d) = Nth(g, e)
  PROVE  f # g
  BY I2cAssumption DEF Nth

\* What the work thread may have left to do in a callback.
LEMMA TodoSteps ==
  ASSUME i2c_todo \in Todos, i2c_todo # <<>>
  PROVE  /\ Head(i2c_todo) = "pop" => i2c_todo = <<"pop", "refill">> /\ Tail(i2c_todo) = <<"refill">>
         /\ Head(i2c_todo) = "refill" => i2c_todo = <<"refill">> /\ Tail(i2c_todo) = <<>>
         /\ Head(i2c_todo) = "clear" => i2c_todo = <<"clear">> /\ Tail(i2c_todo) = <<>>
         /\ Head(i2c_todo) = "reset" => i2c_todo = <<"reset", "resignal">> /\ Tail(i2c_todo) = <<"resignal">>
         /\ Head(i2c_todo) = "resignal" => i2c_todo = <<"resignal">> /\ Tail(i2c_todo) = <<>>
  <1>1. /\ Head(<<"pop", "refill">>) = "pop" /\ Tail(<<"pop", "refill">>) = <<"refill">>
        /\ Head(<<"reset", "resignal">>) = "reset" /\ Tail(<<"reset", "resignal">>) = <<"resignal">>
    OBVIOUS
  <1>2. /\ Head(<<"refill">>) = "refill" /\ Tail(<<"refill">>) = <<>>
        /\ Head(<<"clear">>) = "clear" /\ Tail(<<"clear">>) = <<>>
        /\ Head(<<"resignal">>) = "resignal" /\ Tail(<<"resignal">>) = <<>>
    OBVIOUS
  <1> QED BY <1>1, <1>2, Zenon DEF Todos

\* The callbacks' ends are different from one another.
LEMMA TodoDiffer ==
  /\ <<>> # <<"pop", "refill">> /\ <<>> # <<"refill">> /\ <<>> # <<"clear">> /\ <<>> # <<"resignal">>
  /\ <<>> # <<"reset", "resignal">>
  /\ <<"refill">> # <<"pop", "refill">> /\ <<"refill">> # <<"clear">> /\ <<"refill">> # <<"resignal">>
  /\ <<"refill">> # <<"reset", "resignal">>
  /\ <<"clear">> # <<"pop", "refill">> /\ <<"clear">> # <<"resignal">> /\ <<"clear">> # <<"reset", "resignal">>
  /\ <<"pop", "refill">> # <<"resignal">> /\ <<"pop", "refill">> # <<"reset", "resignal">>
  /\ <<"resignal">> # <<"reset", "resignal">>
  OBVIOUS

\* Steps that leave the bus and the driver alone: the window's thread, and the callbacks' ends.
LEMMA DriverFrame ==
  ASSUME Driver, bus' = bus, drv' = drv, bus.active => i2c_todo' = i2c_todo,
         i2c_pending'.i2c = i2c_pending.i2c
  PROVE  Driver'
  BY Zenon DEF Driver, Starting

\* The register changes only with the keyboard's own, or when a slave is addressed or let go.
LEMMA RegisterFrame ==
  ASSUME Register, bus' = bus, drv' = drv, hid'.cur_reg = hid.cur_reg
  PROVE  Register'
  BY Zenon DEF Register, Starting

\* A read goes on while neither the bus nor the driver moves, with its report where it was.
LEMMA ReadingFrame ==
  ASSUME Reading, bus' = bus, drv' = drv, i2c_todo' = i2c_todo, hid'.event = hid.event, hid'.off = hid.off,
         Front => Front', Gone => Gone'
  PROVE  Reading'
  <1>1. Read' = Read
    BY Zenon DEF Read
  <1>2. PICK r : Read = r
    BY Zenon
  <1> QED BY <1>1, <1>2, ZenonT(60) DEF Reading, Starting

\* What the parts of the invariant say of the queue.
LEMMA QueueShape ==
  ASSUME I2cTypes, Queue
  PROVE  /\ hid.queue \in Seq(1 .. Reports) /\ Len(hid.queue) \in Nat /\ Ahead \in {0, 1}
         /\ Len(hid.queue) + Ahead <= QUEUE /\ QUEUE < Reports /\ QUEUE \in Nat /\ Reports \in Nat
         /\ \A i \in 1 .. Len(hid.queue) : hid.queue[i] \in 1 .. Reports
         /\ upd.report \in 0 .. Reports
  <1>1. hid.queue \in Seq(1 .. Reports) /\ upd.report \in 0 .. Reports
    BY Zenon DEF I2cTypes, Hid
  <1>2. Ahead \in {0, 1}
    BY Zenon DEF Ahead
  <1>3. \A i \in 1 .. Len(hid.queue) : hid.queue[i] \in 1 .. Reports
    BY <1>1, ElementOfSeq
  <1>4. Len(hid.queue) \in Nat
    BY <1>1
  <1> QED BY <1>1, <1>2, <1>3, <1>4, I2cAssumption DEF Queue

\* update() takes the next report when the queue has room.
LEMMA UpdateTakes ==
  ASSUME I2cInv, upd.at = "idle", Len(hid.queue) < QUEUE,
         upd' = [at |-> "push", report |-> (upd.report % Reports) + 1],
         UNCHANGED <<bus, hid, i2c_todo, i2c_pending, drv>>
  PROVE  I2cInv'
  <1> USE DEF I2cInv
  <1>1. /\ upd'.at = "push" /\ upd'.report = (upd.report % Reports) + 1
        /\ bus' = bus /\ hid' = hid /\ i2c_todo' = i2c_todo /\ i2c_pending' = i2c_pending /\ drv' = drv
    BY Zenon
  <1>2. /\ hid.queue \in Seq(1 .. Reports) /\ Len(hid.queue) \in Nat
        /\ QUEUE < Reports /\ QUEUE \in Nat /\ Reports \in Nat
        /\ \A i \in 1 .. Len(hid.queue) : hid.queue[i] \in 1 .. Reports
        /\ upd.report \in 0 .. Reports
    BY QueueShape, Zenon
  <1>3. (upd.report % Reports) + 1 \in 1 .. Reports
    BY <1>2
  <1>4. Ahead = 0 /\ Ahead' = 1
    BY <1>1, Zenon DEF Ahead
  <1>5. I2cTypes'
    <2>1. upd' \in [at : {"idle", "push", "size", "copy", "signal"}, report : 0 .. Reports]
      <3>1. (upd.report % Reports) + 1 \in 0 .. Reports
        BY <1>2, <1>3
      <3> QED BY <3>1, Zenon
    <2> QED BY <1>1, <2>1, Zenon DEF I2cTypes
  <1>6. Driver'
    BY <1>1, DriverFrame, Zenon
  <1>7. Register'
    BY <1>1, RegisterFrame, Zenon
  <1>8. Signal'
    BY <1>1, Zenon DEF Signal, Starting
  <1>9. Queue'
    <2>1. Len(hid.queue') + 1 <= QUEUE /\ upd'.report # 0
      BY <1>1, <1>2, <1>3
    <2>2. ASSUME NEW i \in 1 .. Len(hid.queue)
          PROVE  upd'.report = Nth(hid.queue[i], Len(hid.queue) - i + 1)
      <3>1. upd.report = Nth(hid.queue[i], Len(hid.queue) - i + 0)
        BY <1>4, Zenon DEF Queue
      <3>2. Len(hid.queue) - i \in Nat /\ (Len(hid.queue) - i) + 1 < Reports /\ Len(hid.queue) - i + 0 = Len(hid.queue) - i
        BY <1>2
      <3>3. PICK d : d = Len(hid.queue) - i
        BY Zenon
      <3>4. Nth(hid.queue[i], d + 1) = (Nth(hid.queue[i], d) % Reports) + 1
        BY <1>2, <3>2, <3>3, NthNext, Zenon
      <3> QED BY <1>1, <3>1, <3>2, <3>3, <3>4, Zenon
    <2>3. hid.queue # <<>> => hid.report = hid.queue[1] \/ i2c_todo = <<"refill">>
      <3>1. "idle" # "size" /\ "idle" # "copy"
        OBVIOUS
      <3> QED BY <3>1, Zenon DEF Queue
    <2>4. hid.queue' = hid.queue /\ hid'.queue = hid.queue
      BY <1>1, Zenon
    <2> QED BY <1>1, <1>4, <2>1, <2>2, <2>3, <2>4, Zenon DEF Queue
  <1>10. Reading'
    <2>1. Front => Front'
      <3>1. "push" # "size" /\ "push" # "copy"
        OBVIOUS
      <3> QED BY <1>1, <3>1, Zenon DEF Front
    <2>2. CASE drv.front = 0
      BY <1>1, <2>2, Zenon DEF Reading
    <2>3. CASE drv.front # 0
      <3>1. drv.front \in 1 .. Reports
        BY <2>3, Zenon DEF Reading
      <3>2. Gone => Gone'
        <4>1. PICK d : d = Len(hid.queue)
          BY Zenon
        <4>2. d \in Nat /\ d + 1 < Reports /\ d + 0 = d
          BY <1>2, <4>1
        <4>3. Nth(drv.front, d + 1) = (Nth(drv.front, d) % Reports) + 1
          BY <3>1, <4>2, NthNext, Zenon
        <4> QED BY <1>1, <1>4, <4>1, <4>2, <4>3, Zenon DEF Gone
      <3> QED BY <1>1, <2>1, <3>2, ReadingFrame, Zenon
    <2> QED BY <2>2, <2>3, Zenon
  <1> QED BY <1>5, <1>6, <1>7, <1>8, <1>9, <1>10, Zenon

\* update() pushes its report.
LEMMA UpdatePushes ==
  ASSUME I2cInv, Upd("push", "size"), hid' = [hid EXCEPT !.queue = Append(@, upd.report)], UNCHANGED i2c_pending
  PROVE  I2cInv'
  <1> USE DEF I2cInv
  <1>1. /\ upd.at = "push" /\ upd'.at = "size" /\ upd'.report = upd.report
        /\ upd' \in [at : {"idle", "push", "size", "copy", "signal"}, report : 0 .. Reports]
        /\ bus' = bus /\ i2c_todo' = i2c_todo /\ i2c_pending' = i2c_pending /\ drv' = drv
    BY Zenon DEF I2cTypes, Upd
  <1>2. /\ hid.queue \in Seq(1 .. Reports) /\ Len(hid.queue) \in Nat /\ Len(hid.queue) + Ahead <= QUEUE
        /\ QUEUE < Reports /\ QUEUE \in Nat /\ Reports \in Nat
        /\ \A i \in 1 .. Len(hid.queue) : hid.queue[i] \in 1 .. Reports
        /\ upd.report \in 0 .. Reports
    BY QueueShape, Zenon
  <1>3. upd.report \in 1 .. Reports
    <2>1. upd.report # 0
      BY <1>1, Zenon DEF Queue
    <2> QED BY <1>2, <2>1
  <1>4. Ahead = 1 /\ Ahead' = 0
    <2>1. "size" # "push"
      OBVIOUS
    <2> QED BY <1>1, <2>1, Zenon DEF Ahead
  <1>5. PICK q, L : q = Append(hid.queue, upd.report) /\ L = Len(hid.queue)
    BY Zenon
  <1>6. /\ q \in Seq(1 .. Reports) /\ Len(q) = L + 1 /\ q # <<>> /\ L \in Nat /\ q[L + 1] = upd.report
        /\ \A i \in 1 .. L : q[i] = hid.queue[i]
    BY <1>2, <1>3, <1>5, AppendProperties
  <1>7. /\ hid' \in Hid /\ hid'.queue = q /\ hid'.report = hid.report /\ hid'.cur_reg = hid.cur_reg
        /\ hid'.event = hid.event /\ hid'.off = hid.off /\ hid'.transmitting = hid.transmitting
    BY <1>5, <1>6, Zenon DEF I2cTypes, Hid
  <1>8. I2cTypes'
    BY <1>1, <1>7, Zenon DEF I2cTypes
  <1>9. Driver'
    BY <1>1, DriverFrame, Zenon
  <1>10. Register'
    BY <1>1, <1>7, RegisterFrame, Zenon
  <1>11. Signal'
    <2>1. "size" \notin {"idle", "push"}
      OBVIOUS
    <2> QED BY <1>1, <1>7, <2>1, Zenon DEF Signal, Starting
  <1>12. Queue'
    <2>1. Len(q) + 0 <= QUEUE /\ "size" # "push"
      BY <1>2, <1>4, <1>5, <1>6
    <2>2. ASSUME NEW i \in 1 .. Len(q)
          PROVE  upd.report = Nth(q[i], Len(q) - i + 0)
      <3>1. CASE i = L + 1
        <4>1. Len(q) - i + 0 = 0
          BY <1>6, <3>1
        <4> QED BY <1>3, <1>6, <3>1, <4>1, NthZero, Zenon
      <3>2. CASE i # L + 1
        <4>1. i \in 1 .. L /\ Len(q) - i + 0 = L - i + 1
          BY <1>6, <3>2
        <4>2. upd.report = Nth(hid.queue[i], L - i + 1)
          BY <1>4, <1>5, <4>1, Zenon DEF Queue
        <4> QED BY <1>6, <4>1, <4>2, Zenon
      <3> QED BY <3>1, <3>2, Zenon
    <2>3. hid.report = q[1] \/ i2c_todo = <<"refill">> \/ Len(q) = 1
      <3>1. "push" # "size" /\ "push" # "copy"
        OBVIOUS
      <3>2. hid.queue # <<>> => hid.report = hid.queue[1] \/ i2c_todo = <<"refill">>
        BY <1>1, <3>1, Zenon DEF Queue
      <3>3. L = 0 \/ (1 \in 1 .. L /\ hid.queue # <<>>)
        BY <1>2, <1>5
      <3>4. L = 0 => Len(q) = 1
        BY <1>6
      <3> QED BY <1>6, <3>2, <3>3, <3>4, Zenon
    <2> QED BY <1>1, <1>4, <1>7, <2>1, <2>2, <2>3, Zenon DEF Queue
  <1>13. Reading'
    <2>1. Front => Front'
      <3>1. hid.queue # <<>> => Len(q) >= 2 /\ q[1] = hid.queue[1]
        <4>1. hid.queue # <<>> => L # 0
          BY <1>2, <1>5, EmptySeq, Zenon
        <4>2. L # 0 => Len(q) >= 2 /\ 1 \in 1 .. L
          BY <1>6
        <4> QED BY <1>6, <4>1, <4>2, Zenon
      <3>2. "size" # "copy"
        OBVIOUS
      <3> QED BY <1>1, <1>6, <1>7, <3>1, <3>2, Zenon DEF Front
    <2>2. Gone => Gone'
      <3>1. Len(hid.queue) + 1 = Len(q) + 0
        BY <1>5, <1>6
      <3> QED BY <1>1, <1>4, <1>7, <3>1, Zenon DEF Gone
    <2> QED BY <1>1, <1>7, <2>1, <2>2, ReadingFrame, Zenon
  <1> QED BY <1>8, <1>9, <1>10, <1>11, <1>12, <1>13, Zenon

\* update() looks at the size: the first report of a queue is copied, any other is only signalled.
LEMMA UpdateSizes ==
  ASSUME I2cInv, Upd("size", IF Len(hid.queue) = 1 THEN "copy" ELSE "signal"), UNCHANGED <<hid, i2c_pending>>
  PROVE  I2cInv'
  <1> USE DEF I2cInv
  <1>1. PICK to : to = IF Len(hid.queue) = 1 THEN "copy" ELSE "signal"
    BY Zenon
  <1>2. /\ upd.at = "size" /\ upd'.at = to /\ upd'.report = upd.report
        /\ upd' \in [at : {"idle", "push", "size", "copy", "signal"}, report : 0 .. Reports]
        /\ bus' = bus /\ i2c_todo' = i2c_todo /\ i2c_pending' = i2c_pending /\ drv' = drv /\ hid' = hid
    BY <1>1, Zenon DEF I2cTypes, Upd
  <1>3. to \notin {"idle", "push", "size"} /\ (Len(hid.queue) # 1 => to # "copy")
    BY <1>1
  <1>4. Ahead = 0 /\ Ahead' = 0
    <2>1. "size" # "push"
      OBVIOUS
    <2> QED BY <1>2, <1>3, <2>1, Zenon DEF Ahead
  <1>5. I2cTypes'
    BY <1>2, Zenon DEF I2cTypes
  <1>6. Driver'
    BY <1>2, DriverFrame, Zenon
  <1>7. Register'
    BY <1>2, RegisterFrame, Zenon
  <1>8. Signal'
    BY <1>2, <1>3, Zenon DEF Signal, Starting
  <1>9. Queue'
    <2>1. "size" # "copy"
      OBVIOUS
    <2> QED BY <1>1, <1>2, <1>3, <1>4, <2>1, Zenon DEF Queue
  <1>10. Reading'
    <2>1. Front => Front'
      <3>1. Len(hid.queue) \in Nat
        BY QueueShape, Zenon
      <3>2. \A L \in Nat : L >= 2 => L # 1
        OBVIOUS
      <3> QED BY <1>2, <1>3, <3>1, <3>2, Zenon DEF Front
    <2>2. Gone => Gone'
      BY <1>2, <1>4, Zenon DEF Gone
    <2> QED BY <1>2, <2>1, <2>2, ReadingFrame, Zenon
  <1> QED BY <1>5, <1>6, <1>7, <1>8, <1>9, <1>10, Zenon

\* update() copies the queue's front, or what lies there when it was emptied meanwhile.
LEMMA UpdateCopies ==
  ASSUME I2cInv, Upd("copy", "signal"), UNCHANGED i2c_pending,
         NEW r \in IF hid.queue = <<>> THEN 0 .. Reports ELSE {Head(hid.queue)},
         hid' = [hid EXCEPT !.report = r]
  PROVE  I2cInv'
  <1> USE DEF I2cInv
  <1>1. /\ upd.at = "copy" /\ upd'.at = "signal" /\ upd'.report = upd.report
        /\ upd' \in [at : {"idle", "push", "size", "copy", "signal"}, report : 0 .. Reports]
        /\ bus' = bus /\ i2c_todo' = i2c_todo /\ i2c_pending' = i2c_pending /\ drv' = drv
    BY Zenon DEF I2cTypes, Upd
  <1>2. hid.queue \in Seq(1 .. Reports)
    BY Zenon DEF I2cTypes, Hid
  <1>3. r \in Nat /\ (hid.queue # <<>> => r = hid.queue[1])
    <2>1. CASE hid.queue = <<>>
      BY <2>1, I2cAssumption
    <2>2. CASE hid.queue # <<>>
      <3>1. r = Head(hid.queue)
        BY <2>2, Zenon
      <3>2. Head(hid.queue) = hid.queue[1] /\ Head(hid.queue) \in 1 .. Reports
        BY <1>2, <2>2, HeadIsFirst, Zenon
      <3>3. \A x \in 1 .. Reports : x \in Nat
        BY I2cAssumption
      <3> QED BY <3>1, <3>2, <3>3, Zenon
    <2> QED BY <2>1, <2>2, Zenon
  <1>4. /\ hid' \in Hid /\ hid'.queue = hid.queue /\ hid'.report = r /\ hid'.cur_reg = hid.cur_reg
        /\ hid'.event = hid.event /\ hid'.off = hid.off /\ hid'.transmitting = hid.transmitting
    BY <1>3, Zenon DEF I2cTypes, Hid
  <1>5. Ahead = 0 /\ Ahead' = 0
    <2>1. "copy" # "push" /\ "signal" # "push"
      OBVIOUS
    <2> QED BY <1>1, <2>1, Zenon DEF Ahead
  <1>6. I2cTypes'
    BY <1>1, <1>4, Zenon DEF I2cTypes
  <1>7. Driver'
    BY <1>1, DriverFrame, Zenon
  <1>8. Register'
    BY <1>1, <1>4, RegisterFrame, Zenon
  <1>9. Signal'
    <2>1. "signal" \notin {"idle", "push"}
      OBVIOUS
    <2> QED BY <1>1, <1>4, <2>1, Zenon DEF Signal, Starting
  <1>10. Queue'
    <2>1. "signal" # "push"
      OBVIOUS
    <2> QED BY <1>1, <1>3, <1>4, <1>5, <2>1, Zenon DEF Queue
  <1>11. Reading'
    <2>1. Front => Front'
      BY <1>1, Zenon DEF Front
    <2>2. Gone => Gone'
      BY <1>1, <1>4, <1>5, Zenon DEF Gone
    <2> QED BY <1>1, <1>4, <2>1, <2>2, ReadingFrame, Zenon
  <1> QED BY <1>6, <1>7, <1>8, <1>9, <1>10, <1>11, Zenon

\* update() raises the line, unless a transfer is on.
LEMMA UpdateSignals ==
  ASSUME I2cInv, Upd("signal", "idle"), UNCHANGED hid,
         i2c_pending' = [i2c_pending EXCEPT !.hid = @ \/ ~hid.transmitting]
  PROVE  I2cInv'
  <1> USE DEF I2cInv
  <1>1. /\ upd.at = "signal" /\ upd'.at = "idle" /\ upd'.report = upd.report
        /\ upd' \in [at : {"idle", "push", "size", "copy", "signal"}, report : 0 .. Reports]
        /\ bus' = bus /\ i2c_todo' = i2c_todo /\ hid' = hid /\ drv' = drv
    BY Zenon DEF I2cTypes, Upd
  <1>2. PICK n : n = (i2c_pending.hid \/ ~hid.transmitting)
    BY Zenon
  <1>3. i2c_pending' = [i2c_pending EXCEPT !.hid = n]
    BY <1>2, Zenon
  <1>4. n \in BOOLEAN
    BY <1>2, Zenon
  <1>5. /\ i2c_pending' \in [i2c : BOOLEAN, hid : BOOLEAN] /\ i2c_pending'.i2c = i2c_pending.i2c
        /\ i2c_pending'.hid = n
    BY <1>3, <1>4, Zenon DEF I2cTypes
  <1>6. Ahead = 0 /\ Ahead' = 0
    <2>1. "idle" # "push" /\ "signal" # "push"
      OBVIOUS
    <2> QED BY <1>1, <2>1, Zenon DEF Ahead
  <1>7. I2cTypes'
    BY <1>1, <1>5, Zenon DEF I2cTypes
  <1>8. Driver'
    BY <1>1, <1>5, DriverFrame, Zenon
  <1>9. Register'
    BY <1>1, RegisterFrame, Zenon
  <1>10. Signal'
    <2>1. ~hid.transmitting => i2c_pending'.hid
      BY <1>2, <1>5, Zenon
    <2> QED BY <1>1, <2>1, Zenon DEF Signal, Starting
  <1>11. Queue'
    <2>1. "idle" # "push" /\ "signal" # "size" /\ "signal" # "copy"
      OBVIOUS
    <2> QED BY <1>1, <1>6, <2>1, Zenon DEF Queue
  <1>12. Reading'
    <2>1. Front => Front'
      <3>1. "idle" # "size" /\ "idle" # "copy"
        OBVIOUS
      <3> QED BY <1>1, <3>1, Zenon DEF Front
    <2>2. Gone => Gone'
      BY <1>1, <1>6, Zenon DEF Gone
    <2> QED BY <1>1, <2>1, <2>2, ReadingFrame, Zenon
  <1> QED BY <1>7, <1>8, <1>9, <1>10, <1>11, <1>12, Zenon

\* A callback that has work left runs on a bus at rest, and the read it belongs to is at its end.
LEMMA AtRest ==
  ASSUME I2cInv, i2c_todo # <<>>
  PROVE  bus.active = FALSE
  BY Zenon DEF I2cInv, I2cTypes, Bus, Driver

\* The last byte of a report takes it off the queue.
LEMMA PopStep ==
  ASSUME I2cInv, pop
  PROVE  I2cInv'
  <1> USE DEF I2cInv
  <1>1. /\ i2c_todo = <<"pop", "refill">> /\ i2c_todo' = <<"refill">> /\ bus' = bus /\ upd' = upd
        /\ i2c_pending' = i2c_pending /\ drv' = drv /\ bus.active = FALSE
    BY TodoSteps, AtRest, Zenon DEF pop, I2cTypes
  <1>2. /\ hid.queue \in Seq(1 .. Reports) /\ Len(hid.queue) \in Nat /\ Ahead \in {0, 1}
        /\ Len(hid.queue) + Ahead <= QUEUE
        /\ QUEUE < Reports /\ QUEUE \in Nat /\ Reports \in Nat
        /\ \A i \in 1 .. Len(hid.queue) : hid.queue[i] \in 1 .. Reports
    BY QueueShape, Zenon
  <1>3. PICK q, L : q = (IF hid.queue = <<>> THEN hid.queue ELSE Tail(hid.queue)) /\ L = Len(hid.queue)
    BY Zenon
  <1>4. /\ q \in Seq(1 .. Reports) /\ Len(q) \in Nat /\ Len(q) <= L
        /\ hid.queue # <<>> => Len(q) = L - 1 /\ L \in Nat /\ L >= 1
        /\ \A i \in 1 .. Len(q) : i + 1 \in 1 .. L /\ q[i] = hid.queue[i + 1] /\ L = Len(q) + 1
    <2>1. CASE hid.queue = <<>>
      <3>1. q = <<>> /\ L = Len(<<>>)
        BY <1>3, <2>1, Zenon
      <3>2. <<>> \in Seq(1 .. Reports) /\ Len(<<>>) = 0 /\ 0 \in Nat /\ 0 <= 0 /\ 1 .. 0 = {}
        OBVIOUS
      <3>3. q \in Seq(1 .. Reports) /\ Len(q) = 0 /\ L = 0
        BY <3>1, <3>2, Zenon
      <3>4. Len(q) \in Nat /\ Len(q) <= L /\ 1 .. Len(q) = {}
        BY <3>3
      <3> QED BY <2>1, <3>3, <3>4, Zenon
    <2>2. CASE hid.queue # <<>>
      <3>1. q = Tail(hid.queue)
        BY <1>3, <2>2, Zenon
      <3>2. /\ q \in Seq(1 .. Reports) /\ Len(q) = L - 1
            /\ \A i \in 1 .. Len(q) : q[i] = hid.queue[i + 1]
        <4>1. PICK s : s = hid.queue
          BY Zenon
        <4>2. s \in Seq(1 .. Reports) /\ s # <<>>
          BY <1>2, <2>2, <4>1, Zenon
        <4>3. /\ Tail(s) \in Seq(1 .. Reports) /\ Len(Tail(s)) = Len(s) - 1
              /\ \A i \in 1 .. Len(Tail(s)) : Tail(s)[i] = s[i + 1]
          BY <4>2, HeadTailProperties
        <4> QED BY <1>3, <3>1, <4>1, <4>3, Zenon
      <3>3. L \in Nat \ {0}
        BY <1>2, <1>3, <2>2, EmptySeq, Zenon
      <3> QED BY <3>2, <3>3
    <2> QED BY <2>1, <2>2, Zenon
  <1>5. /\ hid' \in Hid /\ hid'.queue = q /\ hid'.report = hid.report /\ hid'.cur_reg = hid.cur_reg
        /\ hid'.event = hid.event /\ hid'.off = hid.off /\ hid'.transmitting = hid.transmitting
    <2>1. hid' = [hid EXCEPT !.queue = q]
      BY <1>3, Zenon DEF pop
    <2> QED BY <1>4, <2>1, Zenon DEF I2cTypes, Hid
  <1>6. Ahead' = Ahead
    BY <1>1, Zenon DEF Ahead
  <1>7. I2cTypes'
    BY <1>1, <1>5, Zenon DEF I2cTypes, Todos
  <1>8. Driver'
    BY <1>1, DriverFrame, Zenon
  <1>9. Register'
    BY <1>1, <1>5, RegisterFrame, Zenon
  <1>10. Signal'
    BY <1>1, <1>5, Zenon DEF Signal, Starting
  <1>11. Queue'
    <2>1. Len(q) + Ahead <= QUEUE
      BY <1>2, <1>3, <1>4
    <2>2. ASSUME NEW i \in 1 .. Len(q)
          PROVE  upd.report = Nth(q[i], Len(q) - i + Ahead)
      <3>1. upd.report = Nth(hid.queue[i + 1], L - (i + 1) + Ahead)
        BY <1>3, <1>4, Zenon DEF Queue
      <3>2. L - (i + 1) + Ahead = Len(q) - i + Ahead
        BY <1>2, <1>4
      <3> QED BY <1>4, <3>1, <3>2, Zenon
    <2> QED BY <1>1, <1>5, <1>6, <2>1, <2>2, Zenon DEF Queue
  <1>12. Reading'
    <2>1. Front => Gone'
      <3>1. ASSUME Front
            PROVE  upd.report = Nth(drv.front, Len(q) + Ahead)
        <4>1. hid.queue # <<>> /\ hid.queue[1] = drv.front
          BY <3>1, Zenon DEF Front
        <4>2. 1 \in 1 .. L /\ L - 1 + Ahead = Len(q) + Ahead
          BY <1>2, <1>4, <4>1
        <4> QED BY <1>3, <4>1, <4>2, Zenon DEF Queue
      <3> QED BY <1>1, <1>5, <1>6, <3>1, Zenon DEF Gone
    <2>2. Starting' = Starting /\ Read' = Read
      BY <1>1, Zenon DEF Starting, Read
    <2> QED BY <1>1, <1>5, <2>1, <2>2, TodoDiffer, ZenonT(60) DEF Reading, Starting
  <1> QED BY <1>7, <1>8, <1>9, <1>10, <1>11, <1>12, Zenon

\* The next report is put where it is read from and signalled, or there is none.
LEMMA RefillStep ==
  ASSUME I2cInv, refill
  PROVE  I2cInv'
  <1> USE DEF I2cInv
  <1>1. /\ i2c_todo = <<"refill">> /\ i2c_todo' \in {<<>>, <<"clear">>} /\ bus' = bus /\ upd' = upd
        /\ drv' = drv /\ bus.active = FALSE
    BY TodoSteps, AtRest, Zenon DEF refill, I2cTypes
  <1>2. hid.queue \in Seq(1 .. Reports) /\ SIZE \in Nat /\ \A x \in 1 .. Reports : x \in Nat
    <2>1. hid.queue \in Seq(1 .. Reports)
      BY Zenon DEF I2cTypes, Hid
    <2> QED BY <2>1, I2cAssumption
  <1>3. /\ hid' \in Hid /\ hid'.queue = hid.queue /\ hid'.cur_reg = hid.cur_reg
        /\ hid'.event = hid.event /\ hid'.transmitting = hid.transmitting
        /\ hid.queue # <<>> => hid'.report = hid.queue[1]
    <2>1. CASE hid.queue # <<>>
      <3>1. hid' = [hid EXCEPT !.report = hid.queue[1]] /\ hid.queue[1] \in Nat
        BY <1>2, <2>1, HeadIsFirst, Zenon DEF refill
      <3> QED BY <3>1, Zenon DEF I2cTypes, Hid
    <2>2. CASE hid.queue = <<>>
      <3>1. hid' = [hid EXCEPT !.off = SIZE]
        BY <2>2, Zenon DEF refill
      <3> QED BY <1>2, <2>2, <3>1, Zenon DEF I2cTypes, Hid
    <2> QED BY <2>1, <2>2, Zenon
  <1>4. i2c_pending' \in [i2c : BOOLEAN, hid : BOOLEAN] /\ i2c_pending'.i2c = i2c_pending.i2c
    BY Zenon DEF refill, I2cTypes
  <1>5. Ahead' = Ahead
    BY <1>1, Zenon DEF Ahead
  <1>6. I2cTypes'
    BY <1>1, <1>3, <1>4, Zenon DEF I2cTypes, Todos
  <1>7. Driver'
    BY <1>1, <1>4, DriverFrame, Zenon
  <1>8. Register'
    BY <1>1, <1>3, RegisterFrame, Zenon
  <1>9. Signal'
    BY <1>1, <1>3, Zenon DEF Signal, Starting
  <1>10. Queue'
    BY <1>1, <1>3, <1>5, Zenon DEF Queue
  <1>11. Reading'
    <2>1. Gone => Gone'
      BY <1>1, <1>3, <1>5, Zenon DEF Gone
    <2> QED BY <1>1, <1>3, <2>1, TodoDiffer, ZenonT(60) DEF Reading, Starting
  <1> QED BY <1>6, <1>7, <1>8, <1>9, <1>10, <1>11, Zenon

\* With no report left the line is lowered.
LEMMA ClearStep ==
  ASSUME I2cInv, clear
  PROVE  I2cInv'
  <1> USE DEF I2cInv
  <1>1. /\ i2c_todo = <<"clear">> /\ i2c_todo' = <<>> /\ bus' = bus /\ upd' = upd
        /\ drv' = drv /\ hid' = hid /\ bus.active = FALSE
    BY TodoSteps, AtRest, Zenon DEF clear, I2cTypes
  <1>2. i2c_pending' \in [i2c : BOOLEAN, hid : BOOLEAN] /\ i2c_pending'.i2c = i2c_pending.i2c
    BY Zenon DEF clear, I2cTypes
  <1>3. Ahead' = Ahead
    BY <1>1, Zenon DEF Ahead
  <1>4. I2cTypes'
    BY <1>1, <1>2, Zenon DEF I2cTypes, Todos
  <1>5. Driver'
    BY <1>1, <1>2, DriverFrame, Zenon
  <1>6. Register'
    BY <1>1, RegisterFrame, Zenon
  <1>7. Signal'
    BY <1>1, Zenon DEF Signal, Starting
  <1>8. Queue'
    BY <1>1, <1>3, TodoDiffer, Zenon DEF Queue
  <1>9. Reading'
    <2>1. Gone => Gone'
      BY <1>1, <1>3, Zenon DEF Gone
    <2> QED BY <1>1, <2>1, TodoDiffer, ZenonT(60) DEF Reading, Starting
  <1> QED BY <1>4, <1>5, <1>6, <1>7, <1>8, <1>9, Zenon

\* The RESET command empties the queue.
LEMMA ResetStep ==
  ASSUME I2cInv, reset_command
  PROVE  I2cInv'
  <1> USE DEF I2cInv
  <1>1. /\ i2c_todo = <<"reset", "resignal">> /\ i2c_todo' = <<"resignal">> /\ bus' = bus /\ upd' = upd
        /\ drv' = drv /\ bus.active = FALSE
    BY TodoSteps, AtRest, Zenon DEF reset_command, I2cTypes
  <1>2. i2c_pending' \in [i2c : BOOLEAN, hid : BOOLEAN] /\ i2c_pending'.i2c = i2c_pending.i2c
    BY Zenon DEF reset_command, I2cTypes
  <1>3. /\ hid' \in Hid /\ hid'.queue = <<>> /\ hid'.cur_reg = hid.cur_reg /\ hid'.transmitting = hid.transmitting
    <2>1. 0 \in Nat /\ <<>> \in Seq(1 .. Reports)
      OBVIOUS
    <2> QED BY <2>1, Zenon DEF reset_command, I2cTypes, Hid
  <1>4. Ahead' = Ahead
    BY <1>1, Zenon DEF Ahead
  <1>5. I2cTypes'
    BY <1>1, <1>2, <1>3, Zenon DEF I2cTypes, Todos
  <1>6. Driver'
    BY <1>1, <1>2, DriverFrame, Zenon
  <1>7. Register'
    BY <1>1, <1>3, RegisterFrame, Zenon
  <1>8. Signal'
    BY <1>1, <1>3, TodoDiffer, Zenon DEF Signal, Starting
  <1>9. Queue'
    <2>1. Len(<<>>) = 0 /\ 1 .. Len(<<>>) = {}
      BY EmptySeq
    <2>2. 0 + Ahead <= QUEUE
      BY QueueShape
    <2> QED BY <1>1, <1>3, <1>4, <2>1, <2>2, Zenon DEF Queue
  <1>10. Reading'
    <2>1. drv.front = 0
      BY <1>1, TodoDiffer, ZenonT(60) DEF Reading, Driver, Starting
    <2> QED BY <1>1, <2>1, Zenon DEF Reading
  <1> QED BY <1>5, <1>6, <1>7, <1>8, <1>9, <1>10, Zenon

\* The end of a transfer signals the reports that came meanwhile.
LEMMA ResignalStep ==
  ASSUME I2cInv, resignal
  PROVE  I2cInv'
  <1> USE DEF I2cInv
  <1>1. /\ i2c_todo = <<"resignal">> /\ i2c_todo' = <<>> /\ bus' = bus /\ upd' = upd
        /\ drv' = drv /\ hid' = hid /\ bus.active = FALSE
    BY TodoSteps, AtRest, Zenon DEF resignal, I2cTypes
  <1>2. /\ i2c_pending' \in [i2c : BOOLEAN, hid : BOOLEAN] /\ i2c_pending'.i2c = i2c_pending.i2c
        /\ hid.queue # <<>> => i2c_pending'.hid
    <2>1. PICK n : n = (i2c_pending.hid \/ hid.queue # <<>>)
      BY Zenon
    <2>2. i2c_pending' = [i2c_pending EXCEPT !.hid = n]
      BY <2>1, Zenon DEF resignal
    <2>3. n \in BOOLEAN /\ (hid.queue # <<>> => n)
      BY <2>1, Zenon
    <2> QED BY <2>2, <2>3, Zenon DEF I2cTypes
  <1>3. Ahead' = Ahead
    BY <1>1, Zenon DEF Ahead
  <1>4. I2cTypes'
    BY <1>1, <1>2, Zenon DEF I2cTypes, Todos
  <1>5. Driver'
    BY <1>1, <1>2, DriverFrame, Zenon
  <1>6. Register'
    BY <1>1, RegisterFrame, Zenon
  <1>7. Signal'
    BY <1>1, <1>2, TodoDiffer, Zenon DEF Signal, Starting
  <1>8. Queue'
    BY <1>1, <1>3, TodoDiffer, Zenon DEF Queue
  <1>9. Reading'
    <2>1. Gone => Gone'
      BY <1>1, <1>3, Zenon DEF Gone
    <2> QED BY <1>1, <2>1, TodoDiffer, ZenonT(60) DEF Reading, Starting, Driver
  <1> QED BY <1>4, <1>5, <1>6, <1>7, <1>8, <1>9, Zenon

\* The commands as the controller sees them are different from one another.
LEMMA CommandsDiffer ==
  /\ {"IACK"} # {"STA", "WR", "IACK"} /\ {"IACK"} # {"WR", "IACK"} /\ {"IACK"} # {"RD", "IACK"}
  /\ {"IACK"} # {"STO", "IACK"}
  /\ {"STA", "WR", "IACK"} # {"WR", "IACK"} /\ {"STA", "WR", "IACK"} # {"RD", "IACK"}
  /\ {"STA", "WR", "IACK"} # {"STO", "IACK"}
  /\ {"WR", "IACK"} # {"RD", "IACK"} /\ {"WR", "IACK"} # {"STO", "IACK"} /\ {"RD", "IACK"} # {"STO", "IACK"}
  /\ Begin # {"RD"} /\ Begin # {"STO"} /\ {"RD"} # {"STO"}
  /\ \A c \in {Begin, {"RD"}, {"STO"}} : c \notin Issued
  BY DEF Begin, Issued

\* A command that is not the last acknowledge leaves its interrupt behind.
LEMMA DriverExecuted ==
  ASSUME I2cInv, bus.active, bus.cr # {"IACK"}, Common, Raised, bus'.addr # NoAddr,
         bus.cr = {"STO", "IACK"} => bus'.sel = FALSE
  PROVE  Driver' /\ drv.wait /\ (drv.ops = <<>> <=> bus.cr = {"STO", "IACK"})
  <1>1. drv.wait /\ bus.ien /\ (drv.ops = <<>> <=> bus.cr = {"STO", "IACK"})
    BY Zenon DEF I2cInv, Driver
  <1>2. /\ bus'.active = FALSE /\ drv' = drv /\ bus'.en = bus.en /\ bus'.ien = bus.ien
        /\ bus'.if /\ i2c_pending'.i2c
    BY <1>1, Zenon DEF Common, Raised
  <1>3. drv'.ops = <<>> => bus'.sel = FALSE
    BY <1>1, <1>2, Zenon
  <1> QED BY <1>1, <1>2, <1>3, Zenon DEF Driver, I2cInv

\* Commands do not touch the queue.
LEMMA QueueKept ==
  ASSUME I2cInv, i2c_todo = <<>>, upd' = upd, hid'.queue = hid.queue, hid'.report = hid.report
  PROVE  Queue' /\ (Gone /\ drv' = drv => Gone')
  <1>1. Ahead' = Ahead
    BY Zenon DEF Ahead
  <1> QED BY <1>1, TodoDiffer, Zenon DEF Queue, I2cInv, Gone

\* The types after a command.
LEMMA TypesExecuted ==
  ASSUME I2cInv, Common, hid' \in Hid, i2c_todo' \in Todos
  PROVE  I2cTypes'
  BY Zenon DEF Common, I2cTypes, I2cInv

\* The last acknowledge does nothing else.
LEMMA IackStep ==
  ASSUME I2cInv, bus.active, i2c_todo = <<>>, bus.cr = {"IACK"}, execute_command
  PROVE  I2cInv'
  <1>1. bus \in Bus /\ hid \in Hid /\ i2c_pending \in [i2c : BOOLEAN, hid : BOOLEAN]
    BY Zenon DEF I2cInv, I2cTypes
  <1>2. Common /\ hid' = hid /\ i2c_todo' = <<>> /\ bus'.sel = bus.sel /\ bus'.addr = bus.addr
    BY <1>1, ExecuteIack, Zenon
  <1>3. /\ bus'.active = FALSE /\ drv' = drv /\ upd' = upd /\ bus'.en = bus.en /\ bus'.ien = bus.ien
        /\ i2c_pending'.hid = i2c_pending.hid
    BY <1>2, Zenon DEF Common
  <1>4. drv.wait = FALSE /\ drv.serving = FALSE /\ drv.front = 0 /\ bus.sel = FALSE
    <2>1. ~drv.wait
      BY Zenon DEF I2cInv, Driver
    <2>2. ~bus.sel /\ ~drv.serving /\ drv.front = 0
      BY <2>1, Zenon DEF I2cInv, Driver
    <2> QED BY <1>1, <2>1, <2>2, Zenon DEF I2cInv, I2cTypes, Bus
  <1>5. I2cTypes'
    BY <1>1, <1>2, TypesExecuted, Zenon DEF Todos
  <1>6. Driver'
    BY <1>2, <1>3, <1>4, Zenon DEF Driver, I2cInv
  <1>7. Register'
    <2>1. ~Starting /\ ~Starting'
      BY <1>3, CommandsDiffer, Zenon DEF Starting
    <2> QED BY <1>2, <1>3, <2>1, Zenon DEF Register, I2cInv
  <1>8. Signal'
    BY <1>2, <1>3, <1>4, TodoDiffer, Zenon DEF Signal, I2cInv
  <1>9. Queue'
    BY <1>2, <1>3, QueueKept, Zenon
  <1>10. Reading'
    BY <1>3, <1>4, Zenon DEF Reading
  <1> QED BY <1>5, <1>6, <1>7, <1>8, <1>9, <1>10, Zenon DEF I2cInv

\* A slave is addressed.
LEMMA StartStep ==
  ASSUME I2cInv, bus.active, i2c_todo = <<>>, bus.cr = {"STA", "WR", "IACK"}, execute_command
  PROVE  I2cInv'
  <1>1. bus \in Bus /\ hid \in Hid /\ i2c_pending \in [i2c : BOOLEAN, hid : BOOLEAN]
    BY Zenon DEF I2cInv, I2cTypes
  <1>2. /\ Common /\ Raised /\ i2c_todo' = <<>> /\ bus'.addr = bus.txr /\ bus'.sel = (bus.txr = Slave)
        /\ bus.txr = Slave => hid' = start_transmit(hid) /\ bus'.nack = FALSE
        /\ bus.txr # Slave => hid' = hid
    BY <1>1, ExecuteStart, Zenon
  <1>3. /\ bus'.active = FALSE /\ drv' = drv /\ upd' = upd /\ bus'.en = bus.en /\ bus'.ien = bus.ien
        /\ i2c_pending'.hid = i2c_pending.hid /\ bus'.cr = Begin
    <2>1. {"STA", "WR", "IACK"} \ {"IACK"} = Begin
      BY DEF Begin
    <2> QED BY <1>2, <2>1, Zenon DEF Common
  <1>4. /\ Kept(hid', hid) /\ hid'.cur_reg = hid.cur_reg
        /\ bus.txr = Slave => hid'.transmitting = TRUE /\ hid'.off = 0 /\ hid'.event = "NONE"
    BY <1>1, <1>2, StartTransmit, Zenon DEF Kept
  <1>5. I2cTypes'
    BY <1>2, <1>4, TypesExecuted, Zenon DEF Todos, Kept
  <1>6. Driver' /\ drv.wait /\ drv.ops # <<>>
    <2>1. bus.txr # NoAddr
      <3>1. bus.txr \in Nat
        BY <1>1, Zenon DEF Bus
      <3> QED BY <3>1 DEF NoAddr
    <2> QED BY <1>2, <2>1, CommandsDiffer, DriverExecuted, Zenon
  <1>7. Starting /\ ~Starting'
    BY <1>3, Zenon DEF Starting
  <1>8. Register'
    BY <1>2, <1>3, <1>7, Zenon DEF Register, I2cInv
  <1>9. Signal'
    <2>1. CASE bus.txr = Slave
      BY <1>2, <1>4, <2>1, TodoDiffer, Zenon DEF Signal
    <2>2. CASE bus.txr # Slave
      BY <1>2, <1>3, <1>6, <1>7, <2>2, TodoDiffer, Zenon DEF Signal, I2cInv
    <2> QED BY <2>1, <2>2, Zenon
  <1>10. Queue'
    BY <1>3, <1>4, QueueKept, Zenon DEF Kept
  <1>11. Reading'
    <2>1. CASE drv.front = 0
      BY <1>3, <2>1, Zenon DEF Reading
    <2>2. CASE drv.front # 0
      <3>1. /\ drv.front \in 1 .. Reports /\ drv.serving /\ bus.txr = Slave /\ Len(drv.ops) = SIZE + 1
            /\ drv.bytes = <<>> /\ Front
            /\ \A i \in 1 .. Len(drv.ops) - 1 : drv.ops[i] = Rd
        BY <2>2, CommandsDiffer, ZenonT(60) DEF Reading, I2cInv
      <3>2. Front'
        BY <1>3, <1>4, <3>1, Zenon DEF Front, Kept
      <3>3. Read' = 0 /\ "RD" \notin bus'.cr
        <4>1. "RD" \notin Begin
          BY DEF Begin
        <4>2. Len(<<>>) + 0 = 0
          BY EmptySeq
        <4> QED BY <1>3, <3>1, <4>1, <4>2, Zenon DEF Read
      <3>4. 0 < SIZE /\ SIZE + 1 = SIZE + 1 - 0 /\ 1 .. Len(<<>>) = {}
        BY I2cAssumption
      <3> QED BY <1>2, <1>3, <1>4, <3>1, <3>2, <3>3, <3>4, ZenonT(60) DEF Reading
    <2> QED BY <2>1, <2>2, Zenon
  <1> QED BY <1>5, <1>6, <1>8, <1>9, <1>10, <1>11, Zenon DEF I2cInv

\* A byte is written.
LEMMA WriteStep ==
  ASSUME I2cInv, bus.active, i2c_todo = <<>>, bus.cr = {"WR", "IACK"}, execute_command
  PROVE  I2cInv'
  <1>1. bus \in Bus /\ hid \in Hid /\ i2c_pending \in [i2c : BOOLEAN, hid : BOOLEAN]
    BY Zenon DEF I2cInv, I2cTypes
  <1>2. ~Starting /\ bus.addr # NoAddr
    BY CommandsDiffer, Zenon DEF Starting, I2cInv, Driver
  <1>3. /\ Common /\ Raised /\ i2c_todo' = <<>> /\ bus'.addr = bus.addr /\ bus'.sel = bus.sel
        /\ Kept(hid', hid) /\ hid'.transmitting = hid.transmitting
        /\ ~bus.sel => hid' = hid
    BY <1>1, <1>2, ExecuteWrite, Zenon
  <1>4. /\ bus'.active = FALSE /\ drv' = drv /\ upd' = upd /\ i2c_pending'.hid = i2c_pending.hid
    BY <1>3, Zenon DEF Common
  <1>5. I2cTypes'
    BY <1>3, TypesExecuted, Zenon DEF Todos, Kept
  <1>6. Driver' /\ drv.wait /\ drv.ops # <<>>
    BY <1>2, <1>3, CommandsDiffer, DriverExecuted, Zenon
  <1>7. ~Starting'
    BY <1>4, Zenon DEF Starting
  <1>8. Register'
    BY <1>2, <1>3, <1>4, <1>7, Zenon DEF Register, I2cInv
  <1>9. Signal'
    BY <1>2, <1>3, <1>4, <1>6, TodoDiffer, Zenon DEF Signal, I2cInv, Kept
  <1>10. Queue'
    BY <1>3, <1>4, QueueKept, Zenon DEF Kept
  <1>11. Reading'
    <2>1. drv.front = 0
      BY <1>2, CommandsDiffer, ZenonT(60) DEF Reading, I2cInv
    <2> QED BY <1>4, <2>1, Zenon DEF Reading
  <1> QED BY <1>5, <1>6, <1>8, <1>9, <1>10, <1>11, Zenon DEF I2cInv

\* A byte is read: of the report a read began on, it is that report's, and the last takes it off the queue.
LEMMA ReadStep ==
  ASSUME I2cInv, bus.active, i2c_todo = <<>>, bus.cr = {"RD", "IACK"}, execute_command
  PROVE  I2cInv'
  <1>1. bus \in Bus /\ hid \in Hid /\ i2c_pending \in [i2c : BOOLEAN, hid : BOOLEAN]
    BY Zenon DEF I2cInv, I2cTypes
  <1>2. ~Starting /\ bus.addr # NoAddr
    BY CommandsDiffer, Zenon DEF Starting, I2cInv, Driver
  <1>3. /\ Common /\ Raised /\ bus'.addr = bus.addr /\ bus'.sel = bus.sel
        /\ bus.sel => /\ bus'.nack = FALSE /\ bus'.rxr = dev_read(hid).val /\ hid' = dev_read(hid).hid
                      /\ i2c_todo' = dev_read(hid).todo
        /\ ~bus.sel => hid' = hid /\ i2c_todo' = <<>>
    BY <1>1, ExecuteRead, Zenon
  <1>4. /\ bus'.active = FALSE /\ drv' = drv /\ upd' = upd /\ i2c_pending'.hid = i2c_pending.hid
        /\ bus'.cr = {"RD"}
    <2>1. {"RD", "IACK"} \ {"IACK"} = {"RD"}
      OBVIOUS
    <2> QED BY <1>3, <2>1, Zenon DEF Common
  <1>5. /\ Kept(hid', hid) /\ hid'.transmitting = hid.transmitting /\ hid'.event = hid.event
        /\ hid'.cur_reg = hid.cur_reg /\ i2c_todo' \in {<<>>, <<"pop", "refill">>}
        /\ i2c_todo' # <<>> => bus.sel
    BY <1>1, <1>3, DevRead, Zenon DEF Kept
  <1>6. I2cTypes'
    BY <1>3, <1>5, TypesExecuted, Zenon DEF Todos, Kept
  <1>7. Driver' /\ drv.wait /\ drv.ops # <<>>
    BY <1>2, <1>3, CommandsDiffer, DriverExecuted, Zenon
  <1>8. ~Starting'
    BY <1>4, Zenon DEF Starting
  <1>9. Register'
    BY <1>2, <1>3, <1>4, <1>5, <1>8, Zenon DEF Register, I2cInv
  <1>10. Signal'
    BY <1>2, <1>3, <1>4, <1>5, <1>7, TodoDiffer, Zenon DEF Signal, I2cInv, Kept
  <1>11. Queue'
    BY <1>4, <1>5, QueueKept, Zenon DEF Kept
  <1>12. Reading'
    <2>1. CASE drv.front = 0
      BY <1>4, <2>1, Zenon DEF Reading
    <2>2. CASE drv.front # 0
      <3>1. /\ drv.front \in 1 .. Reports /\ drv.serving /\ bus.sel /\ hid.event = "NONE"
            /\ \A i \in 1 .. Len(drv.bytes) : drv.bytes[i] = drv.front
            /\ \A i \in 1 .. Len(drv.ops) - 1 : drv.ops[i] = Rd
            /\ Len(drv.bytes) < SIZE /\ hid.off = Len(drv.bytes) /\ Len(drv.ops) = SIZE - Len(drv.bytes)
            /\ Front
        BY <1>2, <2>2, CommandsDiffer, ZenonT(60) DEF Reading, I2cInv
      <3>2. Front'
        BY <1>4, <1>5, <3>1, Zenon DEF Front, Kept
      <3>3. PICK k : k = Len(drv.bytes)
        BY Zenon
      <3>4. k \in Nat /\ SIZE \in Nat /\ k < SIZE /\ hid.off = k /\ Len(drv.ops) = SIZE - k
        <4>1. drv.bytes \in Seq(Nat)
          BY Zenon DEF I2cInv, I2cTypes
        <4>2. k \in Nat
          BY <3>3, <4>1, LenProperties, Zenon
        <4>3. SIZE \in Nat
          BY I2cAssumption
        <4> QED BY <3>1, <3>3, <4>2, <4>3, Zenon
      <3>5. Read' = k + 1
        <4>1. "RD" \in {"RD"}
          OBVIOUS
        <4> QED BY <1>4, <3>3, <4>1, Zenon DEF Read
      <3>6. hid.cur_reg = 3 /\ hid.report = drv.front
        BY <3>1, Zenon DEF Front
      <3>7. bus'.rxr = drv.front
        BY <1>1, <1>3, <3>1, <3>4, <3>6, DevRead, Zenon
      <3>8. CASE k < SIZE - 1
        <4>1. hid.off < SIZE - 1
          BY <3>4, <3>8, Zenon
        <4>2. i2c_todo' = <<>> /\ hid'.off = hid.off + 1
          BY <1>1, <1>3, <3>1, <3>6, <4>1, DevRead, Zenon
        <4>3. Read' < SIZE /\ hid'.off = Read' /\ Len(drv.ops) = SIZE + 1 - Read'
          BY <3>4, <3>5, <3>8, <4>2
        <4> QED BY <1>3, <1>4, <1>5, <3>1, <3>2, <3>7, <4>2, <4>3, ZenonT(60) DEF Reading
      <3>9. CASE k = SIZE - 1
        <4>1. hid.off = SIZE - 1
          BY <3>4, <3>9, Zenon
        <4>2. i2c_todo' = <<"pop", "refill">>
          BY <1>1, <1>3, <3>1, <3>6, <4>1, DevRead, Zenon
        <4>3. Len(drv.ops) = 1
          BY <3>4, <3>9
        <4> QED BY <1>3, <1>4, <1>5, <3>1, <3>2, <3>3, <3>7, <3>9, <4>2, <4>3, ZenonT(60) DEF Reading
      <3>10. k < SIZE - 1 \/ k = SIZE - 1
        BY <3>4
      <3> QED BY <3>8, <3>9, <3>10, Zenon
    <2> QED BY <2>1, <2>2, Zenon
  <1> QED BY <1>6, <1>7, <1>9, <1>10, <1>11, <1>12, Zenon DEF I2cInv

\* The slave is let go.
LEMMA StopStep ==
  ASSUME I2cInv, bus.active, i2c_todo = <<>>, bus.cr = {"STO", "IACK"}, execute_command
  PROVE  I2cInv'
  <1>1. bus \in Bus /\ hid \in Hid /\ i2c_pending \in [i2c : BOOLEAN, hid : BOOLEAN]
    BY Zenon DEF I2cInv, I2cTypes
  <1>2. ~Starting /\ bus.addr # NoAddr
    BY CommandsDiffer, Zenon DEF Starting, I2cInv, Driver
  <1>3. /\ Common /\ Raised /\ bus'.addr = bus.addr /\ bus'.sel = FALSE
        /\ Kept(hid', hid) /\ hid'.event = hid.event
        /\ bus.sel => /\ hid'.transmitting = FALSE /\ hid'.cur_reg = 3
                      /\ i2c_todo' \in {<<"resignal">>, <<"reset", "resignal">>}
                      /\ hid.event = "NONE" => i2c_todo' = <<"resignal">>
        /\ ~bus.sel => i2c_todo' = <<>> /\ hid'.transmitting = hid.transmitting /\ hid'.cur_reg = hid.cur_reg
    BY <1>1, ExecuteStop, Zenon
  <1>4. /\ bus'.active = FALSE /\ drv' = drv /\ upd' = upd /\ i2c_pending'.hid = i2c_pending.hid
        /\ bus'.cr = {"STO"}
    <2>1. {"STO", "IACK"} \ {"IACK"} = {"STO"}
      OBVIOUS
    <2> QED BY <1>3, <2>1, Zenon DEF Common
  <1>5. I2cTypes'
    BY <1>3, TypesExecuted, Zenon DEF Todos, Kept
  <1>6. Driver' /\ drv.wait /\ drv.ops = <<>>
    BY <1>2, <1>3, CommandsDiffer, DriverExecuted, Zenon
  <1>7. ~Starting'
    BY <1>4, Zenon DEF Starting
  <1>8. Register'
    BY <1>2, <1>3, <1>4, <1>7, Zenon DEF Register, I2cInv
  <1>9. Signal'
    <2>1. CASE bus.sel
      BY <1>3, <1>4, <1>6, <2>1, TodoDiffer, ZenonT(60) DEF Signal
    <2>2. CASE ~bus.sel
      <3>1. ~drv.serving \/ hid.transmitting
        BY <1>2, Zenon DEF Signal, I2cInv
      <3> QED BY <1>3, <1>4, <1>6, <2>2, <3>1, TodoDiffer, ZenonT(60) DEF Signal, I2cInv, Kept
    <2> QED BY <2>1, <2>2, Zenon
  <1>10. Queue' /\ (Gone => Gone')
    BY <1>3, <1>4, QueueKept, Zenon DEF Kept
  <1>11. Reading'
    <2>1. CASE drv.front = 0
      BY <1>4, <2>1, Zenon DEF Reading
    <2>2. CASE drv.front # 0
      <3>1. /\ drv.front \in 1 .. Reports /\ drv.serving
            /\ \A i \in 1 .. Len(drv.bytes) : drv.bytes[i] = drv.front
            /\ \A i \in 1 .. Len(drv.ops) - 1 : drv.ops[i] = Rd
            /\ drv.ops = <<>> /\ Len(drv.bytes) = SIZE /\ Gone /\ hid.event = "NONE"
        BY <1>2, <2>2, CommandsDiffer, ZenonT(60) DEF Reading, I2cInv
      <3>2. i2c_todo' \in {<<>>, <<"resignal">>} /\ i2c_todo' # <<"reset", "resignal">>
        BY <1>3, <3>1, TodoDiffer, Zenon
      <3> QED BY <1>3, <1>4, <1>10, <3>1, <3>2, ZenonT(60) DEF Reading
    <2> QED BY <2>1, <2>2, Zenon
  <1> QED BY <1>5, <1>6, <1>8, <1>9, <1>10, <1>11, Zenon DEF I2cInv

\* A tick counts towards the command's execution, or executes it.
LEMMA TickStep ==
  ASSUME I2cInv, tick
  PROVE  I2cInv'
  <1>1. i2c_todo = <<>> /\ bus.active /\ bus.cr \in Issued
    BY Zenon DEF tick, I2cInv, Driver
  <1>2. CASE execute_command
    <2>1. \/ bus.cr = {"IACK"} \/ bus.cr = {"STA", "WR", "IACK"} \/ bus.cr = {"WR", "IACK"}
          \/ bus.cr = {"RD", "IACK"} \/ bus.cr = {"STO", "IACK"}
      BY <1>1, Zenon DEF Issued
    <2> QED BY <1>1, <1>2, <2>1, IackStep, StartStep, WriteStep, ReadStep, StopStep, Zenon
  <1>3. CASE bus' = [bus EXCEPT !.delay = @ + 1] /\ UNCHANGED <<hid, i2c_todo, upd, i2c_pending, drv>>
    <2>1. hid' = hid /\ i2c_todo' = i2c_todo /\ upd' = upd /\ i2c_pending' = i2c_pending /\ drv' = drv
      BY <1>3, Zenon
    <2>2. /\ bus' \in Bus /\ bus'.en = bus.en /\ bus'.ien = bus.ien /\ bus'.active = bus.active /\ bus'.cr = bus.cr
          /\ bus'.if = bus.if /\ bus'.addr = bus.addr /\ bus'.sel = bus.sel /\ bus'.txr = bus.txr
          /\ bus'.nack = bus.nack /\ bus'.rxr = bus.rxr
      <3>1. bus \in Bus /\ bus.delay \in Nat
        BY Zenon DEF I2cInv, I2cTypes, Bus
      <3>2. PICK n : n = bus.delay + 1
        BY Zenon
      <3>3. n \in Nat
        BY <3>1, <3>2
      <3>4. bus' = [bus EXCEPT !.delay = n]
        BY <1>3, <3>2, Zenon
      <3> QED BY <3>1, <3>3, <3>4, Zenon DEF Bus
    <2>3. Starting' = Starting /\ Read' = Read /\ Ahead' = Ahead
      BY <2>1, <2>2, Zenon DEF Starting, Read, Ahead
    <2>4. I2cTypes'
      BY <2>1, <2>2, Zenon DEF I2cTypes, I2cInv
    <2>5. Driver'
      BY <2>1, <2>2, <2>3, ZenonT(60) DEF Driver, I2cInv
    <2>6. Register'
      BY <2>1, <2>2, <2>3, Zenon DEF Register, I2cInv
    <2>7. Signal'
      BY <2>1, <2>2, <2>3, ZenonT(60) DEF Signal, I2cInv
    <2>8. Queue' /\ (Gone => Gone') /\ (Front => Front')
      BY <2>1, <2>3, Zenon DEF Queue, Gone, Front, I2cInv
    <2>9. Reading'
      <3>1. PICK r : Read = r
        BY Zenon
      <3> QED BY <2>1, <2>2, <2>3, <2>8, <3>1, ZenonT(60) DEF Reading, I2cInv
    <2> QED BY <2>4, <2>5, <2>6, <2>7, <2>8, <2>9, Zenon DEF I2cInv
  <1> QED BY <1>2, <1>3, Zenon DEF tick

\* A write of CR starts a command.
LEMMA WriteCR ==
  ASSUME bus \in Bus, NEW c \in SUBSET {"STA", "WR", "RD", "STO", "IACK"}, NEW v \in Nat,
         bus' = write_CR(bus, c, v)
  PROVE  /\ bus' \in Bus /\ bus'.cr = c \cup {"IACK"} /\ bus'.txr = v /\ bus'.active = TRUE /\ bus'.if = FALSE
         /\ bus'.en = bus.en /\ bus'.ien = bus.ien /\ bus'.addr = bus.addr /\ bus'.sel = bus.sel
         /\ bus'.nack = bus.nack /\ bus'.rxr = bus.rxr
  <1>1. PICK d : d = c \cup {"IACK"}
    BY Zenon
  <1>2. d \in SUBSET {"STA", "WR", "RD", "STO", "IACK"} /\ 0 \in Nat
    BY <1>1
  <1>3. bus' = [bus EXCEPT !.txr = v, !.cr = d, !.active = TRUE, !.delay = 0, !.tip = TRUE, !.if = FALSE]
    BY <1>1, Zenon DEF write_CR
  <1> QED BY <1>1, <1>2, <1>3, ZenonT(60) DEF Bus

\* What each of the driver's operations sends.
LEMMA OpFacts ==
  ASSUME NEW o \in Ops
  PROVE  /\ o[1] \in SUBSET {"STA", "WR", "RD", "STO", "IACK"} /\ o[2] \in Nat
         /\ o[1] \cup {"IACK"} \in Issued /\ o[1] \cup {"IACK"} # {"IACK"}
         /\ o = Stop <=> o[1] \cup {"IACK"} = {"STO", "IACK"}
         /\ o[1] \cup {"IACK"} = {"STA", "WR", "IACK"} => o[2] = Slave
         /\ o = Rd => o[1] \cup {"IACK"} = {"RD", "IACK"}
  <1>1. CASE o = To(Slave)
    <2>1. o[1] = {"STA", "WR"} /\ o[2] = 1 /\ Stop[1] = {"STO"} /\ Rd[1] = {"RD"} /\ Slave = 1
      BY <1>1 DEF To, Slave, Stop, Rd
    <2> QED BY <2>1 DEF Issued
  <1>2. CASE o \in {Wr(0), Wr(1), Wr(5), Wr(7)}
    <2>1. o[1] = {"WR"} /\ o[2] \in Nat /\ Stop[1] = {"STO"} /\ Rd[1] = {"RD"}
      BY <1>2 DEF Wr, Stop, Rd
    <2> QED BY <2>1 DEF Issued
  <1>3. CASE o = Rd
    <2>1. o[1] = {"RD"} /\ o[2] = 0 /\ Stop[1] = {"STO"}
      BY <1>3 DEF Stop, Rd
    <2> QED BY <2>1 DEF Issued
  <1>4. CASE o = Stop
    <2>1. o[1] = {"STO"} /\ o[2] = 0 /\ Rd[1] = {"RD"}
      BY <1>4 DEF Stop, Rd
    <2> QED BY <1>4, <2>1 DEF Issued
  <1> QED BY <1>1, <1>2, <1>3, <1>4, Zenon DEF Ops

\* The operations a transfer has left end with its one STOP.
Ending(s) == s \in Seq(Ops) /\ \A i \in 1 .. Len(s) : s[i] = Stop <=> i = Len(s)

\* Sending the first operation leaves operations that end the same way, none after the STOP.
LEMMA EndingTail ==
  ASSUME NEW s, Ending(s), s # <<>>
  PROVE  /\ s[1] \in Ops /\ Ending(Tail(s)) /\ Len(Tail(s)) = Len(s) - 1 /\ (Tail(s) = <<>> <=> s[1] = Stop)
         /\ \A i \in 1 .. Len(Tail(s)) : Tail(s)[i] = s[i + 1]
  <1>1. s \in Seq(Ops) /\ \A i \in 1 .. Len(s) : s[i] = Stop <=> i = Len(s)
    BY Zenon DEF Ending
  <1>2. PICK t, L, K : t = Tail(s) /\ L = Len(s) /\ K = Len(t)
    BY Zenon
  <1>3. t \in Seq(Ops) /\ K = L - 1 /\ L \in Nat \ {0} /\ \A i \in 1 .. K : t[i] = s[i + 1]
    <2>1. L \in Nat \ {0}
      BY <1>1, <1>2, EmptySeq, Zenon
    <2>2. t \in Seq(Ops) /\ Len(t) = Len(s) - 1 /\ \A i \in 1 .. Len(t) : t[i] = s[i + 1]
      BY <1>1, <1>2, HeadTailProperties
    <2> QED BY <1>2, <2>1, <2>2, Zenon
  <1>4. s[1] \in Ops
    BY <1>1, HeadIsFirst, Zenon
  <1>5. \A i \in 1 .. K : t[i] = Stop <=> i = K
    <2>1. ASSUME NEW i \in 1 .. K
          PROVE  i + 1 \in 1 .. L /\ (i + 1 = L <=> i = K)
      BY <1>3
    <2> QED BY <1>1, <1>2, <1>3, <2>1, Zenon
  <1>6. t = <<>> <=> s[1] = Stop
    <2>1. t = <<>> <=> K = 0
      BY <1>2, <1>3, EmptySeq
    <2>2. 1 \in 1 .. L /\ (K = 0 <=> 1 = L)
      BY <1>3
    <2> QED BY <1>1, <1>2, <2>1, <2>2, Zenon
  <1> QED BY <1>2, <1>3, <1>4, <1>5, <1>6, Zenon DEF Ending

\* Tuples of the lengths the programs have: five operations after the address, or one.
Five(a, b, c, d, e, f, S) ==
  /\ <<a, b, c, d, e, f>>[1] = a /\ Tail(<<a, b, c, d, e, f>>) = <<b, c, d, e, f>>
  /\ <<b, c, d, e, f>> \in Seq(S) /\ Len(<<b, c, d, e, f>>) = 5 /\ <<b, c, d, e, f>> # <<>>
  /\ <<b, c, d, e, f>>[1] = b /\ <<b, c, d, e, f>>[2] = c /\ <<b, c, d, e, f>>[3] = d
  /\ <<b, c, d, e, f>>[4] = e /\ <<b, c, d, e, f>>[5] = f
One(a, f, S) ==
  /\ <<a, f>>[1] = a /\ Tail(<<a, f>>) = <<f>> /\ <<f>> \in Seq(S) /\ Len(<<f>>) = 1 /\ <<f>>[1] = f
  /\ <<f>> # <<>> /\ Tail(<<f>>) = <<>>

\* Six operations, of which the first may address nobody.
LEMMA FiveTuple ==
  ASSUME NEW S, NEW a, NEW b \in S, NEW c \in S, NEW d \in S, NEW e \in S, NEW f \in S
  PROVE  Five(a, b, c, d, e, f, S)
  <1>1. <<a, b, c, d, e, f>>[1] = a /\ Tail(<<a, b, c, d, e, f>>) = <<b, c, d, e, f>>
    OBVIOUS
  <1>2. <<b, c, d, e, f>> \in Seq(S) /\ <<b, c, d, e, f>> # <<>>
    OBVIOUS
  <1>3. /\ Len(<<b, c, d, e, f>>) = 5
        /\ <<b, c, d, e, f>>[1] = b /\ <<b, c, d, e, f>>[2] = c /\ <<b, c, d, e, f>>[3] = d
        /\ <<b, c, d, e, f>>[4] = e /\ <<b, c, d, e, f>>[5] = f
    OBVIOUS
  <1> QED BY <1>1, <1>2, <1>3, Zenon DEF Five

\* Two operations, of which the first may address nobody.
LEMMA OneTuple ==
  ASSUME NEW S, NEW a, NEW f \in S
  PROVE  One(a, f, S)
  <1>1. <<a, f>>[1] = a /\ Tail(<<a, f>>) = <<f>> /\ Tail(<<f>>) = <<>>
    OBVIOUS
  <1>2. <<f>> \in Seq(S) /\ <<f>> # <<>> /\ Len(<<f>>) = 1 /\ <<f>>[1] = f
    OBVIOUS
  <1> QED BY <1>1, <1>2, Zenon DEF One

\* A program addresses a slave, and what is left of it then is not empty and ends with its STOP.
Sound(ops) ==
  /\ ops[1][1] = Begin /\ ops[1][2] \in {Slave, Absent} /\ Ending(Tail(ops)) /\ Tail(ops) # <<>>

\* The operations of the programs, told apart by their commands.
LEMMA OpsDiffer ==
  /\ To(Slave) \in Ops /\ Wr(0) \in Ops /\ Wr(1) \in Ops /\ Wr(5) \in Ops /\ Wr(7) \in Ops /\ Rd \in Ops /\ Stop \in Ops
  /\ To(Slave) # Stop /\ Rd # Stop /\ \A v \in {0, 1, 5, 7} : Wr(v) # Stop
  /\ \A a : To(a)[1] = Begin /\ To(a)[2] = a
  <1>1. Stop[1] = {"STO"} /\ Rd[1] = {"RD"} /\ To(Slave)[1] = {"STA", "WR"} /\ \A v : Wr(v)[1] = {"WR"}
    BY DEF Stop, Rd, To, Wr
  <1>2. {"STO"} # {"RD"} /\ {"STO"} # {"STA", "WR"} /\ {"STO"} # {"WR"}
    OBVIOUS
  <1>3. \A a : To(a)[1] = Begin /\ To(a)[2] = a
    BY DEF To, Begin
  <1> QED BY <1>1, <1>2, <1>3, Zenon DEF Ops

\* Five operations that end with the STOP.
LEMMA FiveSound ==
  ASSUME NEW x \in {Slave, Absent}, NEW b \in Ops, NEW c \in Ops, NEW d \in Ops, NEW e \in Ops,
         b # Stop, c # Stop, d # Stop, e # Stop
  PROVE  Sound(<<To(x), b, c, d, e, Stop>>)
  <1>1. PICK p, t : p = <<To(x), b, c, d, e, Stop>> /\ t = <<b, c, d, e, Stop>>
    BY Zenon
  <1>2. /\ p[1] = To(x) /\ Tail(p) = t /\ t \in Seq(Ops) /\ Len(t) = 5 /\ t # <<>>
        /\ t[1] = b /\ t[2] = c /\ t[3] = d /\ t[4] = e /\ t[5] = Stop
    <2>1. Five(To(x), b, c, d, e, Stop, Ops)
      BY OpsDiffer, FiveTuple, Zenon
    <2> QED BY <1>1, <2>1, Zenon DEF Five
  <1>3. \A i \in 1 .. 5 : i = 1 \/ i = 2 \/ i = 3 \/ i = 4 \/ i = 5
    OBVIOUS
  <1>4. 1 # 5 /\ 2 # 5 /\ 3 # 5 /\ 4 # 5
    OBVIOUS
  <1>5. Ending(t)
    BY <1>2, <1>3, <1>4, Zenon DEF Ending
  <1> QED BY <1>1, <1>2, <1>5, OpsDiffer, Zenon DEF Sound

\* The guest's programs.
LEMMA ProgramsSound ==
  ASSUME NEW ops \in Programs
  PROVE  Sound(ops) /\ (ops = Probe => ops[1][2] = Slave)
  <1>1. CASE ops = Probe
    <2>1. ops = <<To(Slave), Wr(1), Wr(0), To(Slave), Rd, Stop>>
      BY <1>1, Zenon DEF Probe
    <2>2. Sound(ops)
      <3>1. 0 \in {0, 1, 5, 7} /\ 1 \in {0, 1, 5, 7} /\ Slave \in {Slave, Absent}
        BY Zenon
      <3>2. Wr(1) # Stop /\ Wr(0) # Stop
        BY <3>1, OpsDiffer, Zenon
      <3> QED BY <2>1, <3>1, <3>2, OpsDiffer, FiveSound, Zenon
    <2>3. ops[1] = To(Slave)
      <3>1. Five(To(Slave), Wr(1), Wr(0), To(Slave), Rd, Stop, Ops)
        BY OpsDiffer, FiveTuple, Zenon
      <3> QED BY <2>1, <3>1, Zenon DEF Five
    <2> QED BY <2>2, <2>3, OpsDiffer, Zenon
  <1>2. CASE ops = <<To(Absent), Stop>>
    <2>1. /\ ops[1] = To(Absent) /\ Tail(ops) = <<Stop>> /\ <<Stop>> \in Seq(Ops) /\ Len(<<Stop>>) = 1
          /\ <<Stop>>[1] = Stop /\ <<Stop>> # <<>>
      <3>1. One(To(Absent), Stop, Ops)
        BY OpsDiffer, OneTuple, Zenon
      <3> QED BY <1>2, <3>1, Zenon DEF One
    <2>2. \A i \in 1 .. 1 : i = 1
      OBVIOUS
    <2>3. Ending(<<Stop>>)
      BY <2>1, <2>2, Zenon DEF Ending
    <2>4. ops # Probe
      <3>1. Absent # Slave
        BY DEF Absent, Slave
      <3>2. Probe[1] = To(Slave)
        <4>1. Five(To(Slave), Wr(1), Wr(0), To(Slave), Rd, Stop, Ops)
          BY OpsDiffer, FiveTuple, Zenon
        <4> QED BY <4>1, Zenon DEF Five, Probe
      <3>3. To(Absent)[2] = Absent /\ To(Slave)[2] = Slave
        BY OpsDiffer, Zenon
      <3> QED BY <2>1, <3>1, <3>2, <3>3, Zenon
    <2> QED BY <2>1, <2>3, <2>4, OpsDiffer, Zenon DEF Sound
  <1>3. CASE \E r \in {5, 7} : ops = <<To(Slave), Wr(r), Wr(0), Wr(0), Wr(1), Stop>>
    <2>1. PICK r \in {5, 7} : ops = <<To(Slave), Wr(r), Wr(0), Wr(0), Wr(1), Stop>>
      BY <1>3, Zenon
    <2>2. Wr(r) \in Ops /\ r \in {0, 1, 5, 7} /\ 0 \in {0, 1, 5, 7} /\ 1 \in {0, 1, 5, 7} /\ Slave \in {Slave, Absent}
      BY OpsDiffer, Zenon
    <2>3. Wr(r) # Stop /\ Wr(0) # Stop /\ Wr(1) # Stop
      BY <2>2, OpsDiffer, Zenon
    <2>4. ops[1] = To(Slave)
      <3>1. Five(To(Slave), Wr(r), Wr(0), Wr(0), Wr(1), Stop, Ops)
        BY <2>2, OpsDiffer, FiveTuple, Zenon
      <3> QED BY <2>1, <3>1, Zenon DEF Five
    <2>5. Sound(ops)
      BY <2>1, <2>2, <2>3, OpsDiffer, FiveSound, Zenon
    <2> QED BY <2>4, <2>5, OpsDiffer, Zenon
  <1> QED BY <1>1, <1>2, <1>3, Zenon DEF Programs

\* The read of a report: one byte after another, then the STOP.
LEMMA InputReadSound ==
  /\ Sound(InputRead) /\ InputRead[1] = To(Slave) /\ Len(Tail(InputRead)) = SIZE + 1
  /\ \A i \in 1 .. Len(Tail(InputRead)) - 1 : Tail(InputRead)[i] = Rd
  <1>1. SIZE \in Nat /\ SIZE >= 1
    BY I2cAssumption
  <1>2. PICK a, m, z, p, u : /\ a = <<To(Slave)>> /\ m = [i \in 1 .. SIZE |-> Rd] /\ z = <<Stop>>
                             /\ u = a \o m /\ p = u \o z
    BY Zenon
  <1>3. a \in Seq(Ops) /\ m \in Seq(Ops) /\ z \in Seq(Ops) /\ Len(a) = 1 /\ Len(m) = SIZE /\ Len(z) = 1
    <2>1. a \in Seq(Ops) /\ Len(a) = 1 /\ z \in Seq(Ops) /\ Len(z) = 1
      <3>1. One(Stop, To(Slave), Ops) /\ One(Stop, Stop, Ops)
        BY OpsDiffer, OneTuple, Zenon
      <3> QED BY <1>2, <3>1, Zenon DEF One
    <2>2. m \in Seq(Ops) /\ Len(m) = SIZE
      <3>1. Rd \in Ops
        BY OpsDiffer, Zenon
      <3> QED BY <1>1, <1>2, <3>1, IsASeq, LenProperties
    <2> QED BY <2>1, <2>2, Zenon
  <1>4. a[1] = To(Slave) /\ z[1] = Stop /\ \A i \in 1 .. SIZE : m[i] = Rd
    <2>1. One(Stop, To(Slave), Ops) /\ One(Stop, Stop, Ops)
      BY OpsDiffer, OneTuple, Zenon
    <2> QED BY <1>2, <2>1, Zenon DEF One
  <1>5. /\ u \in Seq(Ops) /\ Len(u) = SIZE + 1 /\ u[1] = To(Slave)
        /\ \A i \in 2 .. SIZE + 1 : u[i] = Rd
    <2>1. /\ a \o m \in Seq(Ops) /\ Len(a \o m) = Len(a) + Len(m)
          /\ \A i \in 1 .. Len(a) + Len(m) : (a \o m)[i] = IF i <= Len(a) THEN a[i] ELSE m[i - Len(a)]
      BY <1>3, ConcatProperties, Zenon
    <2>2. /\ u \in Seq(Ops) /\ Len(u) = 1 + SIZE
          /\ \A i \in 1 .. 1 + SIZE : u[i] = IF i <= 1 THEN a[i] ELSE m[i - 1]
      BY <1>2, <1>3, <2>1, Zenon
    <2> QED BY <1>1, <1>4, <2>2
  <1>6. /\ p \in Seq(Ops) /\ Len(p) = SIZE + 2 /\ p[1] = To(Slave)
        /\ \A i \in 2 .. SIZE + 1 : p[i] = Rd
        /\ p[SIZE + 2] = Stop
    <2>1. /\ u \o z \in Seq(Ops) /\ Len(u \o z) = Len(u) + Len(z)
          /\ \A i \in 1 .. Len(u) + Len(z) : (u \o z)[i] = IF i <= Len(u) THEN u[i] ELSE z[i - Len(u)]
      BY <1>3, <1>5, ConcatProperties, Zenon
    <2>2. /\ p \in Seq(Ops) /\ Len(p) = (SIZE + 1) + 1
          /\ \A i \in 1 .. (SIZE + 1) + 1 : p[i] = IF i <= SIZE + 1 THEN u[i] ELSE z[i - (SIZE + 1)]
      BY <1>2, <1>3, <1>5, <2>1, Zenon
    <2> QED BY <1>1, <1>4, <1>5, <2>2
  <1>7. PICK t : t = Tail(p)
    BY Zenon
  <1>8. /\ t \in Seq(Ops) /\ Len(t) = SIZE + 1 /\ t # <<>>
        /\ \A i \in 1 .. SIZE + 1 : t[i] = p[i + 1]
    <2>1. p # <<>>
      BY <1>1, <1>6, EmptySeq
    <2>2. t \in Seq(Ops) /\ Len(t) = Len(p) - 1 /\ \A i \in 1 .. Len(t) : t[i] = p[i + 1]
      BY <1>6, <1>7, <2>1, HeadTailProperties
    <2>3. Len(t) = SIZE + 1 /\ Len(t) # 0
      BY <1>1, <1>6, <2>2
    <2>4. t # <<>>
      BY <2>3, EmptySeq, Zenon
    <2> QED BY <2>2, <2>3, <2>4, Zenon
  <1>9. \A i \in 1 .. SIZE : t[i] = Rd
    BY <1>1, <1>6, <1>8
  <1>10. t[SIZE + 1] = Stop
    BY <1>1, <1>6, <1>8
  <1>11. \A i \in 1 .. SIZE + 1 : t[i] = Stop <=> i = SIZE + 1
    <2>1. \A i \in 1 .. SIZE + 1 : i = SIZE + 1 \/ (i \in 1 .. SIZE /\ i # SIZE + 1)
      BY <1>1
    <2> QED BY <1>9, <1>10, <2>1, OpsDiffer, Zenon
  <1>12. Ending(t)
    BY <1>8, <1>11, Zenon DEF Ending
  <1>13. InputRead = p
    BY <1>2, Zenon DEF InputRead
  <1>14. Len(t) - 1 = SIZE
    BY <1>1, <1>8
  <1>15. Sound(p)
    <2>1. p[1][1] = Begin /\ p[1][2] = Slave
      BY <1>6, OpsDiffer, Zenon
    <2> QED BY <1>7, <1>8, <1>12, <2>1, Zenon DEF Sound
  <1> QED BY <1>6, <1>7, <1>8, <1>9, <1>13, <1>14, <1>15, Zenon

\* Between transfers: no slave is selected, nothing is addressed, and the register is the input report's.
LEMMA Between ==
  ASSUME I2cInv, ~drv.wait
  PROVE  /\ bus.sel = FALSE /\ drv.ops = <<>> /\ drv.serving = FALSE /\ drv.front = 0 /\ ~Starting
         /\ drv.probed => hid.cur_reg = 3
  <1>1. /\ ~bus.sel /\ drv.ops = <<>> /\ ~drv.serving /\ drv.front = 0 /\ (bus.active => bus.cr = {"IACK"})
    BY Zenon DEF I2cInv, Driver
  <1>2. ~Starting
    BY <1>1, CommandsDiffer, Zenon DEF Starting
  <1>3. bus.sel = FALSE /\ drv.serving = FALSE
    BY <1>1, Zenon DEF I2cInv, I2cTypes, Bus
  <1> QED BY <1>1, <1>2, <1>3, Zenon DEF I2cInv, Register

\* A write of CTR, between transfers.
LEMMA WriteCTRStep ==
  ASSUME I2cInv, NEW en \in BOOLEAN, write_CTR(en)
  PROVE  I2cInv'
  <1>1. /\ i2c_todo = <<>> /\ i2c_todo' = i2c_todo /\ ~drv.wait /\ hid' = hid /\ upd' = upd /\ drv' = drv
    BY Zenon DEF write_CTR
  <1>2. /\ bus.sel = FALSE /\ drv.ops = <<>> /\ drv.serving = FALSE /\ drv.front = 0 /\ ~Starting
        /\ drv.probed => hid.cur_reg = 3
    BY <1>1, Between, Zenon
  <1>3. bus \in Bus /\ i2c_pending \in [i2c : BOOLEAN, hid : BOOLEAN]
    BY Zenon DEF I2cInv, I2cTypes
  <1>4. /\ bus' \in Bus /\ bus'.en = en /\ bus'.ien = en /\ bus'.sel = FALSE /\ bus'.cr = bus.cr
        /\ bus'.active = bus.active /\ (bus'.if => bus.if)
    <2>1. CASE en
      <3>1. bus' = [bus EXCEPT !.en = en, !.ien = en]
        BY <2>1, Zenon DEF write_CTR
      <3> QED BY <1>2, <1>3, <3>1, ZenonT(60) DEF Bus
    <2>2. CASE ~en
      <3>1. NoAddr \in Int
        BY DEF NoAddr
      <3>2. PICK b : b = [bus EXCEPT !.tip = FALSE, !.if = FALSE, !.busy = FALSE, !.nack = FALSE,
                                     !.sel = FALSE, !.addr = NoAddr, !.int_line = FALSE]
        BY Zenon
      <3>3. /\ b \in Bus /\ b.sel = FALSE /\ b.cr = bus.cr /\ b.active = bus.active /\ b.if = FALSE
        BY <1>3, <3>1, <3>2, ZenonT(60) DEF Bus
      <3>4. bus' = [b EXCEPT !.en = en, !.ien = en]
        BY <2>2, <3>2, Zenon DEF write_CTR
      <3> QED BY <3>3, <3>4, ZenonT(60) DEF Bus
    <2> QED BY <2>1, <2>2, Zenon
  <1>5. i2c_pending' \in [i2c : BOOLEAN, hid : BOOLEAN] /\ i2c_pending'.hid = i2c_pending.hid
    BY <1>3, Zenon DEF write_CTR, lower_interrupt
  <1>6. ~Starting'
    BY <1>2, <1>4, Zenon DEF Starting
  <1>7. I2cTypes'
    BY <1>1, <1>4, <1>5, Zenon DEF I2cTypes, I2cInv
  <1>8. Driver'
    BY <1>1, <1>2, <1>4, Zenon DEF Driver, I2cInv
  <1>9. Register'
    BY <1>1, <1>2, Zenon DEF Register
  <1>10. Signal'
    BY <1>1, <1>2, <1>4, <1>5, TodoDiffer, Zenon DEF Signal, I2cInv
  <1>11. Queue'
    BY <1>1, QueueKept, Zenon
  <1>12. Reading'
    BY <1>1, <1>2, Zenon DEF Reading
  <1> QED BY <1>7, <1>8, <1>9, <1>10, <1>11, <1>12, Zenon DEF I2cInv

\* The beginning of a transfer.
LEMMA Begun ==
  ASSUME I2cInv, NEW ops, Sound(ops), BeginTransfer(ops), drv'.ops = Tail(ops), drv'.wait = TRUE
  PROVE  /\ bus' \in Bus /\ Starting' /\ bus'.txr = ops[1][2] /\ bus'.sel = FALSE /\ bus'.active = TRUE
         /\ i2c_todo = <<>> /\ i2c_todo' = <<>> /\ hid' = hid /\ upd' = upd /\ ~drv.wait /\ Driver'
  <1>1. /\ bus.en /\ i2c_todo = <<>> /\ ~drv.wait /\ bus' = write_CR(bus, ops[1][1], ops[1][2])
        /\ hid' = hid /\ i2c_todo' = i2c_todo /\ upd' = upd
    BY Zenon DEF BeginTransfer
  <1>2. /\ ops[1][1] = Begin /\ ops[1][2] \in {Slave, Absent} /\ Ending(Tail(ops)) /\ Tail(ops) # <<>>
    BY Zenon DEF Sound
  <1>3. Begin \in SUBSET {"STA", "WR", "RD", "STO", "IACK"} /\ Begin \cup {"IACK"} = {"STA", "WR", "IACK"}
    BY DEF Begin
  <1>4. ops[1][2] \in Nat
    <2>1. Slave \in Nat /\ Absent \in Nat
      BY DEF Slave, Absent
    <2> QED BY <1>2, <2>1, Zenon
  <1>5. PICK v : v = ops[1][2]
    BY Zenon
  <1>6. bus \in Bus /\ v \in Nat /\ bus' = write_CR(bus, Begin, v)
    BY <1>1, <1>2, <1>4, <1>5, Zenon DEF I2cInv, I2cTypes
  <1>7. /\ bus' \in Bus /\ bus'.cr = {"STA", "WR", "IACK"} /\ bus'.txr = v /\ bus'.active = TRUE /\ bus'.if = FALSE
        /\ bus'.en = bus.en /\ bus'.ien = bus.ien /\ bus'.sel = bus.sel
    BY <1>3, <1>6, WriteCR, Zenon
  <1>8. Starting'
    BY <1>7, Zenon DEF Starting
  <1>9. bus.sel = FALSE
    BY <1>1, Between, Zenon
  <1>10. Driver'
    <2>1. bus'.ien /\ (bus'.en => bus'.ien)
      BY <1>1, <1>7, Zenon DEF Driver, I2cInv
    <2>2. bus'.cr \in Issued /\ bus'.cr # {"IACK"} /\ bus'.cr # {"STO", "IACK"}
      BY <1>7, CommandsDiffer, Zenon DEF Issued
    <2>3. \A i \in 1 .. Len(drv'.ops) : drv'.ops[i] = Stop <=> i = Len(drv'.ops)
      BY <1>2, Zenon DEF Ending
    <2> QED BY <1>1, <1>2, <1>7, <1>8, <2>1, <2>2, <2>3, Zenon DEF Driver
  <1> QED BY <1>1, <1>5, <1>7, <1>8, <1>9, <1>10, Zenon

\* A program of the guest begins.
LEMMA TransferStep ==
  ASSUME I2cInv, NEW ops \in Programs, Transfer(ops)
  PROVE  I2cInv'
  <1>1. Sound(ops) /\ (ops = Probe => ops[1][2] = Slave)
    BY ProgramsSound, Zenon
  <1>2. /\ drv'.ops = Tail(ops) /\ drv'.wait = TRUE /\ drv'.probed = TRUE /\ drv'.serving = drv.serving
        /\ drv'.front = drv.front
        /\ drv' \in [ops : Seq(Ops), wait : BOOLEAN, probed : BOOLEAN, serving : BOOLEAN, bytes : Seq(Nat), front : Nat]
    <2>1. Tail(ops) \in Seq(Ops)
      BY <1>1, Zenon DEF Sound, Ending
    <2> QED BY <2>1, Zenon DEF Transfer, I2cInv, I2cTypes
  <1>3. BeginTransfer(ops) /\ i2c_pending' = i2c_pending /\ (drv.probed \/ ops = Probe)
    BY Zenon DEF Transfer
  <1>4. /\ bus' \in Bus /\ Starting' /\ bus'.txr = ops[1][2] /\ bus'.sel = FALSE /\ bus'.active = TRUE
        /\ i2c_todo = <<>> /\ i2c_todo' = <<>> /\ hid' = hid /\ upd' = upd /\ ~drv.wait /\ Driver'
    BY <1>1, <1>2, <1>3, Begun, Zenon
  <1>5. /\ drv.serving = FALSE /\ drv.front = 0 /\ ~Starting
        /\ drv.probed => hid.cur_reg = 3
    BY <1>4, Between, Zenon
  <1>6. I2cTypes'
    BY <1>2, <1>3, <1>4, Zenon DEF I2cTypes, I2cInv, Todos
  <1>7. Register'
    BY <1>1, <1>3, <1>4, <1>5, Zenon DEF Register
  <1>8. Signal'
    BY <1>2, <1>3, <1>4, <1>5, TodoDiffer, Zenon DEF Signal, I2cInv
  <1>9. Queue'
    BY <1>4, QueueKept, Zenon
  <1>10. Reading'
    BY <1>2, <1>5, Zenon DEF Reading
  <1> QED BY <1>4, <1>6, <1>7, <1>8, <1>9, <1>10, Zenon DEF I2cInv

\* The read of a report begins.
LEMMA ReadReportStep ==
  ASSUME I2cInv, ReadReport
  PROVE  I2cInv'
  <1>1. /\ Sound(InputRead) /\ InputRead[1] = To(Slave) /\ Len(Tail(InputRead)) = SIZE + 1
        /\ \A i \in 1 .. Len(Tail(InputRead)) - 1 : Tail(InputRead)[i] = Rd
    BY InputReadSound, Zenon
  <1>2. PICK f : f = IF upd.at = "idle" /\ hid.queue # <<>> THEN Head(hid.queue) ELSE 0
    BY Zenon
  <1>3. hid.queue \in Seq(1 .. Reports)
    BY Zenon DEF I2cInv, I2cTypes, Hid
  <1>4. f \in Nat /\ (f # 0 => upd.at = "idle" /\ hid.queue # <<>> /\ f = hid.queue[1] /\ f \in 1 .. Reports)
    <2>1. CASE upd.at = "idle" /\ hid.queue # <<>>
      <3>1. f = hid.queue[1] /\ f \in 1 .. Reports
        BY <1>2, <1>3, <2>1, HeadIsFirst, Zenon
      <3>2. \A x \in 1 .. Reports : x \in Nat
        BY I2cAssumption
      <3> QED BY <2>1, <3>1, <3>2, Zenon
    <2>2. CASE ~(upd.at = "idle" /\ hid.queue # <<>>)
      <3>1. f = 0 /\ 0 \in Nat
        BY <1>2, <2>2
      <3> QED BY <3>1, Zenon
    <2> QED BY <2>1, <2>2, Zenon
  <1>5. /\ drv'.ops = Tail(InputRead) /\ drv'.wait = TRUE /\ drv'.probed = drv.probed /\ drv'.serving = TRUE
        /\ drv'.front = f /\ drv'.bytes = <<>>
        /\ drv' \in [ops : Seq(Ops), wait : BOOLEAN, probed : BOOLEAN, serving : BOOLEAN, bytes : Seq(Nat), front : Nat]
    <2>1. Tail(InputRead) \in Seq(Ops) /\ <<>> \in Seq(Nat)
      BY <1>1, EmptySeq, Zenon DEF Sound, Ending
    <2>2. drv' = [drv EXCEPT !.ops = Tail(InputRead), !.wait = TRUE, !.serving = TRUE, !.bytes = <<>>, !.front = f]
      BY <1>2, Zenon DEF ReadReport
    <2> QED BY <1>4, <2>1, <2>2, ZenonT(60) DEF I2cInv, I2cTypes
  <1>6. /\ BeginTransfer(InputRead) /\ drv.probed /\ i2c_pending' \in [i2c : BOOLEAN, hid : BOOLEAN]
    BY Zenon DEF ReadReport, I2cInv, I2cTypes
  <1>7. /\ bus' \in Bus /\ Starting' /\ bus'.txr = Slave /\ bus'.sel = FALSE /\ bus'.active = TRUE
        /\ i2c_todo = <<>> /\ i2c_todo' = <<>> /\ hid' = hid /\ upd' = upd /\ ~drv.wait /\ Driver'
    <2>1. InputRead[1][2] = Slave
      BY <1>1, OpsDiffer, Zenon
    <2> QED BY <1>1, <1>5, <1>6, <2>1, Begun, Zenon
  <1>8. hid.cur_reg = 3
    BY <1>6, <1>7, Between, Zenon
  <1>9. I2cTypes'
    BY <1>5, <1>6, <1>7, Zenon DEF I2cTypes, I2cInv, Todos
  <1>10. Register'
    BY <1>7, Zenon DEF Register
  <1>11. Signal'
    BY <1>5, <1>7, TodoDiffer, Zenon DEF Signal
  <1>12. Queue'
    BY <1>7, QueueKept, Zenon
  <1>13. Reading'
    <2>1. CASE f = 0
      BY <1>5, <2>1, Zenon DEF Reading
    <2>2. CASE f # 0
      <3>1. upd.at = "idle" /\ hid.queue # <<>> /\ f = hid.queue[1] /\ f \in 1 .. Reports
        BY <1>4, <2>2, Zenon
      <3>2. "idle" # "size" /\ "idle" # "copy"
        OBVIOUS
      <3>3. hid.report = f
        BY <1>7, <3>1, <3>2, TodoDiffer, Zenon DEF Queue, I2cInv
      <3>4. Front'
        BY <1>5, <1>7, <1>8, <3>1, <3>2, <3>3, Zenon DEF Front
      <3>5. 1 .. Len(<<>>) = {}
        BY EmptySeq
      <3> QED BY <1>1, <1>5, <1>7, <3>1, <3>4, <3>5, ZenonT(60) DEF Reading
    <2> QED BY <2>1, <2>2, Zenon
  <1> QED BY <1>7, <1>9, <1>10, <1>11, <1>12, <1>13, Zenon DEF I2cInv

\* The next operation after a command's interrupt: its byte is kept, and a NACK goes to the STOP.
Bytes == IF drv.serving /\ "RD" \in bus.cr THEN Append(drv.bytes, bus.rxr) ELSE drv.bytes
Rest == IF bus.nack /\ drv.ops # <<>> THEN <<Stop>> ELSE drv.ops

\* An interrupt comes on a bus at rest, and what is left ends with a STOP.
LEMMA Interrupted ==
  ASSUME I2cInv, OnInterrupt
  PROVE  /\ i2c_todo = <<>> /\ i2c_todo' = <<>> /\ hid' = hid /\ upd' = upd /\ bus.active = FALSE /\ ~Starting
         /\ i2c_pending' \in [i2c : BOOLEAN, hid : BOOLEAN] /\ i2c_pending'.hid = i2c_pending.hid
         /\ Bytes \in Seq(Nat) /\ Ending(Rest) /\ (Rest = <<>> <=> drv.ops = <<>>)
         /\ drv.ops # <<>> => drv.wait
  <1>1. /\ i2c_todo = <<>> /\ i2c_todo' = <<>> /\ hid' = hid /\ upd' = upd /\ bus.if
        /\ i2c_pending' = [i2c_pending EXCEPT !.i2c = FALSE]
    BY Zenon DEF OnInterrupt
  <1>2. /\ bus \in Bus /\ i2c_pending \in [i2c : BOOLEAN, hid : BOOLEAN] /\ drv.ops \in Seq(Ops)
        /\ drv.bytes \in Seq(Nat)
    BY Zenon DEF I2cInv, I2cTypes
  <1>3. bus.active = FALSE /\ ~Starting
    <2>1. ~bus.active
      BY <1>1, Zenon DEF I2cInv, Driver
    <2> QED BY <1>2, <2>1, Zenon DEF Bus, Starting
  <1>4. i2c_pending' \in [i2c : BOOLEAN, hid : BOOLEAN] /\ i2c_pending'.hid = i2c_pending.hid
    BY <1>1, <1>2, Zenon
  <1>5. Bytes \in Seq(Nat)
    <2>1. bus.rxr \in Nat
      BY <1>2, Zenon DEF Bus
    <2>2. Append(drv.bytes, bus.rxr) \in Seq(Nat)
      BY <1>2, <2>1, AppendProperties, Zenon
    <2> QED BY <1>2, <2>2, Zenon DEF Bytes
  <1>6. Ending(drv.ops) /\ Ending(<<Stop>>) /\ <<Stop>> # <<>>
    <2>1. Ending(drv.ops)
      BY <1>2, Zenon DEF Ending, I2cInv, Driver
    <2>2. One(Stop, Stop, Ops)
      BY OpsDiffer, OneTuple, Zenon
    <2>3. \A i \in 1 .. 1 : i = 1
      OBVIOUS
    <2> QED BY <2>1, <2>2, <2>3, Zenon DEF Ending, One
  <1>7. Ending(Rest) /\ (Rest = <<>> <=> drv.ops = <<>>)
    BY <1>6, Zenon DEF Rest
  <1>8. drv.ops # <<>> => drv.wait
    BY Zenon DEF I2cInv, Driver
  <1> QED BY <1>1, <1>3, <1>4, <1>5, <1>7, <1>8, Zenon

\* The transfer goes on.
LEMMA ContinueStep ==
  ASSUME I2cInv, OnInterrupt, Rest # <<>>
  PROVE  I2cInv'
  <1>1. /\ i2c_todo = <<>> /\ i2c_todo' = <<>> /\ hid' = hid /\ upd' = upd /\ bus.active = FALSE /\ ~Starting
        /\ i2c_pending' \in [i2c : BOOLEAN, hid : BOOLEAN] /\ i2c_pending'.hid = i2c_pending.hid
        /\ Bytes \in Seq(Nat) /\ Ending(Rest) /\ drv.ops # <<>> /\ drv.wait
    BY Interrupted, Zenon
  <1>2. PICK r, o, y : r = Rest /\ o = r[1] /\ y = Bytes
    BY Zenon
  <1>3. /\ o \in Ops /\ Ending(Tail(r)) /\ Len(Tail(r)) = Len(r) - 1 /\ (Tail(r) = <<>> <=> o = Stop)
        /\ \A i \in 1 .. Len(Tail(r)) : Tail(r)[i] = r[i + 1]
    BY <1>1, <1>2, EndingTail, Zenon
  <1>4. bus' = write_CR(bus, o[1], o[2]) /\ drv' = [drv EXCEPT !.ops = Tail(r), !.bytes = y]
    BY <1>2, Zenon DEF OnInterrupt, Rest, Bytes
  <1>5. /\ o[1] \in SUBSET {"STA", "WR", "RD", "STO", "IACK"} /\ o[2] \in Nat
        /\ o[1] \cup {"IACK"} \in Issued /\ o[1] \cup {"IACK"} # {"IACK"}
        /\ o = Stop <=> o[1] \cup {"IACK"} = {"STO", "IACK"}
        /\ o[1] \cup {"IACK"} = {"STA", "WR", "IACK"} => o[2] = Slave
        /\ o = Rd => o[1] \cup {"IACK"} = {"RD", "IACK"}
    BY <1>3, OpFacts, Zenon
  <1>6. PICK c, v : c = o[1] /\ v = o[2]
    BY Zenon
  <1>7. /\ bus' \in Bus /\ bus'.cr = c \cup {"IACK"} /\ bus'.txr = v /\ bus'.active = TRUE /\ bus'.if = FALSE
        /\ bus'.en = bus.en /\ bus'.ien = bus.ien /\ bus'.addr = bus.addr /\ bus'.sel = bus.sel
        /\ bus'.nack = bus.nack /\ bus'.rxr = bus.rxr
    <2>1. /\ bus \in Bus /\ c \in SUBSET {"STA", "WR", "RD", "STO", "IACK"} /\ v \in Nat
          /\ bus' = write_CR(bus, c, v)
      BY <1>4, <1>5, <1>6, Zenon DEF I2cInv, I2cTypes
    <2> QED BY <2>1, WriteCR, Zenon
  <1>8. /\ drv'.ops = Tail(r) /\ drv'.bytes = y /\ drv'.wait = drv.wait /\ drv'.probed = drv.probed
        /\ drv'.serving = drv.serving /\ drv'.front = drv.front
        /\ drv' \in [ops : Seq(Ops), wait : BOOLEAN, probed : BOOLEAN, serving : BOOLEAN, bytes : Seq(Nat), front : Nat]
    <2>1. Tail(r) \in Seq(Ops) /\ y \in Seq(Nat)
      BY <1>1, <1>2, <1>3, Zenon DEF Ending
    <2> QED BY <1>4, <2>1, ZenonT(60) DEF I2cInv, I2cTypes
  <1>9. I2cTypes'
    BY <1>1, <1>7, <1>8, Zenon DEF I2cTypes, I2cInv, Todos
  <1>10. Driver'
    <2>1. bus.ien /\ bus.addr # NoAddr
      BY <1>1, Zenon DEF I2cInv, Driver
    <2>2. \A i \in 1 .. Len(drv'.ops) : drv'.ops[i] = Stop <=> i = Len(drv'.ops)
      BY <1>3, <1>8, Zenon DEF Ending
    <2>3. bus'.cr \in Issued /\ bus'.cr # {"IACK"} /\ (bus'.cr = {"STO", "IACK"} <=> drv'.ops = <<>>)
      BY <1>3, <1>5, <1>6, <1>7, <1>8, Zenon
    <2> QED BY <1>1, <1>7, <1>8, <2>1, <2>2, <2>3, Zenon DEF Driver
  <1>11. Starting' => bus'.txr = Slave
    BY <1>5, <1>6, <1>7, Zenon DEF Starting
  <1>12. Register'
    BY <1>1, <1>7, <1>8, <1>11, Zenon DEF Register, I2cInv
  <1>13. Signal'
    BY <1>1, <1>7, <1>8, TodoDiffer, ZenonT(60) DEF Signal, I2cInv
  <1>14. Queue' /\ (Gone => Gone') /\ (Front => Front')
    <2>1. Ahead' = Ahead
      BY <1>1, Zenon DEF Ahead
    <2> QED BY <1>1, <1>8, <2>1, TodoDiffer, Zenon DEF Queue, I2cInv, Gone, Front
  <1>15. Reading'
    <2>1. CASE drv.front = 0
      BY <1>8, <2>1, Zenon DEF Reading
    <2>2. CASE drv.front # 0
      <3>1. /\ drv.front \in 1 .. Reports /\ drv.serving
            /\ \A i \in 1 .. Len(drv.bytes) : drv.bytes[i] = drv.front
            /\ \A i \in 1 .. Len(drv.ops) - 1 : drv.ops[i] = Rd
        BY <2>2, Zenon DEF Reading, I2cInv
      <3>2. \/ /\ bus.sel /\ ~bus.nack /\ hid.event = "NONE" /\ Read < SIZE /\ hid.off = Read
               /\ Len(drv.ops) = SIZE + 1 - Read /\ ("RD" \in bus.cr => bus.rxr = drv.front) /\ Front
            \/ /\ ~bus.nack /\ bus.cr = {"RD"} /\ bus.rxr = drv.front /\ hid.event = "NONE"
               /\ Len(drv.bytes) = SIZE - 1 /\ Len(drv.ops) = 1 /\ Gone
        BY <1>1, <2>2, TodoDiffer, ZenonT(60) DEF Reading, I2cInv
      <3>3. r = drv.ops
        BY <1>2, <3>2, Zenon DEF Rest
      <3>4. PICK k, n, L : k = Len(drv.bytes) /\ n = Read /\ L = Len(r)
        BY Zenon
      <3>5. k \in Nat /\ n \in Nat /\ SIZE \in Nat /\ L \in Nat
        <4>1. drv.bytes \in Seq(Nat) /\ r \in Seq(Ops)
          BY <1>1, <1>2, Zenon DEF I2cInv, I2cTypes, Ending
        <4>2. k \in Nat /\ L \in Nat
          BY <3>4, <4>1, LenProperties, Zenon
        <4>3. n = k + (IF "RD" \in bus.cr THEN 1 ELSE 0)
          BY <3>4, Zenon DEF Read
        <4>4. n = k + 1 \/ n = k + 0
          BY <4>3, Zenon
        <4> QED BY <4>2, <4>4, I2cAssumption
      <3>6. /\ Len(y) = n
            /\ ("RD" \in bus.cr => bus.rxr = drv.front) => \A i \in 1 .. Len(y) : y[i] = drv.front
        <4>1. drv.bytes \in Seq(Nat) /\ bus.rxr \in Nat
          BY Zenon DEF I2cInv, I2cTypes, Bus
        <4>2. CASE "RD" \in bus.cr
          <5>1. y = Append(drv.bytes, bus.rxr) /\ n = k + 1
            BY <1>2, <3>1, <3>4, <4>2, Zenon DEF Bytes, Read
          <5>2. PICK s, x : s = drv.bytes /\ x = bus.rxr
            BY Zenon
          <5>3. /\ Len(Append(s, x)) = Len(s) + 1 /\ Append(s, x)[Len(s) + 1] = x
                /\ \A i \in 1 .. Len(s) : Append(s, x)[i] = s[i]
            BY <4>1, <5>2, AppendProperties
          <5>4. Len(y) = k + 1 /\ y[k + 1] = bus.rxr /\ \A i \in 1 .. k : y[i] = drv.bytes[i]
            BY <3>4, <5>1, <5>2, <5>3, Zenon
          <5>5. \A i \in 1 .. k + 1 : i = k + 1 \/ i \in 1 .. k
            BY <3>5
          <5> QED BY <3>1, <3>4, <4>2, <5>1, <5>4, <5>5, Zenon
        <4>3. CASE "RD" \notin bus.cr
          <5>1. y = drv.bytes /\ n = k + 0
            BY <1>2, <3>4, <4>3, Zenon DEF Bytes, Read
          <5>2. n = k
            BY <3>5, <5>1
          <5> QED BY <3>1, <3>4, <5>1, <5>2, Zenon
        <4> QED BY <4>2, <4>3, Zenon
      <3>7. Len(drv'.ops) = L - 1 /\ drv'.ops = Tail(r)
        BY <1>3, <1>8, <3>4, Zenon
      <3>8. \A i \in 1 .. Len(drv'.ops) - 1 : drv'.ops[i] = Rd
        <4>1. ASSUME NEW i \in 1 .. (L - 1) - 1
              PROVE  i \in 1 .. L - 1 /\ i + 1 \in 1 .. L - 1
          BY <3>5
        <4>2. ASSUME NEW i \in 1 .. (L - 1) - 1
              PROVE  Tail(r)[i] = Rd
          BY <1>3, <3>1, <3>3, <3>4, <3>7, <4>1, <4>2, Zenon
        <4> QED BY <3>7, <4>2, Zenon
      <3>9. CASE /\ bus.sel /\ hid.event = "NONE" /\ Read < SIZE /\ hid.off = Read
                 /\ Len(drv.ops) = SIZE + 1 - Read /\ ("RD" \in bus.cr => bus.rxr = drv.front) /\ Front
        <4>1. n < SIZE /\ L = SIZE + 1 - n /\ hid.off = n
          BY <3>3, <3>4, <3>9, Zenon
        <4>2. 1 \in 1 .. L - 1 /\ L - 1 = SIZE - n
          BY <3>5, <4>1
        <4>3. o = Rd
          BY <1>2, <3>1, <3>3, <3>4, <4>2, Zenon
        <4>4. bus'.cr = {"RD", "IACK"}
          BY <1>5, <1>6, <1>7, <4>3, Zenon
        <4>5. /\ Len(drv'.bytes) < SIZE /\ hid'.off = Len(drv'.bytes) /\ Len(drv'.ops) = SIZE - Len(drv'.bytes)
          BY <1>1, <1>8, <3>6, <3>7, <4>1, <4>2, Zenon
        <4>6. \A i \in 1 .. Len(drv'.bytes) : drv'.bytes[i] = drv'.front
          BY <1>8, <3>6, <3>9, Zenon
        <4> QED BY <1>1, <1>7, <1>8, <1>14, <3>1, <3>8, <3>9, <4>4, <4>5, <4>6, ZenonT(60) DEF Reading
      <3>10. CASE /\ bus.cr = {"RD"} /\ bus.rxr = drv.front /\ hid.event = "NONE"
                  /\ Len(drv.bytes) = SIZE - 1 /\ Len(drv.ops) = 1 /\ Gone
        <4>1. "RD" \in {"RD"}
          OBVIOUS
        <4>2. n = k + 1 /\ k = SIZE - 1 /\ L = 1
          BY <3>3, <3>4, <3>10, <4>1, Zenon DEF Read
        <4>3. n = SIZE /\ Len(drv'.ops) = 0
          BY <3>5, <3>7, <4>2
        <4>4. drv'.ops = <<>>
          BY <1>8, <4>3, EmptySeq
        <4>5. bus'.cr = {"STO", "IACK"}
          BY <1>3, <1>5, <1>6, <1>7, <1>8, <4>4, Zenon
        <4>6. Len(drv'.bytes) = SIZE
          BY <1>8, <3>6, <4>3, Zenon
        <4>7. \A i \in 1 .. Len(drv'.bytes) : drv'.bytes[i] = drv'.front
          BY <1>8, <3>6, <3>10, Zenon
        <4> QED BY <1>1, <1>8, <1>14, <3>1, <3>8, <3>10, <4>4, <4>5, <4>6, <4>7, TodoDiffer, ZenonT(60) DEF Reading
      <3> QED BY <3>2, <3>9, <3>10, Zenon
    <2> QED BY <2>1, <2>2, Zenon
  <1> QED BY <1>9, <1>10, <1>12, <1>13, <1>14, <1>15, Zenon DEF I2cInv

\* The transfer ends with a last acknowledge.
LEMMA EndStep ==
  ASSUME I2cInv, OnInterrupt, Rest = <<>>
  PROVE  I2cInv'
  <1>1. /\ i2c_todo = <<>> /\ i2c_todo' = <<>> /\ hid' = hid /\ upd' = upd /\ bus.active = FALSE /\ ~Starting
        /\ i2c_pending' \in [i2c : BOOLEAN, hid : BOOLEAN] /\ i2c_pending'.hid = i2c_pending.hid
        /\ drv.ops = <<>>
    BY Interrupted, Zenon
  <1>2. /\ bus' = write_CR(bus, {}, 0)
        /\ drv' = [drv EXCEPT !.ops = <<>>, !.wait = FALSE, !.serving = FALSE, !.bytes = <<>>, !.front = 0]
    BY Zenon DEF OnInterrupt, Rest
  <1>3. {} \cup {"IACK"} = {"IACK"} /\ {} \in SUBSET {"STA", "WR", "RD", "STO", "IACK"} /\ 0 \in Nat
    OBVIOUS
  <1>4. /\ bus' \in Bus /\ bus'.cr = {"IACK"} /\ bus'.active = TRUE /\ bus'.if = FALSE
        /\ bus'.en = bus.en /\ bus'.ien = bus.ien /\ bus'.sel = bus.sel
    <2>1. bus \in Bus
      BY Zenon DEF I2cInv, I2cTypes
    <2> QED BY <1>2, <1>3, <2>1, WriteCR, Zenon
  <1>5. bus.sel = FALSE
    <2>1. ~bus.sel
      BY <1>1, Zenon DEF I2cInv, Driver
    <2> QED BY <2>1, Zenon DEF I2cInv, I2cTypes, Bus
  <1>6. /\ drv'.ops = <<>> /\ drv'.wait = FALSE /\ drv'.serving = FALSE /\ drv'.front = 0 /\ drv'.probed = drv.probed
        /\ drv' \in [ops : Seq(Ops), wait : BOOLEAN, probed : BOOLEAN, serving : BOOLEAN, bytes : Seq(Nat), front : Nat]
    <2>1. <<>> \in Seq(Ops) /\ <<>> \in Seq(Nat)
      BY EmptySeq, Zenon
    <2> QED BY <1>2, <1>3, <2>1, ZenonT(60) DEF I2cInv, I2cTypes
  <1>7. I2cTypes'
    BY <1>1, <1>4, <1>6, Zenon DEF I2cTypes, I2cInv, Todos
  <1>8. Driver'
    <2>1. 1 .. Len(<<>>) = {}
      BY EmptySeq
    <2> QED BY <1>1, <1>4, <1>5, <1>6, <2>1, Zenon DEF Driver, I2cInv, Issued
  <1>9. Register'
    BY <1>1, <1>5, <1>6, Zenon DEF Register, I2cInv
  <1>10. Signal'
    BY <1>1, <1>4, <1>5, <1>6, TodoDiffer, Zenon DEF Signal, I2cInv
  <1>11. Queue'
    BY <1>1, QueueKept, Zenon
  <1>12. Reading'
    BY <1>6, Zenon DEF Reading
  <1> QED BY <1>7, <1>8, <1>9, <1>10, <1>11, <1>12, Zenon DEF I2cInv

\* The invariant holds when the machine starts.
LEMMA I2cInitial ==
  ASSUME I2cInit
  PROVE  I2cInv
  <1> USE DEF I2cInit
  <1>1. /\ 0 \in Nat /\ NoAddr \in Int /\ 3 \in Nat /\ {} \in SUBSET {"STA", "WR", "RD", "STO", "IACK"}
        /\ 0 \in 0 .. Reports /\ <<>> \in Seq(1 .. Reports) /\ <<>> \in Seq(Ops) /\ <<>> \in Seq(Nat)
    BY I2cAssumption DEF NoAddr
  <1>2. /\ hid \in Hid /\ hid.queue = <<>> /\ hid.transmitting = FALSE
    BY <1>1, Zenon DEF Hid
  <1>3. I2cTypes
    <2>1. bus \in Bus
      BY <1>1, Zenon DEF Bus
    <2>2. /\ i2c_todo \in Todos /\ i2c_pending \in [i2c : BOOLEAN, hid : BOOLEAN]
          /\ upd \in [at : {"idle", "push", "size", "copy", "signal"}, report : 0 .. Reports]
      BY <1>1, Zenon DEF Todos
    <2>3. drv \in [ops : Seq(Ops), wait : BOOLEAN, probed : BOOLEAN, serving : BOOLEAN, bytes : Seq(Nat), front : Nat]
      BY <1>1, Zenon
    <2> QED BY <1>2, <2>1, <2>2, <2>3, Zenon DEF I2cTypes
  <1>4. /\ bus.en = FALSE /\ bus.active = FALSE /\ bus.sel = FALSE /\ drv.ops = <<>> /\ drv.wait = FALSE
        /\ drv.probed = FALSE /\ drv.serving = FALSE /\ drv.front = 0 /\ upd.at = "idle" /\ i2c_todo = <<>>
    BY Zenon
  <1>5. Len(<<>>) = 0 /\ 1 .. Len(<<>>) = {} /\ "idle" # "push" /\ 0 + 0 <= QUEUE
    BY EmptySeq, I2cAssumption
  <1>6. Driver
    BY <1>4, <1>5, Zenon DEF Driver
  <1>7. Register
    BY <1>4, Zenon DEF Register
  <1>8. Signal
    BY <1>2, <1>4, TodoDiffer, Zenon DEF Signal
  <1>9. Queue
    <2>1. Ahead = 0
      BY <1>4, <1>5, Zenon DEF Ahead
    <2> QED BY <1>2, <1>4, <1>5, <2>1, Zenon DEF Queue
  <1>10. Reading
    BY <1>4, Zenon DEF Reading
  <1> QED BY <1>3, <1>6, <1>7, <1>8, <1>9, <1>10, Zenon DEF I2cInv

\* Every step of the controller, the keyboard, the window's thread and the guest keeps the invariant.
LEMMA I2cStep ==
  ASSUME I2cInv, [I2cNext]_i2cVars
  PROVE  I2cInv'
  <1>1. CASE tick
    BY <1>1, TickStep, Zenon
  <1>2. CASE pop
    BY <1>2, PopStep, Zenon
  <1>3. CASE refill
    BY <1>3, RefillStep, Zenon
  <1>4. CASE clear
    BY <1>4, ClearStep, Zenon
  <1>5. CASE reset_command
    BY <1>5, ResetStep, Zenon
  <1>6. CASE resignal
    BY <1>6, ResignalStep, Zenon
  <1>7. CASE \E en \in BOOLEAN : write_CTR(en)
    BY <1>7, WriteCTRStep, Zenon
  <1>8. CASE update
    <2>1. CASE /\ upd.at = "idle" /\ Len(hid.queue) < QUEUE
               /\ upd' = [at |-> "push", report |-> (upd.report % Reports) + 1]
               /\ UNCHANGED <<bus, hid, i2c_todo, i2c_pending, drv>>
      BY <2>1, UpdateTakes, Zenon
    <2>2. CASE Upd("push", "size") /\ hid' = [hid EXCEPT !.queue = Append(@, upd.report)] /\ UNCHANGED i2c_pending
      BY <2>2, UpdatePushes, Zenon
    <2>3. CASE /\ Upd("size", IF Len(hid.queue) = 1 THEN "copy" ELSE "signal")
               /\ UNCHANGED <<hid, i2c_pending>>
      BY <2>3, UpdateSizes, Zenon
    <2>4. CASE /\ Upd("copy", "signal") /\ UNCHANGED i2c_pending
               /\ \E r \in IF hid.queue = <<>> THEN 0 .. Reports ELSE {Head(hid.queue)} :
                    hid' = [hid EXCEPT !.report = r]
      BY <2>4, UpdateCopies, Zenon
    <2>5. CASE /\ Upd("signal", "idle") /\ UNCHANGED hid
               /\ i2c_pending' = [i2c_pending EXCEPT !.hid = @ \/ ~hid.transmitting]
      BY <2>5, UpdateSignals, Zenon
    <2> QED BY <1>8, <2>1, <2>2, <2>3, <2>4, <2>5, Zenon DEF update
  <1>9. CASE \E ops \in Programs : Transfer(ops)
    BY <1>9, TransferStep, Zenon
  <1>10. CASE ReadReport
    BY <1>10, ReadReportStep, Zenon
  <1>11. CASE OnInterrupt
    BY <1>11, ContinueStep, EndStep, Zenon
  <1>12. CASE UNCHANGED i2cVars
    <2>1. /\ bus' = bus /\ hid' = hid /\ i2c_todo' = i2c_todo /\ upd' = upd /\ i2c_pending' = i2c_pending
          /\ drv' = drv
      BY <1>12, Zenon DEF i2cVars
    <2>2. Starting' = Starting /\ Read' = Read /\ Ahead' = Ahead
      BY <2>1, Zenon DEF Starting, Read, Ahead
    <2>3. I2cTypes'
      BY <2>1, Zenon DEF I2cInv, I2cTypes
    <2>4. Driver'
      BY <2>1, DriverFrame, Zenon DEF I2cInv
    <2>5. Register'
      BY <2>1, RegisterFrame, Zenon DEF I2cInv
    <2>6. Signal'
      BY <2>1, <2>2, Zenon DEF I2cInv, Signal
    <2>7. Queue' /\ (Gone => Gone') /\ (Front => Front')
      BY <2>1, <2>2, Zenon DEF I2cInv, Queue, Gone, Front
    <2>8. Reading'
      BY <2>1, <2>7, ReadingFrame, Zenon DEF I2cInv
    <2> QED BY <2>3, <2>4, <2>5, <2>6, <2>7, <2>8, Zenon DEF I2cInv
  <1> QED BY <1>1, <1>2, <1>3, <1>4, <1>5, <1>6, <1>7, <1>8, <1>9, <1>10, <1>11, <1>12, Zenon DEF I2cNext

\* The invariant always holds.
LEMMA I2cInvariant == I2cSpec => []I2cInv
  BY I2cInitial, I2cStep, PTL DEF I2cSpec

\* A command the driver waits for is under way or has raised its interrupt, so that
\* the acknowledge riding on a command never swallows the edge of another.
THEOREM I2cCompletionSignalled == I2cSpec => []CompletionSignalled
  <1>1. I2cInv => CompletionSignalled
    BY Zenon DEF I2cInv, Driver, CompletionSignalled
  <1> QED BY <1>1, I2cInvariant, PTL

\* A report that waits while no transfer is on has its line up, whatever update()
\* and the end of a read or of a reset do to the queue together.
THEOREM I2cNoReportStranded == I2cSpec => []NoReportStranded
  <1>1. I2cInv => NoReportStranded
    BY TodoDiffer, Zenon DEF I2cInv, Signal, NoReportStranded
  <1> QED BY <1>1, I2cInvariant, PTL

\* A read that starts on a queued report returns that report in every byte and
\* takes it off the queue, with update() at work all the while.
THEOREM I2cReadsExact == I2cSpec => []ReadsExact
  <1>1. ASSUME I2cInv
        PROVE  ReadsExact
    <2>1. SUFFICES ASSUME drv.front # 0, i2c_todo = <<>>
                   PROVE  /\ \A i \in DOMAIN drv.bytes : drv.bytes[i] = drv.front
                          /\ Len(drv.bytes) = SIZE => \A i \in DOMAIN hid.queue : hid.queue[i] # drv.front
      BY Zenon DEF ReadsExact
    <2>2. I2cTypes /\ Queue /\ Reading
      BY <1>1, Zenon DEF I2cInv
    <2>3. drv.bytes \in Seq(Nat) /\ hid.queue \in Seq(1 .. Reports)
      BY <2>2, Zenon DEF I2cTypes, Hid
    <2>4. DOMAIN drv.bytes = 1 .. Len(drv.bytes) /\ DOMAIN hid.queue = 1 .. Len(hid.queue)
      BY <2>3, LenProperties, Zenon
    <2>5. drv.front \in 1 .. Reports /\ \A i \in 1 .. Len(drv.bytes) : drv.bytes[i] = drv.front
      BY <2>1, <2>2, Zenon DEF Reading
    <2>6. ASSUME Len(drv.bytes) = SIZE, NEW i \in 1 .. Len(hid.queue)
          PROVE  hid.queue[i] # drv.front
      <3>1. PICK n : n = IF "RD" \in bus.cr THEN 1 ELSE 0
        BY Zenon
      <3>2. n \in {0, 1} /\ Read = SIZE + n
        BY <2>6, <3>1, Zenon DEF Read
      <3>3. SIZE # 0 /\ ~(SIZE < SIZE) /\ ~(SIZE + n < SIZE) /\ SIZE # SIZE - 1 /\ Len(<<>>) = 0
        BY <3>2, I2cAssumption, EmptySeq
      <3>4. Gone
        BY <2>1, <2>2, <2>6, <3>2, <3>3, ZenonT(60) DEF Reading
      <3>5. PICK L, a, x, d, e : /\ L = Len(hid.queue) /\ a = Ahead /\ x = hid.queue[i]
                                 /\ d = L - i + a /\ e = L + a
        BY Zenon
      <3>6. /\ L \in Nat /\ a \in {0, 1} /\ L + a <= QUEUE /\ QUEUE < Reports /\ QUEUE \in Nat /\ Reports \in Nat
            /\ x \in 1 .. Reports
        BY <2>2, <3>5, QueueShape, Zenon
      <3>7. d \in Nat /\ e \in Nat /\ d < e /\ e < Reports
        BY <3>5, <3>6
      <3>8. Nth(x, d) = Nth(drv.front, e)
        BY <2>2, <3>4, <3>5, Zenon DEF Queue, Gone
      <3> QED BY <2>5, <3>5, <3>6, <3>7, <3>8, NthDiffers, Zenon
    <2> QED BY <2>4, <2>5, <2>6, Zenon
  <1> QED BY <1>1, I2cInvariant, PTL
=============================================================================
