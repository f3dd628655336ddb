------------------------------- MODULE Virtio -------------------------------
(***************************************************************************)
(* The VirtIO devices on MMIO: the block device (devices/virtio/           *)
(* virtio_blk.cpp) and the random number generator (virtio_rng.cpp), which *)
(* share registers and queue, with a driver that follows the protocol:     *)
(* it configures the device, puts requests on the available ring, notifies *)
(* and, in its interrupt handler, acknowledges and takes what is used.     *)
(*                                                                         *)
(* The unit of length is half a sector.  A request in guest memory is its  *)
(* header and the descriptors behind it, unrolled: a chain that loops is   *)
(* one longer than the queue.  Indices count modulo IdxMod, for 2^16.      *)
(***************************************************************************)
EXTENDS Integers, SequencesExt

CONSTANTS
  None,         \* no head, no request
  QueueNum,     \* the size the driver gives the queue
  IdxMod,
  Heads,        \* the descriptors the driver begins chains with
  Requests,     \* head -> the requests the driver puts there: [type, sector, header, chain],
                \* chain a sequence of [write, units]
  DiskUnits     \* the units of the image that requests reach

ASSUME VirtioAssumption ==
  /\ QueueNum \in Nat \ {0} /\ IdxMod \in Nat /\ IdxMod > QueueNum /\ IdxMod % QueueNum = 0
  /\ DiskUnits \in Nat
  /\ \A h \in Heads : \A r \in Requests[h] :    \* writes stay inside the image: fwrite past its end would extend it
       r.type = "out" => \A i \in DOMAIN r.chain : 2 * r.sector + Len(r.chain[i].units) <= DiskUnits

Slots == 0 .. QueueNum - 1
device_features == {"VERSION_1"}

VARIABLES
  kind,             \* "blk" or "rng", and "nodisk" for a block device without image
  disk,             \* the image: unit -> content
  \* registers
  queue_sel, driver_features, driver_features_sel, device_status, interrupt_status,
  queue0,           \* size, ready, last_avail_idx, last_used_idx; addr: the ring addresses are set
  pending,          \* the source's bit in the PLIC
  \* guest memory
  mem,              \* head -> the request there
  avail, avail_idx, used, used_idx,
  \* the driver
  seen,             \* how far it has taken the used ring
  place,            \* where its interrupt handler is
  dropped           \* history: a complete cleared the bit, and no claim came since

regs   == <<queue_sel, driver_features, driver_features_sel, device_status>>
rings  == <<mem, avail, avail_idx, used, used_idx, seen>>
irq    == <<interrupt_status, pending, place, dropped>>
vars   == <<kind, disk, regs, queue0, rings, irq>>

Queue0 == [size |-> 0, ready |-> FALSE, addr |-> FALSE, last_avail_idx |-> 0, last_used_idx |-> 0]

Init ==
  /\ kind \in {"blk", "rng", "nodisk"}
  /\ disk = [u \in 0 .. DiskUnits - 1 |-> "zero"]
  /\ queue_sel = 0 /\ driver_features = {} /\ driver_features_sel = 0
  /\ device_status = {} /\ interrupt_status = FALSE
  /\ queue0 = Queue0
  /\ mem = [h \in Heads |-> None]
  /\ avail = [s \in Slots |-> None] /\ avail_idx = 0
  /\ used = [s \in Slots |-> None] /\ used_idx = 0
  /\ seen = 0
  /\ pending = FALSE /\ place = "idle" /\ dropped = FALSE
-----------------------------------------------------------------------------
(***************************************************************************)
(* One request.                                                            *)
(***************************************************************************)
\* copy_from_dram of the descriptors one after the other.
Contents(chain) == FlattenSeq([i \in DOMAIN chain |-> chain[i].units])

\* Past the end of the image there are zeros.
disk_read(d, sector, n) ==
  [k \in 1 .. n |-> IF 2 * sector + k - 1 \in DOMAIN d THEN d[2 * sector + k - 1] ELSE "zero"]

disk_write(d, sector, buf) ==
  [u \in DOMAIN d |-> IF u - 2 * sector \in 0 .. Len(buf) - 1 THEN buf[u - 2 * sector + 1] ELSE d[u]]

\* Mutant of Scatter: the position in the buffer is not advanced.
Scatter_unmoved(chain, buf) ==
  [i \in DOMAIN chain |-> [chain[i] EXCEPT !.units = SubSeq(buf, 1, Len(chain[i].units))]]

\* copy_to_dram of buf into the descriptors one after the other.
Scatter(chain, buf) ==
  [i \in DOMAIN chain |->
     LET pos == Len(Contents(SubSeq(chain, 1, i - 1)))
     IN  [chain[i] EXCEPT !.units = SubSeq(buf, pos + 1, pos + Len(chain[i].units))]]

\* The last descriptor the device may write, 0 if there is none.
status_desc_i(chain) == SelectLastInSeq(chain, LAMBDA d : d.write)

\* The data descriptors a read fills: up to the first one it may not write, which fails
\* the request and is filled all the same.
Filled(data) ==
  LET i == SelectInSeq(data, LAMBDA d : ~d.write) IN IF i = 0 THEN Len(data) ELSE i

\* A block request on image d: whether it succeeds, the image and the chain afterwards.
blk_request(r, d) ==
  LET s     == status_desc_i(r.chain)
      data  == SubSeq(r.chain, 1, s - 1)
      total == Len(Contents(data))
      n     == Filled(data)
      ok    == /\ kind = "blk"
               /\ \/ r.type = "in" /\ \A i \in DOMAIN data : data[i].write
                  \/ r.type = "out" /\ total % 2 = 0
      moved == IF r.type = "in" /\ kind = "blk"
               THEN Scatter(SubSeq(data, 1, n), disk_read(d, r.sector, total)) \o SubSeq(data, n + 1, s - 1)
               ELSE data
  IN  IF s = 0
      THEN [disk |-> d, chain |-> r.chain]
      ELSE [disk  |-> IF r.type = "out" /\ kind = "blk" THEN disk_write(d, r.sector, Contents(data)) ELSE d,
            chain |-> moved \o <<[r.chain[s] EXCEPT !.units[1] = IF ok THEN "OK" ELSE "IOERR"]>>
                            \o SubSeq(r.chain, s + 1, Len(r.chain))]

\* The generator fills everything it may write.
rng_request(r, d) ==
  [disk  |-> d,
   chain |-> [i \in DOMAIN r.chain |->
                IF r.chain[i].write
                THEN [r.chain[i] EXCEPT !.units = [k \in DOMAIN @ |-> "random"]] ELSE r.chain[i]]]
-----------------------------------------------------------------------------
(***************************************************************************)
(* The queue.                                                              *)
(***************************************************************************)
\* fetch_descriptor_chain and the checks behind it: what is dropped without an answer.
malformed(r) ==
  \/ ~queue0.addr
  \/ 1 + Len(r.chain) > queue0.size
  \/ kind # "rng" /\ (r.chain = <<>> \/ ~r.header)

\* One turn of the loop of process_queue over what it changes, q.
serve(q, head) ==
  LET r == q.mem[head]
      o == IF kind = "rng" THEN rng_request(r, q.disk) ELSE blk_request(r, q.disk)
  IN  IF malformed(r) THEN q
      ELSE [mem   |-> [q.mem EXCEPT ![head].chain = o.chain],
            disk  |-> o.disk,
            used  |-> [q.used EXCEPT ![q.idx % queue0.size] = head],
            idx   |-> (q.idx + 1) % IdxMod,
            raise |-> TRUE]

\* The heads from index i up to index j of the available ring.
Between(i, j) == [k \in 1 .. (j + IdxMod - i) % IdxMod |-> avail[((i + k - 1) % IdxMod) % queue0.size]]

\* Mutant of process_queue: only the first completion of the queue raises the source.
process_queue_first(qsel) ==
  LET q == FoldLeft(serve, [mem |-> mem, disk |-> disk, used |-> used, idx |-> queue0.last_used_idx,
                            raise |-> FALSE],
                    Between(queue0.last_avail_idx, avail_idx))
  IN  /\ qsel = 0 /\ queue0.ready /\ queue0.size # 0
      /\ mem' = q.mem /\ disk' = q.disk /\ used' = q.used
      /\ used_idx' = IF q.raise THEN q.idx ELSE used_idx
      /\ queue0' = [queue0 EXCEPT !.last_avail_idx = avail_idx, !.last_used_idx = q.idx]
      /\ interrupt_status' = (interrupt_status \/ q.raise)
      /\ pending' = (pending \/ (q.raise /\ used_idx = 0))
      /\ UNCHANGED <<kind, regs, avail, avail_idx, seen, place, dropped>>

\* A write of QUEUENOTIFY.
process_queue(qsel) ==
  LET q == FoldLeft(serve, [mem |-> mem, disk |-> disk, used |-> used, idx |-> queue0.last_used_idx,
                            raise |-> FALSE],
                    Between(queue0.last_avail_idx, avail_idx))
  IN  /\ qsel = 0 /\ queue0.ready /\ queue0.size # 0
      /\ mem' = q.mem /\ disk' = q.disk /\ used' = q.used
      /\ used_idx' = IF q.raise THEN q.idx ELSE used_idx
      /\ queue0' = [queue0 EXCEPT !.last_avail_idx = avail_idx, !.last_used_idx = q.idx]
      /\ interrupt_status' = (interrupt_status \/ q.raise)
      /\ pending' = (pending \/ q.raise)
      /\ UNCHANGED <<kind, regs, avail, avail_idx, seen, place, dropped>>
-----------------------------------------------------------------------------
(***************************************************************************)
(* The other registers.                                                    *)
(***************************************************************************)
write_QUEUESEL(v) ==
  /\ queue_sel' = v
  /\ UNCHANGED <<kind, disk, driver_features, driver_features_sel, device_status, queue0, rings, irq>>

\* QUEUENUM, QUEUEREADY and the six address registers: only queue 0 exists.
write_queue(field, v) ==
  /\ queue0' = IF queue_sel = 0 THEN [queue0 EXCEPT ![field] = v] ELSE queue0
  /\ UNCHANGED <<kind, disk, regs, rings, irq>>

write_DRIVERFEATURESSEL(v) ==
  /\ driver_features_sel' = v
  /\ UNCHANGED <<kind, disk, queue_sel, driver_features, device_status, queue0, rings, irq>>

Half(n) == IF n = 0 THEN {"LOW"} ELSE {"VERSION_1"}

\* The 64-bit set is written one half at a time, and outlives a reset.
write_DRIVERFEATURES(half) ==
  /\ driver_features' = (driver_features \ Half(driver_features_sel)) \cup half
  /\ UNCHANGED <<kind, disk, queue_sel, driver_features_sel, device_status, queue0, rings, irq>>

\* Mutant of write_STATUS: the sets are compared the wrong way round.
write_STATUS_swapped(bits) ==
  /\ device_status' = (device_status \cup bits)
                        \ (IF device_features \subseteq driver_features THEN {} ELSE {"FEATURES_OK"})
  /\ UNCHANGED <<kind, disk, queue_sel, driver_features, driver_features_sel, queue0, rings, irq>>

\* A write of STATUS other than zero.
write_STATUS(bits) ==
  /\ device_status' = (device_status \cup bits)
                        \ (IF driver_features \subseteq device_features THEN {} ELSE {"FEATURES_OK"})
  /\ UNCHANGED <<kind, disk, queue_sel, driver_features, driver_features_sel, queue0, rings, irq>>

\* A write of zero to STATUS.  The PLIC's bit stays.
reset ==
  /\ device_status' = {} /\ interrupt_status' = FALSE /\ queue0' = Queue0
  /\ UNCHANGED <<kind, disk, queue_sel, driver_features, driver_features_sel, pending>>

\* A write of INTERRUPTACK with bit 0.
write_INTERRUPTACK ==
  /\ interrupt_status' = FALSE
  /\ UNCHANGED <<kind, disk, regs, queue0, rings, pending, dropped>>
-----------------------------------------------------------------------------
(***************************************************************************)
(* The driver.  It configures a queue that is not ready, checks what it    *)
(* wrote by reading it back, and then submits and notifies at any moment,  *)
(* inside its interrupt handler too.                                       *)
(***************************************************************************)
Configure ==
  /\ ~queue0.ready
  /\ \/ \E v \in {0, 1} : write_QUEUESEL(v)
     \/ write_queue("size", QueueNum)
     \/ write_queue("addr", TRUE)
     \/ \E v \in {0, 1} : write_DRIVERFEATURESSEL(v)
     \/ /\ "FEATURES_OK" \notin device_status
        /\ \E half \in SUBSET Half(driver_features_sel) : write_DRIVERFEATURES(half)
     \/ \E bits \in {{"DRIVER"}, {"DRIVER", "FEATURES_OK"}} : write_STATUS(bits)

Enable ==
  /\ queue0.size = QueueNum /\ queue0.addr /\ ~queue0.ready
  /\ device_status = {"DRIVER", "FEATURES_OK"}
  /\ queue_sel = 0 /\ driver_features = device_features /\ driver_features_sel = 0
  /\ write_queue("ready", TRUE)

\* The slots of the available ring the device has yet to read; the others are cleared.
Unread == {((queue0.last_avail_idx + k) % IdxMod) % QueueNum :
             k \in 0 .. ((avail_idx + IdxMod - queue0.last_avail_idx) % IdxMod) - 1}

Submit(head, r) ==
  /\ queue0.ready /\ mem[head] = None
  /\ mem' = [mem EXCEPT ![head] = r]
  /\ avail' = [s \in Slots |-> IF s = avail_idx % QueueNum THEN head
                               ELSE IF s \in Unread THEN avail[s] ELSE None]
  /\ avail_idx' = (avail_idx + 1) % IdxMod
  /\ UNCHANGED <<kind, disk, regs, queue0, used, used_idx, seen, irq>>

\* The driver resets the device and starts over with fresh rings.
Restart ==
  /\ reset
  /\ mem' = [h \in Heads |-> None]
  /\ avail' = [s \in Slots |-> None] /\ avail_idx' = 0
  /\ used' = [s \in Slots |-> None] /\ used_idx' = 0
  /\ seen' = 0
  /\ UNCHANGED <<place, dropped>>

Claim ==
  /\ place = "idle" /\ pending
  /\ place' = "claimed" /\ pending' = FALSE /\ dropped' = FALSE
  /\ UNCHANGED <<kind, disk, regs, queue0, rings, interrupt_status>>

\* The handler reads INTERRUPTSTATUS: it is this device's interrupt, or nothing to do.
Acknowledge == place = "claimed" /\ interrupt_status /\ place' = "taking" /\ write_INTERRUPTACK

Ignore ==
  /\ place = "claimed" /\ ~interrupt_status /\ place' = "over"
  /\ UNCHANGED <<kind, disk, regs, queue0, rings, interrupt_status, pending, dropped>>

\* A slot that was taken is not read again; it is cleared to keep the states few.
TakeUsed ==
  /\ place = "taking" /\ seen # used_idx
  /\ seen' = (seen + 1) % IdxMod
  /\ mem' = [mem EXCEPT ![used[seen % QueueNum]] = None]
  /\ used' = [used EXCEPT ![seen % QueueNum] = None]
  /\ UNCHANGED <<kind, disk, regs, queue0, avail, avail_idx, used_idx, irq>>

Leave ==
  /\ place = "taking" /\ seen = used_idx /\ place' = "over"
  /\ UNCHANGED <<kind, disk, regs, queue0, rings, interrupt_status, pending, dropped>>

\* PLIC::complete_interrupt clears the bit, also one raised since the claim.
Complete ==
  /\ place = "over"
  /\ place' = "idle" /\ pending' = FALSE /\ dropped' = (dropped \/ pending)
  /\ UNCHANGED <<kind, disk, regs, queue0, rings, interrupt_status>>

Next ==
  \/ Configure \/ Enable \/ Restart
  \/ \E h \in Heads : \E r \in Requests[h] : Submit(h, r)
  \/ \E q \in {0, 1} : process_queue(q)
  \/ Claim \/ Acknowledge \/ Ignore \/ TakeUsed \/ Leave \/ Complete

Spec == Init /\ [][Next]_vars
-----------------------------------------------------------------------------
\* A completion the driver has not taken is one its handler is about to take, or one its
\* handler will be called for (raise_irq, virtio_blk.cpp:322-324) - unless a completion that
\* came in during the handler was forgotten by PLIC::complete_interrupt.
CompletionsSignalled ==
  seen # used_idx => \/ place = "taking"
                     \/ interrupt_status /\ (pending \/ place = "claimed" \/ dropped)

\* Once the device has accepted the features (write of STATUS, virtio_blk.cpp:472-483), the
\* ones agreed on are ones it has, whatever was written in either half before a reset.
FeaturesAgreed == "FEATURES_OK" \in device_status => driver_features \subseteq device_features
=============================================================================
