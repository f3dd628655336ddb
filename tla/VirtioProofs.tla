---------------------------- MODULE VirtioProofs ----------------------------
(***************************************************************************)
(* The negotiation and the interrupts of the VirtIO devices, for queues of *)
(* any size, any set of requests and images of any size.                   *)
(***************************************************************************)
EXTENDS Virtio, TLAPS

\* The accepted features stay the ones that were compared: while FEATURES_OK is up the
\* driver writes no features, and a reset takes it down (virtio_blk.cpp:438-483).
THEOREM VirtioFeaturesAgreed == Spec => []FeaturesAgreed
<1>1. Init => FeaturesAgreed
  BY DEF Init, FeaturesAgreed
<1>2. FeaturesAgreed /\ [Next]_vars => FeaturesAgreed'
  <2> SUFFICES ASSUME FeaturesAgreed, [Next]_vars PROVE FeaturesAgreed'
    OBVIOUS
  <2>1. ASSUME UNCHANGED <<device_status, driver_features>> PROVE FeaturesAgreed'
    BY <2>1 DEF FeaturesAgreed
  <2>2. CASE Configure
    <3>1. CASE \E v \in {0, 1} : write_QUEUESEL(v)
      BY <2>1, <3>1 DEF write_QUEUESEL
    <3>2. CASE write_queue("size", QueueNum) \/ write_queue("addr", TRUE)
      BY <2>1, <3>2 DEF write_queue, regs
    <3>3. CASE \E v \in {0, 1} : write_DRIVERFEATURESSEL(v)
      BY <2>1, <3>3 DEF write_DRIVERFEATURESSEL
    <3>4. CASE /\ "FEATURES_OK" \notin device_status
               /\ \E half \in SUBSET Half(driver_features_sel) : write_DRIVERFEATURES(half)
      BY <3>4 DEF write_DRIVERFEATURES, FeaturesAgreed
    <3>5. CASE \E bits \in {{"DRIVER"}, {"DRIVER", "FEATURES_OK"}} : write_STATUS(bits)
      BY <3>5 DEF write_STATUS, FeaturesAgreed
    <3> QED BY <2>2, <3>1, <3>2, <3>3, <3>4, <3>5 DEF Configure
  <2>3. CASE Enable
    BY <2>1, <2>3 DEF Enable, write_queue, regs
  <2>4. CASE Restart
    BY <2>4 DEF Restart, reset, FeaturesAgreed
  <2>5. CASE \E h \in Heads : \E r \in Requests[h] : Submit(h, r)
    BY <2>1, <2>5 DEF Submit, regs
  <2>6. CASE \E q \in {0, 1} : process_queue(q)
    BY <2>1, <2>6 DEF process_queue, regs
  <2>7. CASE Claim \/ Acknowledge \/ Ignore \/ TakeUsed \/ Leave \/ Complete
    BY <2>1, <2>7 DEF Claim, Acknowledge, write_INTERRUPTACK, Ignore, TakeUsed, Leave, Complete, regs
  <2>8. CASE UNCHANGED vars
    BY <2>1, <2>8 DEF vars, regs
  <2> QED BY <2>2, <2>3, <2>4, <2>5, <2>6, <2>7, <2>8 DEF Next
<1> QED BY <1>1, <1>2, PTL DEF Spec

\* CompletionsSignalled needs to know of the three flags only that they are Boolean.
SignalInv ==
  /\ interrupt_status \in BOOLEAN /\ pending \in BOOLEAN /\ dropped \in BOOLEAN
  /\ CompletionsSignalled

\* A turn of process_queue that completes anything raises both flags, whatever the
\* requests are; one that completes nothing leaves the used index alone.
LEMMA ProcessSignals ==
  ASSUME SignalInv, NEW qsel, process_queue(qsel)
  PROVE  SignalInv'
<1> DEFINE q == FoldLeft(serve, [mem |-> mem, disk |-> disk, used |-> used, idx |-> queue0.last_used_idx,
                                 raise |-> FALSE],
                         Between(queue0.last_avail_idx, avail_idx))
<1>1. /\ used_idx' = IF q.raise THEN q.idx ELSE used_idx
      /\ interrupt_status' = (interrupt_status \/ q.raise)
      /\ pending' = (pending \/ q.raise)
      /\ UNCHANGED <<seen, place, dropped>>
  BY Zenon DEF process_queue
<1> HIDE DEF q
<1>2. CASE q.raise
  <2>1. interrupt_status' = TRUE /\ pending' = TRUE
    BY <1>1, <1>2, Zenon
  <2> QED BY <1>1, <2>1 DEF SignalInv, CompletionsSignalled
<1>3. CASE ~q.raise
  <2>1. interrupt_status' = interrupt_status /\ pending' = pending /\ used_idx' = used_idx
    BY <1>1, <1>3, Zenon DEF SignalInv
  <2> QED BY <1>1, <2>1 DEF SignalInv, CompletionsSignalled
<1> QED BY <1>2, <1>3

\* A completion is never left behind: until the driver takes it, its handler is in it or
\* will be called for it, unless PLIC::complete_interrupt dropped the call
\* (virtio_blk.cpp:322-324, plic.cpp), for every queue and every batch of requests.
THEOREM VirtioCompletionsSignalled == Spec => []CompletionsSignalled
<1>1. Init => SignalInv
  BY DEF Init, SignalInv, CompletionsSignalled
<1>2. SignalInv /\ [Next]_vars => SignalInv'
  <2> SUFFICES ASSUME SignalInv, [Next]_vars PROVE SignalInv'
    OBVIOUS
  <2>1. ASSUME UNCHANGED <<irq, used_idx, seen>> PROVE SignalInv'
    BY <2>1 DEF irq, SignalInv, CompletionsSignalled
  <2>2. CASE Configure
    BY <2>1, <2>2 DEF Configure, write_QUEUESEL, write_queue, write_DRIVERFEATURESSEL,
                      write_DRIVERFEATURES, write_STATUS, rings
  <2>3. CASE Enable
    BY <2>1, <2>3 DEF Enable, write_queue, rings
  <2>4. CASE Restart
    BY <2>4 DEF Restart, reset, SignalInv, CompletionsSignalled
  <2>5. CASE \E h \in Heads : \E r \in Requests[h] : Submit(h, r)
    BY <2>1, <2>5 DEF Submit
  <2>6. CASE \E q \in {0, 1} : process_queue(q)
    BY <2>6, ProcessSignals
  <2>7. CASE Claim \/ Complete
    BY <2>7 DEF Claim, Complete, rings, SignalInv, CompletionsSignalled
  <2>8. CASE Acknowledge \/ Ignore \/ Leave
    BY <2>8 DEF Acknowledge, write_INTERRUPTACK, Ignore, Leave, rings, SignalInv, CompletionsSignalled
  <2>9. CASE TakeUsed
    BY <2>9 DEF TakeUsed, irq, SignalInv, CompletionsSignalled
  <2>10. CASE UNCHANGED vars
    BY <2>1, <2>10 DEF vars, rings
  <2> QED BY <2>2, <2>3, <2>4, <2>5, <2>6, <2>7, <2>8, <2>9, <2>10 DEF Next
<1>3. SignalInv => CompletionsSignalled
  BY DEF SignalInv
<1> QED BY <1>1, <1>2, <1>3, PTL DEF Spec
=============================================================================
