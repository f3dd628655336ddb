-------------------------------- MODULE Clint --------------------------------
(***************************************************************************)
(* The timer and software interrupts of one hart (src/devices/clint.cpp).  *)
(* update_mip runs on the CLINT's own thread every 100 us and on the work  *)
(* thread after each register write, and nothing orders the two.  Setting  *)
(* a bit of ip is a load and a store of the whole register; the work       *)
(* thread stores to ip as well, for the PLIC and for CSR writes.           *)
(***************************************************************************)
EXTENDS Integers, Sequences

CONSTANTS MaxTime,     \* the time stands still here
          Never        \* UINT64_MAX, which no time reaches

VARIABLES time,        \* what timer_get(&mtime) answers
          msip, mtimecmp, stimecmp,
          mip,         \* the three bits of hart.ip this device drives
          pass,        \* thread -> its call of update_mip or of signal_cpu_interrupt
          settled      \* a pass has ended that saw what is there now
clintVars == <<time, msip, mtimecmp, stimecmp, mip, pass, settled>>

Updaters == {"clint", "work"}
Times == 0 .. MaxTime
TimerBits == <<"MSIP", "MTIP", "STIP">>
Away == [at |-> "away", now |-> 0, bit |-> 0, level |-> FALSE, old |-> {}, alone |-> FALSE]

ClintInit ==
  /\ time = 0 /\ msip = FALSE /\ mtimecmp = Never /\ stimecmp = Never
  /\ mip \in SUBSET {"MSIP", "MTIP", "STIP"}     \* of the hart that was here before
  /\ pass = [t \in Updaters |-> Away] /\ settled = FALSE

\* What update_mip gives to a bit.
Level(b, now) ==
  CASE b = "MSIP" -> msip
    [] b = "MTIP" -> now >= mtimecmp
    [] b = "STIP" -> now >= stimecmp /\ stimecmp # Never

\* Mutant: a bit is set and never cleared.
Put_sticky(b, up, s) == IF up THEN s \cup {b} ELSE s
Put(b, up, s) == IF up THEN s \cup {b} ELSE s \ {b}

\* History: what the passes under way have seen is out of date.
Outdated(ps) == [t \in Updaters |-> [ps[t] EXCEPT !.alone = FALSE]]

Begun == [Away EXCEPT !.at = "test", !.now = time, !.bit = 1, !.alone = TRUE]

\* The thread wakes up and calls update_mip, which reads the time first.
thread_func ==
  /\ pass["clint"] = Away
  /\ pass' = [pass EXCEPT !["clint"] = Begun]
  /\ UNCHANGED <<time, msip, mtimecmp, stimecmp, mip, settled>>

\* update_mip: a comparison, the load of ip, the store of ip, for each bit.
test(t) ==
  /\ pass[t].at = "test"
  /\ pass' = [pass EXCEPT ![t].at = "load", ![t].level = Level(TimerBits[pass[t].bit], pass[t].now)]
  /\ UNCHANGED <<time, msip, mtimecmp, stimecmp, mip, settled>>

load_ip(t) ==
  /\ pass[t].at \in {"load", "signal"}
  /\ pass' = [pass EXCEPT ![t].at = IF @ = "load" THEN "store" ELSE "signalled", ![t].old = mip]
  /\ UNCHANGED <<time, msip, mtimecmp, stimecmp, mip, settled>>

\* A store is news to the other thread, which may hold an older ip.
store_ip(t) ==
  LET p == pass[t]
      last == p.bit = Len(TimerBits)
      others == [Outdated(pass) EXCEPT ![t] = p]
  IN /\ p.at = "store"
     /\ mip' = Put(TimerBits[p.bit], p.level, p.old)
     /\ pass' = [others EXCEPT ![t] = IF last THEN Away
                                      ELSE [Begun EXCEPT !.now = p.now, !.bit = p.bit + 1, !.alone = p.alone]]
     /\ settled' = (last /\ p.alone)
     /\ UNCHANGED <<time, msip, mtimecmp, stimecmp>>

\* The registers, on the work thread: a store and a call of update_mip.
Idle == pass["work"] = Away
Call(p) == pass' = [Outdated(pass) EXCEPT !["work"] = p] /\ settled' = FALSE
write_mswi(v) ==
  Idle /\ msip' = v /\ Call(Begun) /\ UNCHANGED <<time, mtimecmp, stimecmp, mip>>
write_mtimer(v) ==
  Idle /\ mtimecmp' = v /\ Call(Begun) /\ UNCHANGED <<time, msip, stimecmp, mip>>
write_mtime(v) ==
  Idle /\ time' = v /\ Call([Begun EXCEPT !.now = v]) /\ UNCHANGED <<msip, mtimecmp, stimecmp, mip>>

\* The work thread's other stores: stimecmp, mip, and the PLIC's line.
write_STIMECMP(v) ==
  Idle /\ stimecmp' = v /\ Call(Away) /\ UNCHANGED <<time, msip, mtimecmp, mip>>
write_MIP(s) ==
  Idle /\ mip' = s /\ Call(Away) /\ UNCHANGED <<time, msip, mtimecmp, stimecmp>>
signal_cpu_interrupt ==
  /\ Idle
  /\ pass' = [pass EXCEPT !["work"] = [Away EXCEPT !.at = "signal"]]
  /\ UNCHANGED <<time, msip, mtimecmp, stimecmp, mip, settled>>

\* The PLIC's store of MEIP or SEIP brings back the other bits it loaded: what
\* was stored since is undone.
store_signal ==
  LET p == pass["work"]
  IN /\ p.at = "signalled"
     /\ mip' = p.old
     /\ pass' = [Outdated(pass) EXCEPT !["work"] = Away]
     /\ settled' = (settled /\ p.old = mip)
     /\ UNCHANGED <<time, msip, mtimecmp, stimecmp>>

\* The host's clock.
Clock ==
  /\ time < MaxTime
  /\ time' = time + 1
  /\ pass' = Outdated(pass) /\ settled' = FALSE
  /\ UNCHANGED <<msip, mtimecmp, stimecmp, mip>>

ClintNext ==
  \/ thread_func \/ Clock \/ signal_cpu_interrupt \/ store_signal
  \/ \E t \in Updaters : test(t) \/ load_ip(t) \/ store_ip(t)
  \/ \E b \in BOOLEAN : write_mswi(b)
  \/ \E v \in (1 .. MaxTime) \cup {Never} : write_mtimer(v) \/ write_STIMECMP(v)
  \/ \E v \in Times : write_mtime(v)
  \/ \E s \in {{}, {"MSIP", "MTIP", "STIP"}} : write_MIP(s)

ClintSpec == ClintInit /\ [][ClintNext]_clintVars

------------------------------------------------------------------------------
(* Properties. *)

\* What an update lost to a race is repaired within a period: once a pass of
\* either thread has run over the registers and the time as they are, with no
\* store to ip beside its own, MSIP, MTIP and STIP are what they call for, and
\* a signal of the PLIC leaves them so unless it had loaded an older ip.
TimerBitsExact ==
  settled => \A i \in DOMAIN TimerBits : (TimerBits[i] \in mip) = Level(TimerBits[i], time)
==============================================================================
