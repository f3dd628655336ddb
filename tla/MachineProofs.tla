--------------------------- MODULE MachineProofs ----------------------------
(***************************************************************************)
(* Proofs about what the threads of a machine share: its life (Machine),   *)
(* for every number of harts, the bits of ip that the CLINT's thread and   *)
(* the work thread both write (Clint), for any span of time, and those of  *)
(* the PLIC, for every number of harts, sources and priorities.            *)
(***************************************************************************)
EXTENDS Machine, Clint, PLICRouted, WellFoundedInduction, TLAPS

------------------------------------------------------------------------------
(* The life of a machine. *)

Moving(t) == pc[t] \in {"wait_move", "stop_move"}
Starting  == pc["main"] \in {"run", "run_create", "run_flag"}

\* HandleIsPrivate with what the flag knows about the movers: while one of them is
\* between its exchange and its move the flag is down, and it is down until run()
\* is through.
HandleInv ==
  /\ pc \in [Threads -> Places]
  /\ running \in BOOLEAN
  /\ Starting => ~running
  /\ \A t \in Threads : Moving(t) => ~running /\ ~Starting
  /\ \A t, u \in Threads : Moving(t) /\ Moving(u) => t = u

\* A step that leaves the flag alone and lets no thread enter a move keeps HandleInv.
LEMMA HandleQuiet ==
  ASSUME HandleInv, pc' \in [Threads -> Places],
         running' \in BOOLEAN, running' => running,
         \A t \in Threads : Moving(t)' => Moving(t),
         Starting' => Starting
  PROVE  HandleInv'
BY DEF HandleInv, Moving, Starting

\* Every step keeps HandleInv: only the exchanges let a thread in, and they find the
\* flag up only when no other thread is in.
LEMMA HandleStep == HandleInv /\ [MachineNext]_machineVars => HandleInv'
<1> SUFFICES ASSUME HandleInv, [MachineNext]_machineVars PROVE HandleInv'
  OBVIOUS
<1> USE DEF Goto, Threads, Places, Moving, Starting, After
<1>1. ASSUME NEW t \in {"main", "term", "work"}, stop_exchange(t)
      PROVE  HandleInv'
  BY <1>1 DEF stop_exchange, HandleInv
<1>2. ASSUME NEW t \in {"main", "term", "work"}, stop(t), ~stop_exchange(t)
      PROVE  HandleInv'
  <2>1. CASE stop_store(t)
    BY <2>1, HandleQuiet DEF stop_store, HandleInv
  <2>2. CASE stop_move(t)
    BY <2>2, HandleQuiet DEF stop_move, HandleInv
  <2>3. CASE stop_join(t)
    BY <2>3, HandleQuiet DEF stop_join, HandleInv
  <2>4. CASE stop_tail(t)
    BY <2>4, HandleQuiet DEF stop_tail, HandleInv
  <2> QED BY <1>2, <2>1, <2>2, <2>3, <2>4 DEF stop
<1>3. CASE wait_exchange
  BY <1>3 DEF wait_exchange, HandleInv
<1>4. CASE run_flag
  BY <1>4 DEF run_flag, HandleInv
<1>5. CASE run_refused \/ run_store \/ run_create \/ wait_move \/ wait_join
  BY <1>5, HandleQuiet DEF run_refused, run_store, run_create, wait_move, wait_join, HandleInv
<1>6. CASE main_end_term \/ main_join_term \/ destroy_devices \/ join_clint
             \/ destroy_harts \/ destroy_members
  BY <1>6, HandleQuiet DEF main_end_term, main_join_term, destroy_devices, join_clint,
                           destroy_harts, destroy_members, HandleInv
<1>7. CASE term_combo \/ term_exit \/ clint_check \/ clint_poke
  BY <1>7, HandleQuiet DEF term_combo, term_exit, clint_check, clint_poke, HandleInv
<1>8. CASE work_loop \/ batch_end \/ guest_poweroff \/ guest_reset \/ reset_request
  BY <1>8, HandleQuiet DEF work_loop, batch_end, guest_poweroff, guest_reset, reset_request,
                           HandleInv
<1>9. CASE off_destroy \/ off_rebuild \/ reset_destroy \/ reset_rebuild \/ work_end
  <2>1. CASE off_destroy
    BY <2>1, HandleQuiet DEF off_destroy, HandleInv
  <2>2. CASE off_rebuild
    BY <2>2, HandleQuiet DEF off_rebuild, HandleInv
  <2>3. CASE reset_destroy
    BY <2>3, HandleQuiet DEF reset_destroy, HandleInv
  <2>4. CASE reset_rebuild
    BY <2>4, HandleQuiet DEF reset_rebuild, HandleInv
  <2>5. CASE work_end
    BY <2>5, HandleQuiet DEF work_end, HandleInv
  <2> QED BY <1>9, <2>1, <2>2, <2>3, <2>4, <2>5
<1>10. CASE Exit \/ UNCHANGED machineVars
  BY <1>10 DEF Exit, machineVars, HandleInv
<1> QED BY <1>1, <1>2, <1>3, <1>4, <1>5, <1>6, <1>7, <1>8, <1>9, <1>10
        DEF MachineNext, main_next, term_next, work_next, clint_next

\* The std::thread object is never touched by two threads at once, whatever the
\* guest and the user do and whenever they do it (machine.cpp:471-482, 502-513).
THEOREM HandlePrivate == MachineSpec => []HandleIsPrivate
<1>1. MachineInit => HandleInv
  <2> SUFFICES ASSUME MachineInit PROVE HandleInv
    OBVIOUS
  <2>1. pc \in [Threads -> Places]
    BY DEF MachineInit, Threads, Places
  <2>2. \A t \in Threads : ~Moving(t)
    BY DEF MachineInit, Threads, Moving
  <2>3. running = FALSE
    BY DEF MachineInit
  <2> QED BY <2>1, <2>2, <2>3 DEF HandleInv
<1>2. HandleInv => HandleIsPrivate
  BY DEF HandleInv, HandleIsPrivate, Moving, Starting
<1> QED BY <1>1, <1>2, HandleStep, PTL DEF MachineSpec
-----------------------------------------------------------------------------
(***************************************************************************)
(* The orderly life: no guest reset, and nobody stops the machine before   *)
(* main() sits in wait().                                                  *)
(***************************************************************************)
Orderly == ~EarlyStop /\ "reset" \notin GuestOps

Early == {"run", "run_create", "run_flag", "wait", "wait_move"}
Late  == {"wait_done", "join_term", "stop", "stop_exchange", "destroy_devices",
          "join_clint", "destroy_harts", "destroy_members", "ended"}

\* Before wait() has the work thread nobody else acts on it.
EarlyInv ==
  /\ pc["main"] \in Early =>
       /\ pc["term"] = "poll" /\ termios_running
       /\ pc["work"] \in {"unborn", "loop", "batch"}
       /\ pc["work"] # "unborn" => state = "Running"
  /\ pc["main"] \in {"run", "run_create"} => handle = "none" /\ ~running /\ pc["work"] = "unborn"
  /\ pc["main"] = "run_create" => state = "Running"
  /\ pc["main"] = "run_flag" => handle = "member" /\ pc["work"] # "unborn"
  /\ pc["main"] = "wait" => \/ running /\ handle = "member" /\ pc["work"] # "unborn"
                            \/ ~running /\ handle = "none" /\ pc["work"] = "unborn"
  /\ pc["main"] = "wait_move" => handle = "member" /\ ~running

\* From then on the flag is down, so that no stop() finds a thread to join, and main
\* leaves wait() only when the work thread has ended.
LateInv ==
  /\ pc["main"] \in Early \cup {"wait_join"} \cup Late
  /\ pc["main"] = "wait_join" => handle = "main" /\ ~running
  /\ pc["main"] \in Late => /\ handle = "none" /\ ~running
                            /\ pc["work"] \in {"unborn", "ended"}
  /\ pc["term"] \in {"poll", "stop", "stop_exchange", "ended"}
  /\ pc["work"] \in {"unborn", "loop", "batch", "stop", "stop_exchange", "work_end", "ended"}

\* The CLINT thread finds its harts.
ThreadsInv ==
  /\ pc["main"] \notin {"destroy_members", "ended"} => harts = MachineHarts
  /\ pc["main"] \in {"destroy_harts", "destroy_members", "ended"} => pc["clint"] = "ended"
  /\ ~devices => pc["main"] \in {"join_clint", "destroy_harts", "destroy_members", "ended"}
  /\ pc["clint"] \in {"check", "poke", "ended"}
  /\ pc["clint"] = "ended" => ~devices
  /\ pc["clint"] = "poke" => hart < MachineHarts

OrderlyInv ==
  /\ MachineTypeOK
  /\ state # "Resetting"
  /\ ~aborted
  /\ EarlyInv /\ LateInv /\ ThreadsInv

\* One lemma per thread: stop() first.
LEMMA OrderlyStop ==
  ASSUME Orderly, OrderlyInv, NEW t \in {"main", "term", "work"}, stop(t)
  PROVE  OrderlyInv'
<1> USE MachineHartsAssumption DEF Goto, Threads, Places, After, Early, Late,
        OrderlyInv, MachineTypeOK, EarlyInv, LateInv, ThreadsInv
<1>1. CASE stop_store(t)
  BY <1>1 DEF stop_store
<1>2. CASE stop_exchange(t)
  <2>1. CASE t = "main"
    BY <1>2, <2>1 DEF stop_exchange
  <2>2. CASE t = "term"
    BY <1>2, <2>2 DEF stop_exchange
  <2>3. CASE t = "work"
    BY <1>2, <2>3 DEF stop_exchange
  <2> QED BY <2>1, <2>2, <2>3
<1>3. CASE stop_move(t) \/ stop_join(t) \/ stop_tail(t)
  BY <1>3 DEF stop_move, stop_join, stop_tail
<1> QED BY <1>1, <1>2, <1>3 DEF stop

\* The steps of main().
LEMMA OrderlyMain ==
  ASSUME Orderly, OrderlyInv, main_next
  PROVE  OrderlyInv'
<1> USE MachineHartsAssumption DEF Goto, Threads, Places, Early, Late,
        OrderlyInv, MachineTypeOK, EarlyInv, LateInv, ThreadsInv
<1>1. CASE run_refused
  BY <1>1 DEF run_refused
<1>2. CASE run_store
  BY <1>2 DEF run_store
<1>3. CASE run_create
  BY <1>3 DEF run_create
<1>4. CASE run_flag
  BY <1>4 DEF run_flag
<1>5. CASE wait_exchange
  BY <1>5 DEF wait_exchange
<1>6. CASE wait_move
  BY <1>6 DEF wait_move
<1>7. CASE wait_join
  BY <1>7 DEF wait_join
<1>8. CASE main_end_term
  BY <1>8 DEF main_end_term
<1>9. CASE main_join_term
  BY <1>9 DEF main_join_term
<1>10. CASE destroy_devices
  BY <1>10 DEF destroy_devices
<1>11. CASE join_clint
  BY <1>11 DEF join_clint
<1>12. CASE destroy_harts
  BY <1>12 DEF destroy_harts
<1>13. CASE destroy_members
  BY <1>13 DEF destroy_members
<1> QED BY <1>1, <1>2, <1>3, <1>4, <1>5, <1>6, <1>7, <1>8, <1>9, <1>10, <1>11, <1>12, <1>13,
           OrderlyStop DEF main_next

\* The steps of the other threads.
LEMMA OrderlyOthers ==
  ASSUME Orderly, OrderlyInv, term_next \/ work_next \/ clint_next
  PROVE  OrderlyInv'
<1> USE MachineHartsAssumption DEF Goto, Threads, Places, Early, Late,
        OrderlyInv, MachineTypeOK, EarlyInv, LateInv, ThreadsInv
<1>1. CASE term_combo
  BY <1>1 DEF term_combo, StopMayCome, Orderly
<1>2. CASE term_exit
  BY <1>2 DEF term_exit
<1>3. CASE work_loop
  BY <1>3 DEF work_loop
<1>4. CASE batch_end
  BY <1>4 DEF batch_end
<1>5. CASE guest_poweroff
  BY <1>5 DEF guest_poweroff, StopMayCome, Orderly
<1>6. CASE guest_reset
  BY <1>6 DEF guest_reset, Orderly
<1>7. CASE reset_request \/ off_destroy \/ off_rebuild \/ reset_destroy \/ reset_rebuild
  BY <1>7 DEF reset_request, off_destroy, off_rebuild, reset_destroy, reset_rebuild
<1>8. CASE work_end
  BY <1>8 DEF work_end
<1>9. CASE clint_check
  BY <1>9 DEF clint_check
<1>10. CASE clint_poke
  BY <1>10 DEF clint_poke
<1> QED BY <1>1, <1>2, <1>3, <1>4, <1>5, <1>6, <1>7, <1>8, <1>9, <1>10, OrderlyStop
        DEF term_next, work_next, clint_next

\* The invariant of an orderly life.
LEMMA OrderlyAlways ==
  ASSUME Orderly
  PROVE  MachineSpec => []OrderlyInv
<1>1. MachineInit => OrderlyInv
  <2> SUFFICES ASSUME MachineInit PROVE OrderlyInv
    OBVIOUS
  <2>1. /\ pc["main"] = "run" /\ pc["term"] = "poll"
        /\ pc["work"] = "unborn" /\ pc["clint"] = "check"
        /\ pc \in [Threads -> Places]
    BY DEF MachineInit, Threads, Places
  <2>2. MachineTypeOK /\ state # "Resetting" /\ ~aborted
    <3>1. harts \in 0 .. MachineHarts /\ hart \in 0 .. MachineHarts
      <4>1. harts = MachineHarts /\ hart = 0
        BY Zenon DEF MachineInit
      <4> HIDE DEF MachineInit
      <4> QED BY <4>1, MachineHartsAssumption
    <3> QED BY <2>1, <3>1, Zenon DEF MachineInit, MachineTypeOK
  <2>3. EarlyInv
    <3>1. handle = "none" /\ ~running /\ termios_running
      BY DEF MachineInit
    <3> QED BY <2>1, <3>1 DEF EarlyInv
  <2>4. LateInv
    BY <2>1 DEF MachineInit, LateInv, Early, Late
  <2>5. ThreadsInv
    BY <2>1 DEF MachineInit, ThreadsInv
  <2> QED BY <2>2, <2>3, <2>4, <2>5 DEF OrderlyInv
<1>2. OrderlyInv /\ [MachineNext]_machineVars => OrderlyInv'
  <2> SUFFICES ASSUME OrderlyInv, [MachineNext]_machineVars PROVE OrderlyInv'
    OBVIOUS
  <2>1. CASE UNCHANGED machineVars
    BY <2>1 DEF machineVars, OrderlyInv, MachineTypeOK, EarlyInv, LateInv, ThreadsInv
  <2> QED BY <2>1, OrderlyMain, OrderlyOthers DEF MachineNext, Exit
<1> QED BY <1>1, <1>2, PTL DEF MachineSpec

\* An orderly machine never ends in std::terminate: the CLINT thread finds every
\* hart, and ~Machine destroys no joinable thread (machine.cpp:52-69, 469-525).
THEOREM OrderlyNeverAborts ==
  ASSUME Orderly
  PROVE  MachineSpec => []NeverAborts
<1>1. OrderlyInv => NeverAborts
  BY DEF OrderlyInv, NeverAborts
<1> QED BY <1>1, OrderlyAlways, PTL

\* An orderly machine is taken apart only when the threads that use its parts are
\* done (machine.cpp:52-69).
THEOREM OrderlyEnd ==
  ASSUME Orderly
  PROVE  MachineSpec => []DestroyedLast
<1>1. OrderlyInv => DestroyedLast
  BY DEF OrderlyInv, LateInv, ThreadsInv, DestroyedLast, Late
<1> QED BY <1>1, OrderlyAlways, PTL

------------------------------------------------------------------------------
(* The CLINT. *)

Names == {"MSIP", "MTIP", "STIP"}

PassRecords == [at : {"away", "test", "load", "store", "signal", "signalled"}, now : Int, bit : 0 .. 3,
                level : BOOLEAN, old : SUBSET Names, alone : BOOLEAN]
PassStates == {p \in PassRecords : p.at \in {"test", "load", "store"} => p.bit \in 1 .. 3}

ClintTypeOK ==
  /\ time \in Int /\ msip \in BOOLEAN
  /\ mip \in SUBSET Names
  /\ pass \in [Updaters -> PassStates]
  /\ settled \in BOOLEAN

\* Bit i of ip is what the registers and the time call for.
Exact(i) == (TimerBits[i] \in mip) = Level(TimerBits[i], time)

\* A pass that nothing has outdated: it works with the current time, the bits behind it
\* are exact, the one it is at gets its current level, and the ip it will store over is
\* the one that is there.
Fresh(p) ==
  /\ p.at \in {"test", "load", "store"} /\ p.bit \in 1 .. 3
  /\ p.now = time
  /\ \A i \in 1 .. 3 : i < p.bit => Exact(i)
  /\ p.at \in {"load", "store"} => p.level = Level(TimerBits[p.bit], time)
  /\ p.at = "store" => p.old = mip

ClintInv ==
  /\ ClintTypeOK
  /\ \A t \in Updaters : pass[t].alone => Fresh(pass[t])
  /\ settled => \A i \in 1 .. 3 : Exact(i)

\* The parts of a pass.
LEMMA PassTypes ==
  ASSUME NEW p \in PassStates
  PROVE  /\ p.at \in {"away", "test", "load", "store", "signal", "signalled"} /\ p.now \in Int
         /\ p.bit \in 0 .. 3 /\ p.level \in BOOLEAN /\ p.old \in SUBSET Names /\ p.alone \in BOOLEAN
         /\ p.at \in {"test", "load", "store"} => p.bit \in 1 .. 3
BY DEF PassStates, PassRecords

\* The three bits are three.
LEMMA BitNames ==
  /\ DOMAIN TimerBits = 1 .. 3 /\ Len(TimerBits) = 3
  /\ \A i \in 1 .. 3 : TimerBits[i] \in Names
  /\ \A i, j \in 1 .. 3 : TimerBits[i] = TimerBits[j] => i = j
BY DEF TimerBits, Names

\* What update_timer_bit compares the bit with is a truth value.
LEMMA LevelBoolean ==
  ASSUME msip \in BOOLEAN, NEW b \in Names, NEW now
  PROVE  Level(b, now) \in BOOLEAN
<1>1. CASE b = "MSIP"
  BY <1>1 DEF Level
<1>2. CASE b = "MTIP"
  BY <1>2 DEF Level
<1>3. CASE b = "STIP"
  BY <1>3 DEF Level
<1> QED BY <1>1, <1>2, <1>3 DEF Names

\* Setting parts of a record.
LEMMA Setting ==
  ASSUME NEW A, NEW I, NEW B, NEW L, NEW O, NEW W, NEW a \in A, NEW n \in I, NEW b \in B, NEW w \in W,
         NEW r \in [at : A, now : I, bit : B, level : L, old : O, alone : W]
  PROVE  LET q == [r EXCEPT !.at = a, !.now = n, !.bit = b, !.alone = w]
             m == [r EXCEPT !.now = n, !.bit = b, !.alone = w]
         IN /\ q \in [at : A, now : I, bit : B, level : L, old : O, alone : W]
            /\ q.at = a /\ q.now = n /\ q.bit = b /\ q.alone = w
            /\ m \in [at : A, now : I, bit : B, level : L, old : O, alone : W]
            /\ m.at = r.at /\ m.now = n /\ m.bit = b /\ m.alone = w
<1> DEFINE q == [r EXCEPT !.at = a, !.now = n, !.bit = b, !.alone = w]
           m == [r EXCEPT !.now = n, !.bit = b, !.alone = w]
<1>1. q \in [at : A, now : I, bit : B, level : L, old : O, alone : W]
  OBVIOUS
<1>2. q.at = a /\ q.now = n /\ q.bit = b /\ q.alone = w
  OBVIOUS
<1>3. m \in [at : A, now : I, bit : B, level : L, old : O, alone : W]
  OBVIOUS
<1>4. m.at = r.at /\ m.now = n /\ m.bit = b /\ m.alone = w
  OBVIOUS
<1> QED BY <1>1, <1>2, <1>3, <1>4

\* The passes a step may leave behind.
LEMMA PassForms ==
  ASSUME ClintTypeOK
  PROVE  /\ Away \in PassStates /\ Away.alone = FALSE
         /\ Begun \in PassStates /\ Begun.at = "test" /\ Begun.now = time /\ Begun.bit = 1
         /\ Outdated(pass) \in [Updaters -> PassStates]
         /\ \A t \in Updaters : Outdated(pass)[t].alone = FALSE
<1>1. Away \in PassStates /\ Away.alone = FALSE
  BY DEF Away, PassStates, PassRecords
<1>2. Begun \in PassStates /\ Begun.at = "test" /\ Begun.now = time /\ Begun.bit = 1
  <2>1. Away \in PassRecords
    BY <1>1 DEF PassStates
  <2>2. time \in Int
    BY DEF ClintTypeOK
  <2>3. Begun \in PassRecords /\ Begun.at = "test" /\ Begun.now = time /\ Begun.bit = 1
    <3>1. /\ "test" \in {"away", "test", "load", "store", "signal", "signalled"}
          /\ 1 \in 0 .. 3 /\ TRUE \in BOOLEAN
      OBVIOUS
    <3> QED BY <2>1, <2>2, <3>1, Setting, Zenon DEF Begun, PassRecords
  <2> QED BY <2>3 DEF PassStates
<1>3. \A t \in Updaters : /\ [pass[t] EXCEPT !.alone = FALSE] \in PassStates
                          /\ [pass[t] EXCEPT !.alone = FALSE].alone = FALSE
  BY DEF ClintTypeOK, PassStates, PassRecords
<1> QED BY <1>1, <1>2, <1>3 DEF Outdated

\* A step that outdates every pass but one that begins, and unsettles.
LEMMA Outdating ==
  ASSUME ClintTypeOK', ~settled',
         \A t \in Updaters : pass'[t].alone => /\ pass'[t].at = "test" /\ pass'[t].bit = 1
                                               /\ pass'[t].now = time'
  PROVE  ClintInv'
<1>1. ASSUME NEW t \in Updaters, pass'[t].alone PROVE Fresh(pass[t])'
  BY <1>1 DEF Fresh
<1> QED BY <1>1 DEF ClintInv

\* A step of one thread that touches nothing but its own pass.
LEMMA OwnPass ==
  ASSUME ClintInv, NEW t \in Updaters, NEW p \in PassStates,
         pass' = [pass EXCEPT ![t] = p], p.alone => Fresh(p),
         UNCHANGED <<time, msip, mtimecmp, stimecmp, mip, settled>>
  PROVE  ClintInv'
<1>1. ASSUME NEW i PROVE Exact(i)' = Exact(i)
  BY DEF Exact, Level
<1>2. ASSUME NEW u \in Updaters, pass'[u].alone PROVE Fresh(pass[u])'
  <2>1. pass'[u] = IF u = t THEN p ELSE pass[u]
    BY DEF ClintInv, ClintTypeOK
  <2>2. Fresh(pass'[u])
    BY <1>2, <2>1 DEF ClintInv
  <2>3. \A b : Level(b, time)' = Level(b, time)
    BY DEF Level
  <2> QED BY <1>1, <2>2, <2>3 DEF Fresh
<1>3. ClintTypeOK'
  BY DEF ClintInv, ClintTypeOK
<1>4. settled' => \A i \in 1 .. 3 : Exact(i)'
  BY <1>1 DEF ClintInv
<1> QED BY <1>2, <1>3, <1>4 DEF ClintInv

\* The comparison: a pass that is alone compares with the current time.
LEMMA TestStep ==
  ASSUME ClintInv, NEW t \in Updaters, test(t)
  PROVE  ClintInv'
<1> DEFINE p == pass[t]
           l == Level(TimerBits[p.bit], p.now)
           q == [p EXCEPT !.at = "load", !.level = l]
<1>1. p \in PassStates /\ msip \in BOOLEAN /\ (p.alone => Fresh(p))
  BY DEF ClintInv, ClintTypeOK
<1>2. pass' = [pass EXCEPT ![t] = q]
  BY DEF test
<1> HIDE DEF p
<1>3. l \in BOOLEAN
  <2>1. p.bit \in 1 .. 3
    BY <1>1, PassTypes DEF test, p
  <2> QED BY <1>1, <2>1, LevelBoolean, BitNames
<1> HIDE DEF l
<1>4. q \in PassStates /\ q.at = "load" /\ q.level = l /\ q.now = p.now /\ q.bit = p.bit /\ q.alone = p.alone
  BY <1>1, <1>3 DEF PassStates, PassRecords, test, p
<1> HIDE DEF q
<1>5. q.alone => Fresh(q)
  BY <1>1, <1>4 DEF Fresh, l
<1> QED BY <1>2, <1>4, <1>5, OwnPass DEF test

\* The load of ip: a pass that is alone loads the one it will store over.
LEMMA LoadStep ==
  ASSUME ClintInv, NEW t \in Updaters, load_ip(t)
  PROVE  ClintInv'
<1> DEFINE p == pass[t]
           a == IF p.at = "load" THEN "store" ELSE "signalled"
           q == [p EXCEPT !.at = a, !.old = mip]
<1>1. p \in PassStates /\ mip \in SUBSET Names /\ (p.alone => Fresh(p)) /\ p.at \in {"load", "signal"}
  BY DEF ClintInv, ClintTypeOK, load_ip
<1>2. pass' = [pass EXCEPT ![t] = q]
  BY DEF load_ip
<1> HIDE DEF p
<1>3. /\ q \in PassStates /\ q.at = a /\ q.old = mip
      /\ q.now = p.now /\ q.bit = p.bit /\ q.alone = p.alone /\ q.level = p.level
  BY <1>1 DEF PassStates, PassRecords
<1> HIDE DEF q
<1>4. q.alone => Fresh(q)
  BY <1>1, <1>3 DEF Fresh
<1> QED BY <1>2, <1>3, <1>4, OwnPass DEF load_ip

\* What a store makes of ip: the thread's own bit, and the rest as it was loaded.
LEMMA PutBit ==
  ASSUME NEW b \in Names, NEW up \in BOOLEAN, NEW s \in SUBSET Names
  PROVE  /\ Put(b, up, s) \in SUBSET Names
         /\ (b \in Put(b, up, s)) = up
         /\ \A c : c # b => (c \in Put(b, up, s)) = (c \in s)
<1>1. CASE up = TRUE
  <2>1. Put(b, up, s) = s \cup {b}
    BY <1>1 DEF Put
  <2>2. s \cup {b} \in SUBSET Names /\ b \in s \cup {b}
    OBVIOUS
  <2>3. \A c : c # b => (c \in s \cup {b}) = (c \in s)
    OBVIOUS
  <2> QED BY <1>1, <2>1, <2>2, <2>3, Zenon
<1>2. CASE up = FALSE
  <2>1. Put(b, up, s) = s \ {b}
    BY <1>2 DEF Put
  <2> QED BY <1>2, <2>1
<1> QED BY <1>1, <1>2

\* The store of ip: it makes its bit exact if the pass is alone, and outdates the other
\* thread's pass.
LEMMA StoreStep ==
  ASSUME ClintInv, NEW t \in Updaters, store_ip(t)
  PROVE  ClintInv'
<1> DEFINE p == pass[t]
           b == TimerBits[p.bit]
           q == [Begun EXCEPT !.now = p.now, !.bit = p.bit + 1, !.alone = p.alone]
<1>1. /\ p \in PassStates /\ (p.alone => Fresh(p)) /\ p.at = "store" /\ p.bit \in 1 .. 3
      /\ p.level \in BOOLEAN /\ p.old \in SUBSET Names /\ p.now \in Int /\ p.alone \in BOOLEAN
  BY PassTypes DEF ClintInv, ClintTypeOK, store_ip
<1>2. /\ mip' = Put(b, p.level, p.old) /\ settled' = (p.bit = 3 /\ p.alone)
      /\ UNCHANGED <<time, msip, mtimecmp, stimecmp>>
  BY BitNames DEF store_ip
<1>3. b \in Names /\ \A i \in 1 .. 3 : i # p.bit => TimerBits[i] # b
  BY <1>1, BitNames
<1> HIDE DEF p
<1>9. ClintTypeOK
  BY DEF ClintInv
<1>10. p.bit # 3 => /\ q \in PassStates /\ q.at = "test" /\ q.now = p.now
                    /\ q.bit = p.bit + 1 /\ q.alone = p.alone
  <2>1. Begun \in PassStates /\ Begun.at = "test"
    BY <1>9, PassForms
  <2>2. Begun \in PassRecords
    BY <2>1 DEF PassStates
  <2>3. p.bit # 3 => p.bit + 1 \in 0 .. 3 /\ p.bit + 1 \in 1 .. 3
    BY <1>1
  <2>4. p.bit # 3 => /\ q \in PassRecords /\ q.at = Begun.at /\ q.now = p.now
                     /\ q.bit = p.bit + 1 /\ q.alone = p.alone
    BY <1>1, <2>2, <2>3, Setting DEF PassRecords
  <2> HIDE DEF q
  <2> QED BY <2>1, <2>3, <2>4 DEF PassStates
<1>4. /\ pass' \in [Updaters -> PassStates]
      /\ \A u \in Updaters : u # t => pass'[u].alone = FALSE
      /\ pass'[t] = IF p.bit = 3 THEN Away ELSE q
  <2>1. pass' = [[Outdated(pass) EXCEPT ![t] = p] EXCEPT ![t] = IF p.bit = 3 THEN Away ELSE q]
    BY BitNames DEF store_ip, p
  <2> HIDE DEF q
  <2> QED BY <1>1, <1>9, <1>10, <2>1, PassForms
<1> HIDE DEF q
<1>5. ASSUME p.alone, NEW i \in 1 .. 3, i < p.bit \/ i = p.bit
      PROVE  Exact(i)'
  <2>1. Level(TimerBits[i], time)' = Level(TimerBits[i], time)
    BY <1>2 DEF Level
  <2>2. CASE i = p.bit
    <3>1. p.level = Level(b, time)
      BY <1>1, <1>5 DEF Fresh
    <3>2. (b \in mip') = p.level
      BY <1>1, <1>2, <1>3, PutBit
    <3> QED BY <2>1, <2>2, <3>1, <3>2 DEF Exact
  <2>3. CASE i < p.bit
    <3>1. p.old = mip /\ Exact(i)
      BY <1>1, <1>5, <2>3 DEF Fresh
    <3>2. TimerBits[i] # b
      BY <1>1, <1>3, <2>3
    <3>3. (TimerBits[i] \in mip') = (TimerBits[i] \in mip)
      BY <1>1, <1>2, <1>3, <3>1, <3>2, PutBit
    <3> QED BY <2>1, <3>1, <3>3 DEF Exact
  <2> QED BY <1>5, <2>2, <2>3
<1>6. ClintTypeOK'
  <2>1. mip' \in SUBSET Names
    BY <1>1, <1>2, <1>3, PutBit
  <2>2. time' \in Int /\ msip' \in BOOLEAN
    BY <1>2 DEF ClintInv, ClintTypeOK
  <2>3. settled' \in BOOLEAN
    BY <1>2
  <2> QED BY <1>4, <2>1, <2>2, <2>3 DEF ClintTypeOK
<1>7. settled' => \A i \in 1 .. 3 : Exact(i)'
  <2> SUFFICES ASSUME settled', NEW i \in 1 .. 3 PROVE Exact(i)'
    OBVIOUS
  <2>1. p.bit = 3 /\ p.alone
    BY <1>2
  <2>2. i < p.bit \/ i = p.bit
    BY <2>1
  <2> QED BY <1>5, <2>1, <2>2
<1>8. ASSUME NEW u \in Updaters, pass'[u].alone PROVE Fresh(pass[u])'
  <2>1. u = t
    BY <1>4, <1>8
  <2>2. p.bit # 3 /\ pass'[u] = q /\ p.alone
    BY <1>4, <1>8, <1>9, <1>10, <2>1, PassForms
  <2>3. p.now = time'
    BY <1>1, <1>2, <2>2 DEF Fresh
  <2>4. \A i \in 1 .. 3 : i < p.bit + 1 => Exact(i)'
    <3> SUFFICES ASSUME NEW i \in 1 .. 3, i < p.bit + 1 PROVE Exact(i)'
      OBVIOUS
    <3>1. i < p.bit \/ i = p.bit
      BY <1>1
    <3> QED BY <1>5, <2>2, <3>1
  <2>5. /\ pass'[u].at = "test" /\ pass'[u].bit \in 1 .. 3 /\ pass'[u].now = time'
        /\ pass'[u].bit = p.bit + 1
    <3>1. p.bit + 1 \in 1 .. 3
      BY <1>1, <2>2
    <3> QED BY <1>10, <2>2, <2>3, <3>1
  <2> QED BY <2>4, <2>5 DEF Fresh
<1> QED BY <1>6, <1>7, <1>8 DEF ClintInv

\* A register write of the work thread, or a tick: every pass under way is outdated.
LEMMA CallStep ==
  ASSUME ClintInv, NEW p \in PassStates, Call(p),
         p.alone => p.at = "test" /\ p.bit = 1 /\ p.now = time',
         time' \in Int, msip' \in BOOLEAN, mip' \in SUBSET Names
  PROVE  ClintInv'
<1>0. ClintTypeOK
  BY DEF ClintInv
<1>1. /\ pass' \in [Updaters -> PassStates] /\ ~settled' /\ settled' \in BOOLEAN
      /\ \A u \in Updaters : pass'[u] = p \/ pass'[u].alone = FALSE
  BY <1>0, PassForms DEF Call, Updaters
<1>2. ClintTypeOK'
  BY <1>1 DEF ClintTypeOK
<1> QED BY <1>1, <1>2, Outdating

\* The PLIC's store: if the bits were settled, they stay so when the ip it loaded is the
\* one it stores over.
LEMMA SignalStep ==
  ASSUME ClintInv, store_signal
  PROVE  ClintInv'
<1> DEFINE p == pass["work"]
<1>0. ClintTypeOK /\ "work" \in Updaters
  BY DEF ClintInv, Updaters
<1>1. p \in PassStates
  BY <1>0 DEF ClintTypeOK
<1>2. p.old \in SUBSET Names
  BY <1>1, PassTypes
<1>3. /\ mip' = p.old /\ pass' = [Outdated(pass) EXCEPT !["work"] = Away]
      /\ settled' = (settled /\ p.old = mip) /\ UNCHANGED <<time, msip, mtimecmp, stimecmp>>
  BY DEF store_signal
<1> HIDE DEF p
<1>4. pass' \in [Updaters -> PassStates] /\ \A u \in Updaters : pass'[u].alone = FALSE
  BY <1>0, <1>3, PassForms
<1>5. ClintTypeOK'
  <2>1. settled' \in BOOLEAN
    BY <1>3
  <2> QED BY <1>0, <1>2, <1>3, <1>4, <2>1 DEF ClintTypeOK
<1>6. ASSUME settled', NEW i \in 1 .. 3 PROVE Exact(i)'
  <2>1. settled /\ mip' = mip
    BY <1>3, <1>6
  <2>2. Exact(i)
    BY <2>1 DEF ClintInv
  <2> QED BY <1>3, <2>1, <2>2 DEF Exact, Level
<1> QED BY <1>4, <1>5, <1>6 DEF ClintInv

\* Every step keeps the invariant.
LEMMA ClintStep ==
  ASSUME ClintInv, [ClintNext]_clintVars
  PROVE  ClintInv'
<1>0. ClintTypeOK /\ time \in Int /\ msip \in BOOLEAN /\ mip \in SUBSET Names
  BY DEF ClintInv, ClintTypeOK
<1>1. CASE thread_func
  <2>1. Fresh(Begun) /\ Begun \in PassStates
    BY <1>0, PassForms DEF Fresh
  <2> QED BY <1>1, <2>1, OwnPass DEF thread_func, Updaters
<1>2. CASE signal_cpu_interrupt
  <2>1. Away \in PassStates /\ Away.alone = FALSE
    BY <1>0, PassForms
  <2>2. [Away EXCEPT !.at = "signal"] \in PassStates /\ [Away EXCEPT !.at = "signal"].alone = FALSE
    BY <2>1 DEF PassStates, PassRecords
  <2> QED BY <1>2, <2>2, OwnPass DEF signal_cpu_interrupt, Updaters
<1>3. CASE store_signal
  BY <1>3, SignalStep
<1>4. CASE Clock
  <2>1. /\ pass' \in [Updaters -> PassStates] /\ ~settled' /\ settled' \in BOOLEAN
        /\ \A u \in Updaters : pass'[u].alone = FALSE
    BY <1>0, <1>4, PassForms DEF Clock
  <2>2. time' \in Int /\ msip' \in BOOLEAN /\ mip' \in SUBSET Names
    BY <1>0, <1>4 DEF Clock
  <2>3. ClintTypeOK'
    BY <2>1, <2>2 DEF ClintTypeOK
  <2> QED BY <2>1, <2>3, Outdating
<1>5. ASSUME NEW t \in Updaters, test(t) \/ load_ip(t) \/ store_ip(t) PROVE ClintInv'
  BY <1>5, TestStep, LoadStep, StoreStep
<1>6. ASSUME NEW v \in BOOLEAN, write_mswi(v) PROVE ClintInv'
  <2>1. Call(Begun) /\ time' \in Int /\ msip' \in BOOLEAN /\ mip' \in SUBSET Names /\ time' = time
    BY <1>0, <1>6 DEF write_mswi
  <2> QED BY <1>0, <2>1, PassForms, CallStep
<1>7. ASSUME NEW v, write_mtimer(v) PROVE ClintInv'
  <2>1. Call(Begun) /\ time' \in Int /\ msip' \in BOOLEAN /\ mip' \in SUBSET Names /\ time' = time
    BY <1>0, <1>7 DEF write_mtimer
  <2> QED BY <1>0, <2>1, PassForms, CallStep
<1>8. ASSUME NEW v, write_STIMECMP(v) PROVE ClintInv'
  <2>1. Call(Away) /\ time' \in Int /\ msip' \in BOOLEAN /\ mip' \in SUBSET Names
    BY <1>0, <1>8 DEF write_STIMECMP
  <2> QED BY <1>0, <2>1, PassForms, CallStep
<1>9. ASSUME NEW v \in Times, write_mtime(v) PROVE ClintInv'
  <2> DEFINE q == [Begun EXCEPT !.now = v]
  <2>1. v \in Int
    BY <1>9 DEF Times
  <2>2. Begun \in PassStates /\ Begun.at = "test" /\ Begun.bit = 1
    BY <1>0, PassForms
  <2>3. q \in PassStates /\ q.at = "test" /\ q.bit = 1 /\ q.now = v
    BY <2>1, <2>2 DEF PassStates, PassRecords
  <2>4. Call(q) /\ time' \in Int /\ msip' \in BOOLEAN /\ mip' \in SUBSET Names /\ time' = v
    BY <1>0, <1>9, <2>1 DEF write_mtime
  <2> HIDE DEF q
  <2> QED BY <2>3, <2>4, CallStep
<1>10. ASSUME NEW s \in {{}, {"MSIP", "MTIP", "STIP"}}, write_MIP(s) PROVE ClintInv'
  <2>1. s \in SUBSET Names
    BY <1>10 DEF Names
  <2>2. Call(Away) /\ time' \in Int /\ msip' \in BOOLEAN /\ mip' \in SUBSET Names
    BY <1>0, <1>10, <2>1 DEF write_MIP
  <2> QED BY <1>0, <2>2, PassForms, CallStep
<1>11. CASE UNCHANGED clintVars
  <2>1. UNCHANGED <<time, msip, mtimecmp, stimecmp, mip, settled>> /\ pass' = pass
    BY <1>11 DEF clintVars
  <2>2. pass \in [Updaters -> PassStates] /\ "work" \in Updaters
    BY <1>0 DEF ClintTypeOK, Updaters
  <2>3. pass' = [pass EXCEPT !["work"] = pass["work"]] /\ pass["work"] \in PassStates
    BY <2>1, <2>2
  <2>4. pass["work"].alone => Fresh(pass["work"])
    BY <2>2 DEF ClintInv
  <2> QED BY <2>1, <2>2, <2>3, <2>4, OwnPass
<1> QED BY <1>1, <1>2, <1>3, <1>4, <1>5, <1>6, <1>7, <1>8, <1>9, <1>10, <1>11 DEF ClintNext

\* Whatever the CLINT's thread, the register writes and the PLIC's signals do to ip in
\* whatever order: when a pass of update_mip has run over the registers and the time as
\* they are, with no other store to ip in between, MSIP, MTIP and STIP are exactly what
\* msip, mtimecmp, stimecmp and the time call for, and stay so until one of these changes.
THEOREM ClintTimerBitsExact == ClintSpec => []TimerBitsExact
<1>1. ClintInit => ClintInv
  <2> SUFFICES ASSUME ClintInit PROVE ClintInv
    OBVIOUS
  <2>1. time = 0 /\ msip = FALSE /\ mip \in SUBSET Names /\ settled = FALSE
    BY DEF ClintInit, Names
  <2>2. Away \in PassStates /\ Away.alone = FALSE
    BY DEF Away, PassStates, PassRecords
  <2>3. pass \in [Updaters -> PassStates] /\ \A t \in Updaters : pass[t].alone = FALSE
    BY <2>2 DEF ClintInit
  <2>4. time \in Int /\ msip \in BOOLEAN /\ settled \in BOOLEAN
    <3>1. 0 \in Int
      OBVIOUS
    <3> QED BY <2>1, <3>1, Zenon
  <2> QED BY <2>1, <2>3, <2>4 DEF ClintInv, ClintTypeOK
<1>2. ClintInv /\ [ClintNext]_clintVars => ClintInv'
  BY ClintStep
<1>3. ClintInv => TimerBitsExact
  BY BitNames DEF ClintInv, TimerBitsExact, Exact
<1> QED BY <1>1, <1>2, <1>3, PTL DEF ClintSpec

------------------------------------------------------------------------------
(* The PLIC. *)

\* Type correctness of the controller: masked registers, and no bit outside the
\* vectors, whatever the guest writes.
LEMMA PLICTypeStep == TypeOK /\ [Next]_vars => TypeOK'
<1> USE NumHartsAssumption, MaxSourcesAssumption, WordBitsAssumption,
        NumIrqsAssumption, PrioLimitAssumption
<1> SUFFICES ASSUME TypeOK, [Next]_vars PROVE TypeOK'
  OBVIOUS
<1>u. ASSUME NEW S, update_contexts(S)
      PROVE  line' \in [Contexts -> BOOLEAN] /\ eip' \in [Contexts -> BOOLEAN]
  <2>1. line' \in [Contexts -> BOOLEAN]
    BY <1>u DEF update_contexts, TypeOK
  <2>2. eip' \in [Contexts -> BOOLEAN]
    BY <1>u, <2>1 DEF update_contexts, TypeOK
  <2> QED BY <2>1, <2>2
<1>1. ASSUME NEW s \in Irqs, NEW level \in BOOLEAN, set_pending(s, level)
      PROVE  TypeOK'
  <2>1. line' \in [Contexts -> BOOLEAN] /\ eip' \in [Contexts -> BOOLEAN]
    BY <1>1, <1>u DEF set_pending
  <2> QED BY <1>1, <2>1 DEF set_pending, TypeOK
<1>2. ASSUME NEW s \in Sources, NEW value \in RegValues, write_priority(s, value)
      PROVE  TypeOK'
  <2>1. line' \in [Contexts -> BOOLEAN] /\ eip' \in [Contexts -> BOOLEAN]
    BY <1>2, <1>u DEF write_priority
  <2>2. value % PrioLimit \in 0 .. PrioLimit - 1
    BY DEF RegValues
  <2> QED BY <1>2, <2>1, <2>2 DEF write_priority, TypeOK
<1>3. ASSUME NEW c \in Contexts, NEW w \in Words, NEW value \in SUBSET WordIds(w),
             write_enable(c, w, value)
      PROVE  TypeOK'
  <2>1. line' \in [Contexts -> BOOLEAN] /\ eip' \in [Contexts -> BOOLEAN]
    BY <1>3, <1>u DEF write_enable
  <2>2. value \subseteq Bits
    BY DEF Bits
  <2> QED BY <1>3, <2>1, <2>2 DEF write_enable, TypeOK
<1>4. ASSUME NEW c \in Contexts, NEW value \in RegValues, write_threshold(c, value)
      PROVE  TypeOK'
  <2>1. line' \in [Contexts -> BOOLEAN] /\ eip' \in [Contexts -> BOOLEAN]
    BY <1>4, <1>u DEF write_threshold
  <2>2. value % PrioLimit \in 0 .. PrioLimit - 1
    BY DEF RegValues
  <2> QED BY <1>4, <2>1, <2>2 DEF write_threshold, TypeOK
<1>5. ASSUME NEW c \in Contexts, claim_interrupt(c)
      PROVE  TypeOK'
  <2>1. line' \in [Contexts -> BOOLEAN] /\ eip' \in [Contexts -> BOOLEAN]
    BY <1>5, <1>u DEF claim_interrupt
  <2> QED BY <1>5, <2>1 DEF claim_interrupt, TypeOK
<1>6. ASSUME NEW c \in Contexts, NEW id, complete_interrupt(c, id)
      PROVE  TypeOK'
  <2>1. line' \in [Contexts -> BOOLEAN] /\ eip' \in [Contexts -> BOOLEAN]
    BY <1>6, <1>u DEF complete_interrupt
  <2> QED BY <1>6, <2>1 DEF complete_interrupt, TypeOK
<1>7. ASSUME NEW h \in 0 .. NumHarts - 1, NEW m \in BOOLEAN, NEW s \in BOOLEAN,
             csr_write_ip(h, m, s)
      PROVE  TypeOK'
  BY <1>7 DEF csr_write_ip, TypeOK
<1>8. CASE UNCHANGED vars
  BY <1>8 DEF vars, TypeOK
<1> QED BY <1>1, <1>2, <1>3, <1>4, <1>5, <1>6, <1>7, <1>8 DEF Next

\* TypeOK is an invariant of the controller for every configuration.
THEOREM PLICTypeCorrect == Spec => []TypeOK
<1>1. Init => TypeOK
  BY NumHartsAssumption, PrioLimitAssumption DEF Init, TypeOK
<1> QED BY <1>1, PLICTypeStep, PTL DEF Spec
-----------------------------------------------------------------------------
\* What a handler leaves behind for the contexts it re-evaluates and for the others.
LEMMA UpdateContexts ==
  ASSUME NEW S, update_contexts(S), NEW d \in Contexts
  PROVE  /\ d \in S => (line'[d] <=> Claimable(d)' # {})
         /\ d \notin S => line'[d] = line[d]
BY DEF update_contexts

\* A handler that leaves the registers of another context alone and only clears
\* pending bits cannot give that context anything new to claim.
LEMMA ClaimableShrinks ==
  ASSUME NEW d \in Contexts, pending' \subseteq pending,
         enables'[d] = enables[d], threshold'[d] = threshold[d], priorities' = priorities
  PROVE  Claimable(d)' \subseteq Claimable(d)
BY DEF Claimable

\* One step of any guest or device keeps every claimable source on a raised line.
LEMMA NoLostStep == TypeOK /\ NoLostInterrupt /\ [Next]_vars => NoLostInterrupt'
<1> SUFFICES ASSUME TypeOK, NoLostInterrupt, [Next]_vars, NEW d \in Contexts
             PROVE  Claimable(d)' # {} => line'[d]
  BY DEF NoLostInterrupt
<1>0. Claimable(d) # {} => line[d]
  BY DEF NoLostInterrupt
<1>1. ASSUME NEW s \in Irqs, NEW level \in BOOLEAN, set_pending(s, level)
      PROVE  Claimable(d)' # {} => line'[d]
  BY <1>1, UpdateContexts DEF set_pending
<1>2. ASSUME NEW s \in Sources, NEW value \in RegValues, write_priority(s, value)
      PROVE  Claimable(d)' # {} => line'[d]
  BY <1>2, UpdateContexts DEF write_priority
<1>3. ASSUME NEW c \in Contexts, NEW w \in Words, NEW value \in SUBSET WordIds(w),
             write_enable(c, w, value)
      PROVE  Claimable(d)' # {} => line'[d]
  <2>1. CASE d = c
    BY <1>3, <2>1, UpdateContexts DEF write_enable
  <2>2. CASE d # c
    <3>1. enables'[d] = enables[d]
      BY <1>3, <2>2 DEF write_enable, TypeOK
    <3> QED BY <1>0, <1>3, <2>2, <3>1, UpdateContexts, ClaimableShrinks DEF write_enable
  <2> QED BY <2>1, <2>2
<1>4. ASSUME NEW c \in Contexts, NEW value \in RegValues, write_threshold(c, value)
      PROVE  Claimable(d)' # {} => line'[d]
  <2>1. CASE d = c
    BY <1>4, <2>1, UpdateContexts DEF write_threshold
  <2>2. CASE d # c
    <3>1. threshold'[d] = threshold[d]
      BY <1>4, <2>2 DEF write_threshold, TypeOK
    <3> QED BY <1>0, <1>4, <2>2, <3>1, UpdateContexts, ClaimableShrinks DEF write_threshold
  <2> QED BY <2>1, <2>2
<1>5. ASSUME NEW c \in Contexts, claim_interrupt(c)
      PROVE  Claimable(d)' # {} => line'[d]
  <2>1. CASE d = c
    BY <1>5, <2>1, UpdateContexts DEF claim_interrupt
  <2>2. CASE d # c
    BY <1>0, <1>5, <2>2, UpdateContexts, ClaimableShrinks DEF claim_interrupt
  <2> QED BY <2>1, <2>2
<1>6. ASSUME NEW c \in Contexts, NEW id, complete_interrupt(c, id)
      PROVE  Claimable(d)' # {} => line'[d]
  <2>1. CASE d = c
    BY <1>6, <2>1, UpdateContexts DEF complete_interrupt
  <2>2. CASE d # c
    BY <1>0, <1>6, <2>2, UpdateContexts, ClaimableShrinks DEF complete_interrupt
  <2> QED BY <2>1, <2>2
<1>7. ASSUME NEW h, NEW m, NEW s, csr_write_ip(h, m, s)
      PROVE  Claimable(d)' # {} => line'[d]
  BY <1>0, <1>7, ClaimableShrinks DEF csr_write_ip
<1>8. CASE UNCHANGED vars
  BY <1>0, <1>8, ClaimableShrinks DEF vars
<1> QED BY <1>1, <1>2, <1>3, <1>4, <1>5, <1>6, <1>7, <1>8 DEF Next

\* No interrupt is lost, for every number of harts and sources: a context that
\* could claim a source has its line up (plic.cpp:289-326).
THEOREM PLICNoLostInterrupt == Spec => []NoLostInterrupt
<1>1. Init => NoLostInterrupt
  BY DEF Init, NoLostInterrupt, Claimable
<1> QED BY <1>1, NoLostStep, PLICTypeCorrect, PTL DEF Spec
-----------------------------------------------------------------------------
\* The inductive invariant of the routed controller.
RoutedInv == TypeOK /\ EnablesRouted /\ LineExact /\ EipFollowsLine

\* A routed step is a step of the controller.
LEMMA RoutedIsNext == RoutedNext => Next
<1>1. \A c : Routed(c) \subseteq 0 .. MaxSources + 1
  BY MaxSourcesAssumption DEF Routed, Sources
<1>2. \A w, c : SUBSET (WordIds(w) \cap Routed(c)) \subseteq SUBSET WordIds(w)
  OBVIOUS
<1> QED BY <1>1, <1>2, Zenon DEF RoutedNext, Next

\* The routing survives every step: write_enable is the only writer of enables.
LEMMA EnablesRoutedStep == TypeOK /\ EnablesRouted /\ [RoutedNext]_vars => EnablesRouted'
<1> SUFFICES ASSUME TypeOK, EnablesRouted, [RoutedNext]_vars PROVE EnablesRouted'
  OBVIOUS
<1>1. ASSUME NEW c \in Contexts, NEW w \in Words,
             NEW value \in SUBSET (WordIds(w) \cap Routed(c)), write_enable(c, w, value)
      PROVE  EnablesRouted'
  BY <1>1 DEF write_enable, EnablesRouted, TypeOK, Routed
<1>2. CASE enables' = enables
  BY <1>2 DEF EnablesRouted, Routed
<1> QED BY <1>1, <1>2 DEF RoutedNext, vars, set_pending, write_priority, write_threshold,
                          claim_interrupt, complete_interrupt

\* Clearing a source of one context takes nothing from another context's claims.
LEMMA ForeignClear ==
  ASSUME EnablesRouted, NEW c \in Contexts, NEW d \in Contexts, d # c,
         NEW id, id = 0 \/ id \in Routed(c), pending' = pending \ {id},
         UNCHANGED <<priorities, enables, threshold>>
  PROVE  Claimable(d)' = Claimable(d)
BY DEF EnablesRouted, Routed, Claimable, Sources

\* The bit follows the line across the edges.
LEMMA EipStep ==
  ASSUME TypeOK, EipFollowsLine, NEW S, update_contexts(S)
  PROVE  EipFollowsLine'
BY DEF TypeOK, EipFollowsLine, update_contexts

\* Every nonempty set of naturals has a least element.
LEMMA NatMin ==
  ASSUME NEW T, T \subseteq Nat, T # {}
  PROVE  \E x \in T : \A y \in T : x <= y
<1>1. PICK x \in T : \A y \in T : ~(<<y, x>> \in OpToRel(<, Nat))
  BY NatLessThanWellFounded, WFMin, Zenon
<1>2. \A y \in T : ~(y < x)
  <2> SUFFICES ASSUME NEW y \in T, y < x PROVE FALSE
    OBVIOUS
  <2>1. y \in Nat /\ x \in Nat
    OBVIOUS
  <2>2. <<y, x>> \in OpToRel(<, Nat)
    BY <2>1 DEF OpToRel
  <2> QED BY <1>1, <2>2
<1>3. \A y \in T : y \in Nat /\ x \in Nat
  OBVIOUS
<1> QED BY <1>2, <1>3

\* The choice in find_highest_pending_enabled has a witness: the least id of the
\* highest priority.
LEMMA BestExists ==
  ASSUME TypeOK, NEW c \in Contexts, Claimable(c) # {}
  PROVE  \E s \in Claimable(c) :
           \A t \in Claimable(c) : \/ priorities[s] > priorities[t]
                                   \/ priorities[s] = priorities[t] /\ s <= t
<1> DEFINE Deficits == {PrioLimit - priorities[s] : s \in Claimable(c)}
<1>1. \A s \in Claimable(c) : s \in Nat /\ priorities[s] \in 0 .. PrioLimit - 1
  BY MaxSourcesAssumption DEF Claimable, Sources, TypeOK
<1>2. Deficits \subseteq Nat /\ Deficits # {}
  BY <1>1, PrioLimitAssumption
<1>3. PICK d \in Deficits : \A e \in Deficits : d <= e
  BY <1>2, NatMin, Zenon
<1> DEFINE Best == {s \in Claimable(c) : PrioLimit - priorities[s] = d}
<1>4. Best \subseteq Nat /\ Best # {}
  BY <1>1, <1>3
<1> HIDE DEF Best
<1>5. PICK b \in Best : \A t \in Best : b <= t
  BY <1>4, NatMin, Zenon
<1>6. b \in Claimable(c) /\ PrioLimit - priorities[b] = d
  BY DEF Best
<1>7. ASSUME NEW t \in Claimable(c)
      PROVE  \/ priorities[b] > priorities[t]
             \/ priorities[b] = priorities[t] /\ b <= t
  <2>1. d <= PrioLimit - priorities[t]
    BY <1>3
  <2>2. priorities[b] >= priorities[t]
    BY <1>1, <1>6, <2>1, PrioLimitAssumption
  <2>3. priorities[b] = priorities[t] => t \in Best
    BY <1>6 DEF Best
  <2> QED BY <1>1, <1>5, <1>6, <2>2, <2>3
<1> QED BY <1>6, <1>7

\* One step of a routed guest keeps the line of every context exact.
LEMMA RoutedStep == RoutedInv /\ [RoutedNext]_vars => RoutedInv'
<1> SUFFICES ASSUME RoutedInv, [RoutedNext]_vars PROVE RoutedInv'
  OBVIOUS
<1> USE DEF RoutedInv
<1>1. TypeOK'
  BY RoutedIsNext, PLICTypeStep
<1>2. EnablesRouted'
  BY EnablesRoutedStep
<1>3. EipFollowsLine'
  BY EipStep DEF RoutedNext, set_pending, write_priority, write_enable, write_threshold,
                 claim_interrupt, complete_interrupt, vars, EipFollowsLine
<1>4. ASSUME NEW d \in Contexts
      PROVE  line'[d] <=> Claimable(d)' # {}
  <2>0. line[d] <=> Claimable(d) # {}
    BY DEF LineExact
  <2>1. ASSUME NEW s \in Irqs, NEW level \in BOOLEAN, set_pending(s, level)
        PROVE  line'[d] <=> Claimable(d)' # {}
    BY <2>1, UpdateContexts DEF set_pending
  <2>2. ASSUME NEW s \in Sources, NEW value \in RegValues, write_priority(s, value)
        PROVE  line'[d] <=> Claimable(d)' # {}
    BY <2>2, UpdateContexts DEF write_priority
  <2>3. ASSUME NEW c \in Contexts, NEW w, NEW value, write_enable(c, w, value)
        PROVE  line'[d] <=> Claimable(d)' # {}
    <3>1. CASE d = c
      BY <2>3, <3>1, UpdateContexts DEF write_enable
    <3>2. CASE d # c
      <4>1. enables'[d] = enables[d]
        BY <2>3, <3>2 DEF write_enable, TypeOK
      <4>2. Claimable(d)' = Claimable(d)
        BY <2>3, <4>1 DEF write_enable, Claimable
      <4> QED BY <2>0, <2>3, <3>2, <4>2, UpdateContexts DEF write_enable
    <3> QED BY <3>1, <3>2
  <2>4. ASSUME NEW c \in Contexts, NEW value \in RegValues, write_threshold(c, value)
        PROVE  line'[d] <=> Claimable(d)' # {}
    <3>1. CASE d = c
      BY <2>4, <3>1, UpdateContexts DEF write_threshold
    <3>2. CASE d # c
      <4>1. threshold'[d] = threshold[d]
        BY <2>4, <3>2 DEF write_threshold, TypeOK
      <4>2. Claimable(d)' = Claimable(d)
        BY <2>4, <4>1 DEF write_threshold, Claimable
      <4> QED BY <2>0, <2>4, <3>2, <4>2, UpdateContexts DEF write_threshold
    <3> QED BY <3>1, <3>2
  <2>5. ASSUME NEW c \in Contexts, claim_interrupt(c)
        PROVE  line'[d] <=> Claimable(d)' # {}
    <3>1. CASE d = c
      BY <2>5, <3>1, UpdateContexts DEF claim_interrupt
    <3>2. CASE d # c
      <4> DEFINE id == find_highest_pending_enabled(c)
      <4>1. id = 0 \/ id \in Claimable(c)
        <5>1. CASE Claimable(c) = {}
          BY <5>1 DEF find_highest_pending_enabled
        <5>2. CASE Claimable(c) # {}
          BY <5>2, BestExists DEF find_highest_pending_enabled
        <5> QED BY <5>1, <5>2
      <4>2. Claimable(c) \subseteq Routed(c)
        BY DEF Claimable, EnablesRouted
      <4>3. Claimable(d)' = Claimable(d)
        BY <2>5, <3>2, <4>1, <4>2, ForeignClear DEF claim_interrupt
      <4> QED BY <2>0, <2>5, <3>2, <4>3, UpdateContexts DEF claim_interrupt
    <3> QED BY <3>1, <3>2
  <2>6. ASSUME NEW c \in Contexts, NEW id \in Routed(c), complete_interrupt(c, id)
        PROVE  line'[d] <=> Claimable(d)' # {}
    <3>1. CASE d = c
      BY <2>6, <3>1, UpdateContexts DEF complete_interrupt
    <3>2. CASE d # c
      <4>1. Claimable(d)' = Claimable(d)
        BY <2>6, <3>2, ForeignClear DEF complete_interrupt
      <4> QED BY <2>0, <2>6, <3>2, <4>1, UpdateContexts DEF complete_interrupt
    <3> QED BY <3>1, <3>2
  <2>7. CASE UNCHANGED vars
    BY <2>0, <2>7 DEF vars, Claimable
  <2> QED BY <2>1, <2>2, <2>3, <2>4, <2>5, <2>6, <2>7 DEF RoutedNext
<1> QED BY <1>1, <1>2, <1>3, <1>4 DEF LineExact

\* With a routed guest the line of a context is up exactly when the context has
\* something to claim, and the hart sees exactly the line.
THEOREM PLICInterruptExact == RoutedSpec => []InterruptExact
<1>1. Init => RoutedInv
  <2>1. Init => TypeOK
    BY NumHartsAssumption, PrioLimitAssumption DEF Init, TypeOK
  <2> QED BY <2>1 DEF Init, RoutedInv, EnablesRouted, LineExact, EipFollowsLine, Claimable
<1>2. RoutedInv => InterruptExact
  BY DEF RoutedInv, InterruptExact
<1> QED BY <1>1, <1>2, RoutedStep, PTL DEF RoutedSpec

==============================================================================
