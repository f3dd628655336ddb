------------------------------ MODULE Machine -------------------------------
(***************************************************************************)
(* The life of a machine (src/machine.cpp) as main.cpp uses it, without    *)
(* the GDB stub: run, wait, stop, reset and the destructor, over the       *)
(* shared state word, the work_thread_running flag and the std::thread     *)
(* object of the work thread.                                              *)
(*                                                                         *)
(*   main   run(); wait(); joins the terminal thread; ~Machine             *)
(*   term   the terminal thread, which calls stop() on the key combination *)
(*   work   Machine::work: batches of instructions, resets                 *)
(*   clint  CLINT::thread_func, which pokes every hart                     *)
(*                                                                         *)
(* A step is one access to shared state.  The guest reaches stop() and     *)
(* reset() on the work thread through SYSCON.                              *)
(***************************************************************************)
EXTENDS Naturals

CONSTANTS
  MachineHarts,  \* config.hart_count
  GuestOps,      \* the SYSCON commands the guest may issue
  EarlyStop      \* whether the machine may be stopped before wait() took the work thread

ASSUME MachineHartsAssumption == MachineHarts \in 1 .. 64
ASSUME GuestOpsAssumption == GuestOps \subseteq {"poweroff", "reset"}
ASSUME EarlyStopAssumption == EarlyStop \in BOOLEAN

Threads == {"main", "term", "work", "clint"}

\* Where a thread may be: the function it is in, and how far it got.
Places == {"run", "run_create", "run_flag", "wait", "wait_move", "wait_join", "wait_done",
           "join_term", "stop", "stop_exchange", "stop_move", "stop_join", "stop_tail",
           "destroy_devices", "join_clint", "destroy_harts", "destroy_members",
           "poll", "unborn", "loop", "batch", "reset_request", "off_destroy", "off_rebuild",
           "reset_destroy", "reset_rebuild", "work_end", "check", "poke", "ended"}

VARIABLES
  state,            \* MachineState
  running,          \* work_thread_running
  handle,           \* who holds the joinable std::thread: the member or a local of t
  harts,            \* how many harts the vector holds
  devices,          \* the device list is alive (thr_working of the CLINT)
  termios_running,  \* main.cpp's flag for the terminal thread
  hart,             \* the hart the CLINT thread turns to next
  aborted,          \* std::terminate was called
  pc                \* thread -> where it is

machineVars == <<state, running, handle, harts, devices, termios_running, hart, aborted, pc>>

\* The devices and the terminal thread exist before run().
MachineInit ==
  /\ state = "Off"
  /\ running = FALSE
  /\ handle = "none"
  /\ harts = MachineHarts
  /\ devices = TRUE
  /\ termios_running = TRUE
  /\ hart = 0
  /\ aborted = FALSE
  /\ pc = [t \in Threads |-> CASE t = "main"  -> "run"
                             [] t = "term"  -> "poll"
                             [] t = "work"  -> "unborn"
                             [] t = "clint" -> "check"]

\* Thread t goes from one place to another.
Goto(t, from, to) == pc[t] = from /\ pc' = [pc EXCEPT ![t] = to]

\* Where stop() returns to.
After(t) == CASE t = "main" -> "destroy_devices"
              [] t = "term" -> "ended"
              [] t = "work" -> "batch"

\* main() calls wait() right after run(); a stop usually comes later than that.
StopMayCome == EarlyStop \/ pc["main"] = "wait_join"
-----------------------------------------------------------------------------
(***************************************************************************)
(* stop(), by the destructor, the terminal thread or the guest.            *)
(***************************************************************************)
\* Mutant of stop_store: the state is written only by whoever will take the flag.
stop_store_late(t) ==
  /\ Goto(t, "stop", "stop_exchange")
  /\ state' = IF running THEN "Off" ELSE state
  /\ UNCHANGED <<running, handle, harts, devices, termios_running, hart, aborted>>

stop_store(t) ==
  /\ Goto(t, "stop", "stop_exchange")
  /\ state' = "Off"
  /\ UNCHANGED <<running, handle, harts, devices, termios_running, hart, aborted>>

\* Mutant of stop_exchange: the flag is read and not taken.
stop_peek(t) ==
  /\ Goto(t, "stop_exchange",
          IF ~running THEN After(t)
          ELSE IF t = "work" /\ handle = "member" THEN "stop_tail" ELSE "stop_move")
  /\ UNCHANGED <<running, state, handle, harts, devices, termios_running, hart, aborted>>

\* Whoever takes the flag owns the thread object, unless it is the work thread
\* itself, which must not join itself.
stop_exchange(t) ==
  /\ Goto(t, "stop_exchange",
          IF ~running THEN After(t)
          ELSE IF t = "work" /\ handle = "member" THEN "stop_tail" ELSE "stop_move")
  /\ running' = FALSE
  /\ UNCHANGED <<state, handle, harts, devices, termios_running, hart, aborted>>

\* Only a joinable thread object is joined.
stop_move(t) ==
  /\ Goto(t, "stop_move", IF handle = "member" THEN "stop_join" ELSE "stop_tail")
  /\ handle' = IF handle = "member" THEN t ELSE handle
  /\ UNCHANGED <<state, running, harts, devices, termios_running, hart, aborted>>

stop_join(t) ==
  /\ Goto(t, "stop_join", "stop_tail")
  /\ pc["work"] = "ended"
  /\ handle' = "none"
  /\ UNCHANGED <<state, running, harts, devices, termios_running, hart, aborted>>

stop_tail(t) ==
  /\ Goto(t, "stop_tail", After(t))
  /\ running' = FALSE
  /\ UNCHANGED <<state, handle, harts, devices, termios_running, hart, aborted>>

stop(t) == stop_store(t) \/ stop_exchange(t) \/ stop_move(t) \/ stop_join(t) \/ stop_tail(t)
-----------------------------------------------------------------------------
(***************************************************************************)
(* run() and wait(), by main.                                              *)
(***************************************************************************)
\* The images are loaded and the harts initialised before this store.
run_store ==
  /\ Goto("main", "run", "run_create")
  /\ state' = "Running"
  /\ UNCHANGED <<running, handle, harts, devices, termios_running, hart, aborted>>

\* There is no BIOS, or an image does not fit: run() returns and main() goes on.
run_refused ==
  /\ Goto("main", "run", "wait")
  /\ UNCHANGED <<state, running, handle, harts, devices, termios_running, hart, aborted>>

run_create ==
  /\ pc["main"] = "run_create"
  /\ handle' = "member"
  /\ pc' = [pc EXCEPT !["main"] = "run_flag", !["work"] = "loop"]
  /\ UNCHANGED <<state, running, harts, devices, termios_running, hart, aborted>>

run_flag ==
  /\ Goto("main", "run_flag", "wait")
  /\ running' = TRUE
  /\ UNCHANGED <<state, handle, harts, devices, termios_running, hart, aborted>>

wait_exchange ==
  /\ Goto("main", "wait", IF running THEN "wait_move" ELSE "wait_done")
  /\ running' = FALSE
  /\ UNCHANGED <<state, handle, harts, devices, termios_running, hart, aborted>>

wait_move ==
  /\ Goto("main", "wait_move", IF handle = "member" THEN "wait_join" ELSE "wait_done")
  /\ handle' = IF handle = "member" THEN "main" ELSE handle
  /\ UNCHANGED <<state, running, harts, devices, termios_running, hart, aborted>>

\* Mutant of wait_join: the local thread object is detached instead.
wait_detach ==
  /\ Goto("main", "wait_join", "wait_done")
  /\ handle' = "none"
  /\ UNCHANGED <<state, running, harts, devices, termios_running, hart, aborted>>

wait_join ==
  /\ Goto("main", "wait_join", "wait_done")
  /\ pc["work"] = "ended"
  /\ handle' = "none"
  /\ UNCHANGED <<state, running, harts, devices, termios_running, hart, aborted>>
-----------------------------------------------------------------------------
(***************************************************************************)
(* The rest of main(), and ~Machine.                                       *)
(***************************************************************************)
main_end_term ==
  /\ Goto("main", "wait_done", "join_term")
  /\ termios_running' = FALSE
  /\ UNCHANGED <<state, running, handle, harts, devices, hart, aborted>>

main_join_term ==
  /\ Goto("main", "join_term", "stop")
  /\ pc["term"] = "ended"
  /\ UNCHANGED <<state, running, handle, harts, devices, termios_running, hart, aborted>>

destroy_devices ==
  /\ Goto("main", "destroy_devices", "join_clint")
  /\ devices' = FALSE
  /\ UNCHANGED <<state, running, handle, harts, termios_running, hart, aborted>>

\* Mutant of join_clint: the destructor of the CLINT does not wait for its thread.
join_clint_detached ==
  /\ Goto("main", "join_clint", "destroy_harts")
  /\ UNCHANGED <<state, running, handle, harts, devices, termios_running, hart, aborted>>

join_clint ==
  /\ Goto("main", "join_clint", "destroy_harts")
  /\ pc["clint"] = "ended"
  /\ UNCHANGED <<state, running, handle, harts, devices, termios_running, hart, aborted>>

destroy_harts ==
  /\ Goto("main", "destroy_harts", "destroy_members")
  /\ harts' = 0
  /\ UNCHANGED <<state, running, handle, devices, termios_running, hart, aborted>>

\* The member work_thread goes last: destroying a joinable thread terminates.
destroy_members ==
  /\ Goto("main", "destroy_members", "ended")
  /\ aborted' = (handle = "member")
  /\ UNCHANGED <<state, running, handle, harts, devices, termios_running, hart>>

main_next ==
  \/ run_refused \/ run_store \/ run_create \/ run_flag
  \/ wait_exchange \/ wait_move \/ wait_join
  \/ main_end_term \/ main_join_term \/ stop("main")
  \/ destroy_devices \/ join_clint \/ destroy_harts \/ destroy_members
-----------------------------------------------------------------------------
(***************************************************************************)
(* The terminal thread: stop() on the combination, then it ends.           *)
(***************************************************************************)
term_combo ==
  /\ StopMayCome
  /\ Goto("term", "poll", "stop")
  /\ termios_running
  /\ UNCHANGED <<state, running, handle, harts, devices, termios_running, hart, aborted>>

term_exit ==
  /\ Goto("term", "poll", "ended")
  /\ ~termios_running
  /\ UNCHANGED <<state, running, handle, harts, devices, termios_running, hart, aborted>>

term_next == term_combo \/ term_exit \/ stop("term")
-----------------------------------------------------------------------------
(***************************************************************************)
(* The work thread.                                                        *)
(***************************************************************************)
\* The head of the loop: Off ends it, Resetting rebuilds the machine, Running
\* executes a batch of instructions on every hart.
work_loop ==
  /\ \E to \in {"work_end", "reset_destroy", "batch"} :
       /\ Goto("work", "loop", to)
       /\ to = CASE state = "Off"       -> "work_end"
                 [] state = "Resetting" -> "reset_destroy"
                 [] state = "Running"   -> "batch"
  /\ UNCHANGED <<state, running, handle, harts, devices, termios_running, hart, aborted>>

batch_end ==
  /\ Goto("work", "batch", "loop")
  /\ UNCHANGED <<state, running, handle, harts, devices, termios_running, hart, aborted>>

\* SYSCON 0x5555: stop() on the work thread.
guest_poweroff ==
  /\ "poweroff" \in GuestOps
  /\ StopMayCome
  /\ Goto("work", "batch", "stop")
  /\ UNCHANGED <<state, running, handle, harts, devices, termios_running, hart, aborted>>

\* SYSCON 0x7777: reset() on the work thread looks at the state ...
guest_reset ==
  /\ "reset" \in GuestOps
  /\ Goto("work", "batch", IF state = "Off" THEN "off_destroy" ELSE "reset_request")
  /\ UNCHANGED <<state, running, handle, harts, devices, termios_running, hart, aborted>>

\* ... and asks the loop to reset ...
reset_request ==
  /\ Goto("work", "reset_request", "batch")
  /\ state' = "Resetting"
  /\ UNCHANGED <<running, handle, harts, devices, termios_running, hart, aborted>>

\* ... or, after a power off in the same batch, resets on the spot.
off_destroy ==
  /\ Goto("work", "off_destroy", "off_rebuild")
  /\ harts' = 0
  /\ UNCHANGED <<state, running, handle, devices, termios_running, hart, aborted>>

off_rebuild ==
  /\ Goto("work", "off_rebuild", IF harts < MachineHarts THEN "off_rebuild" ELSE "batch")
  /\ IF harts < MachineHarts
     THEN harts' = harts + 1 /\ UNCHANGED state
     ELSE state' = "Running" /\ UNCHANGED harts
  /\ UNCHANGED <<running, handle, devices, termios_running, hart, aborted>>

\* The reset branch of the loop: harts, memory and caches are emptied, the images
\* loaded again, the harts built one after the other, and the state stored.
reset_destroy ==
  /\ Goto("work", "reset_destroy", "reset_rebuild")
  /\ harts' = 0
  /\ UNCHANGED <<state, running, handle, devices, termios_running, hart, aborted>>

reset_rebuild ==
  /\ Goto("work", "reset_rebuild", IF harts < MachineHarts THEN "reset_rebuild" ELSE "loop")
  /\ IF harts < MachineHarts
     THEN harts' = harts + 1 /\ UNCHANGED state
     ELSE state' = "Running" /\ UNCHANGED harts
  /\ UNCHANGED <<running, handle, devices, termios_running, hart, aborted>>

work_end ==
  /\ Goto("work", "work_end", "ended")
  /\ running' = FALSE
  /\ UNCHANGED <<state, handle, harts, devices, termios_running, hart, aborted>>

work_next ==
  \/ work_loop \/ batch_end \/ guest_poweroff \/ guest_reset \/ reset_request
  \/ off_destroy \/ off_rebuild \/ reset_destroy \/ reset_rebuild
  \/ work_end \/ stop("work")
-----------------------------------------------------------------------------
(***************************************************************************)
(* The CLINT thread.                                                       *)
(***************************************************************************)
clint_check ==
  /\ Goto("clint", "check", IF devices THEN "poke" ELSE "ended")
  /\ hart' = 0
  /\ UNCHANGED <<state, running, handle, harts, devices, termios_running, aborted>>

\* update_mip for one hart: get_hart is harts.at, which throws when there is no such
\* hart, and nothing catches it on this thread.
clint_poke ==
  /\ Goto("clint", "poke", IF hart + 1 < MachineHarts THEN "poke" ELSE "check")
  /\ aborted' = (hart >= harts)
  /\ hart' = hart + 1
  /\ UNCHANGED <<state, running, handle, harts, devices, termios_running>>

clint_next == clint_check \/ clint_poke
-----------------------------------------------------------------------------
\* The process is over.
Exit == (aborted \/ pc["main"] = "ended") /\ UNCHANGED machineVars

MachineNext ==
  \/ ~aborted /\ (main_next \/ term_next \/ work_next \/ clint_next)
  \/ Exit

\* Every thread is scheduled, a key press and a SYSCON access need not happen, and
\* a batch ends: run_blocks executes at most 0x4000 instructions.
Fairness ==
  /\ WF_machineVars(~aborted /\ main_next)
  /\ WF_machineVars(~aborted /\ (term_exit \/ stop("term")))
  /\ WF_machineVars(~aborted /\ work_next)
  /\ SF_machineVars(~aborted /\ batch_end)
  /\ WF_machineVars(~aborted /\ clint_next)

MachineSpec == MachineInit /\ [][MachineNext]_machineVars

FairSpec == MachineSpec /\ Fairness
-----------------------------------------------------------------------------
MachineTypeOK ==
  /\ state \in {"Off", "Running", "Resetting"}
  /\ running \in BOOLEAN
  /\ handle \in {"none", "member", "main", "term"}
  /\ harts \in 0 .. MachineHarts
  /\ devices \in BOOLEAN
  /\ termios_running \in BOOLEAN
  /\ hart \in 0 .. MachineHarts
  /\ aborted \in BOOLEAN
  /\ pc \in [Threads -> Places]

\* The exchange on work_thread_running makes the std::thread object private: never
\* do two of wait() and stop() sit between the exchange they won and the move
\* (machine.cpp:471-482, 502-513), and run() has finished assigning it by then.
HandleIsPrivate ==
  \A t, u \in Threads :
    pc[t] \in {"wait_move", "stop_move"} =>
      /\ pc["main"] \notin {"run", "run_create", "run_flag"}
      /\ pc[u] \in {"wait_move", "stop_move"} => t = u

\* The process never ends in std::terminate: the CLINT thread finds every hart it
\* turns to, and ~Machine destroys no joinable thread (machine.cpp:52-69).
NeverAborts == ~aborted

\* ~Machine takes the devices and the harts away only when no thread can use them
\* any more: the work thread has ended before the devices go, the CLINT thread
\* before the harts go (machine.cpp:54-56).
DestroyedLast ==
  /\ ~devices => pc["work"] \in {"unborn", "ended"}
  /\ pc["main"] = "destroy_members" => pc["clint"] = "ended"

\* When stop() in ~Machine has returned, the work thread is joined, as the note at
\* machine.hpp:118 says of stop().
StopJoins == pc["main"] = "destroy_devices" => handle # "member"

\* A machine that runs and is stopped from the terminal comes to rest: the work
\* thread leaves its loop and main reaches the end of ~Machine (machine.hpp:117).
StopStops == (state = "Running" /\ pc["term"] = "stop") ~> (pc["main"] = "ended" \/ aborted)
=============================================================================
