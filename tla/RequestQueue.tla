---------------------------- MODULE RequestQueue ----------------------------
(***************************************************************************)
(* What a virtqueue device promises its driver: every request is served    *)
(* once, in the order of submission, by Effect, which maps a request and   *)
(* the store behind the device to the results it gives (one, or none for a *)
(* request the device drops) and the store afterwards.                     *)
(***************************************************************************)
EXTENDS SequencesExt

CONSTANTS
  Submitted,      \* what may be submitted
  Store0,         \* the store at the start
  Effect(_, _)

VARIABLES
  open,           \* the device has been set up
  waiting,        \* the requests submitted and not served
  done,           \* the results the driver has not taken yet
  store

vars == <<open, waiting, done, store>>

Init == open = FALSE /\ waiting = <<>> /\ done = <<>> /\ store = Store0

Open == ~open /\ open' = TRUE /\ UNCHANGED <<waiting, done, store>>

Submit ==
  /\ open /\ UNCHANGED <<open, store>>
  /\ \E w \in {waiting'} : w # <<>> /\ Front(w) = waiting /\ Last(w) \in Submitted
  /\ UNCHANGED done

Serve ==
  LET one(q, r) == [done  |-> q.done \o Effect(r, q.store).results,
                    store |-> Effect(r, q.store).store]
      all == FoldLeft(one, [done |-> done, store |-> store], waiting)
  IN  /\ open /\ UNCHANGED open
      /\ waiting # <<>> /\ waiting' = <<>>
      /\ done' = all.done /\ store' = all.store

Take == open /\ UNCHANGED <<open, store>> /\ done # <<>> /\ done' = Tail(done) /\ UNCHANGED waiting

\* A reset of the device forgets what is under way, never what was stored.
Reset == open /\ open' = FALSE /\ waiting' = <<>> /\ done' = <<>> /\ UNCHANGED store

Next == Open \/ Submit \/ Serve \/ Take \/ Reset

Spec == Init /\ [][Next]_vars
=============================================================================
