------------------------------- MODULE MCPLIC -------------------------------
(***************************************************************************)
(* The PLIC with one hart (a machine and a supervisor context) for TLC.    *)
(***************************************************************************)
EXTENDS PLICRouted, SequencesExt

\* Odd sources go to the machine context, even ones to the supervisor context.
MCRoute == [s \in Sources |-> IF s % 2 = 1 THEN 0 ELSE 1]

\* Mutant of scan: a later source of the same priority wins.
scan_last(c) ==
  LET best(b, id) ==
        IF /\ id \in pending \cap enables[c] /\ id \in Sources
           /\ priorities[id] > threshold[c]
           /\ priorities[id] >= b.prio
        THEN [id |-> id, prio |-> priorities[id]]
        ELSE b
  IN  FoldLeft(best, [id |-> 0, prio |-> 0], [i \in Sources |-> i]).id

\* The loop of find_highest_pending_enabled: the words and their bits in ascending
\* order, with the best id and priority so far.
scan(c) ==
  LET best(b, id) ==
        IF /\ id \in pending \cap enables[c] /\ id \in Sources
           /\ priorities[id] > threshold[c]
           /\ \/ priorities[id] > b.prio
              \/ priorities[id] = b.prio /\ id < b.id
        THEN [id |-> id, prio |-> priorities[id]]
        ELSE b
  IN  FoldLeft(best, [id |-> 0, prio |-> 0], [i \in Sources |-> i]).id

\* The scan returns the lowest id of the highest priority among what the context
\* may claim, and 0 only when there is nothing: no priority at or under the
\* threshold, and no tie, confuses it (plic.cpp:253-287).
ScanFindsBest == \A c \in Contexts : scan(c) = find_highest_pending_enabled(c)
=============================================================================
