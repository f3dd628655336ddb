------------------------------ MODULE Cadence -------------------------------
(***************************************************************************)
(* How often a running hart looks for interrupts (src/hart.cpp Hart::tick, *)
(* src/block.cpp Hart::run_blocks).  The code looks where the bits 0x2FFF  *)
(* of instret are all zero, and after a block or a compiled chain that     *)
(* carries those bits past 0x3000.  Q is the 0x1000 of the code, and       *)
(* instret is kept modulo 4 * Q, which is all the mask can see.            *)
(***************************************************************************)
EXTENDS Naturals

CONSTANTS
  Q,          \* a quarter of the period
  BlockMax,   \* BLOCK_MAX_INSTS
  ChainMax,   \* the longest compiled chain: CHAIN_CADENCE and the block that spends it
  MaxMissed   \* bound: how many polls in a row faulting blocks may skip

ASSUME CadenceAssumption ==
  /\ Q \in Nat \ {0} /\ BlockMax \in Nat \ {0} /\ ChainMax \in Nat \ {0} /\ MaxMissed \in Nat
  /\ BlockMax <= Q /\ ChainMax < 4 * Q

VARIABLES
  instret,
  since,      \* history: instructions retired since the hart last looked at ip
  slack       \* history: one period for every poll a faulting block skipped

cadenceVars == <<instret, since, slack>>

\* Nothing sets instret when a hart is built.
CadenceInit == instret \in 0 .. 4 * Q - 1 /\ since = 0 /\ slack = 0

WrapInstret(n) == IF n >= 4 * Q THEN n - 4 * Q ELSE n

\* instret & 0x2FFF: the bit of weight Q is dropped.
masked(n) == IF n < Q \/ (2 * Q <= n /\ n < 3 * Q) THEN n ELSE n - Q

\* The two histories after the poll at the head of the loop.
polled_since == IF masked(instret) = 0 THEN 0 ELSE since
polled_slack == IF masked(instret) = 0 THEN 0 ELSE slack

\* Mutant of carries: the whole period instead of its masked part.
carries_late(executed) == masked(instret) + executed >= 4 * Q

\* The poll after `executed' instructions.
carries(executed) == masked(instret) + executed >= 3 * Q

dispatch(executed) ==
  /\ instret' = WrapInstret(instret + executed)
  /\ since' = IF carries(executed) THEN 0 ELSE polled_since + executed
  /\ slack' = IF carries(executed) THEN 0 ELSE polled_slack

\* A block of the interpreter.
run_blocks == \E executed \in 1 .. BlockMax : dispatch(executed)

\* A chain of compiled blocks.
jit_chain == \E executed \in 1 .. ChainMax : dispatch(executed)

\* A block whose instruction number `executed' faults: trap and leave, no second poll.
run_block_fault ==
  \E executed \in 0 .. BlockMax - 1 :
    LET skips == instret + executed >= 4 * Q
    IN  /\ skips => polled_slack < MaxMissed * (4 * Q)
        /\ instret' = WrapInstret(instret + executed)
        /\ since' = polled_since + executed
        /\ slack' = polled_slack + (IF skips THEN 4 * Q ELSE 0)

\* One instruction by Hart::tick; a faulting one does not count.
tick ==
  \E executed \in {0, 1} :
    /\ instret' = WrapInstret(instret + executed)
    /\ since' = polled_since + executed
    /\ slack' = polled_slack

CadenceNext == run_blocks \/ jit_chain \/ run_block_fault \/ tick

CadenceSpec == CadenceInit /\ [][CadenceNext]_cadenceVars
-----------------------------------------------------------------------------
CadenceTypeOK == instret \in 0 .. 4 * Q - 1 /\ since \in Nat /\ slack \in Nat

\* However ticks, blocks and compiled chains follow one another, the hart looks at its
\* interrupts at least once in four quarters (0x4000 instructions) of what it retires,
\* and a block that faults on the boundary costs one more period, no more
\* (hart.cpp:107, block.cpp:194, 376, 444).
PollBound == since <= 4 * Q + slack
=============================================================================
