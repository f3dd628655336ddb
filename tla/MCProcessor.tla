----------------------------- MODULE MCProcessor -----------------------------
(***************************************************************************)
(* The models of a hart for TLC: its traps, the cadence of its polls, its  *)
(* reservations, its instructions, its CSRs, and the PLIC it is wired to,  *)
(* programmed in any way.  They share no state, so a behaviour is one of   *)
(* theirs: part says whose, and the others hold still.                     *)
(***************************************************************************)
EXTENDS Hart, Cadence, LrSc, Execute, BitManip, Csr

CONSTANT Parts       \* the models in play

VARIABLES part,
          priorities, pending, enables, threshold, line, eip       \* of PLIC

plicVars == <<priorities, pending, enables, threshold, line, eip>>
processorVars == <<part, vars, cadenceVars, lrscVars, execVars, bitVars, csrVars, plicVars>>

P == INSTANCE PLIC WITH NumHarts <- 1, MaxSources <- 3, WordBits <- 2, NumIrqs <- 2, PrioLimit <- 2

HartHeld ==
  /\ mode = Machine /\ WFI = FALSE /\ pc = "code"
  /\ MIE = FALSE /\ MPIE = FALSE /\ MPP = User /\ mepc = "code"
  /\ SIE = FALSE /\ SPIE = FALSE /\ SPP = FALSE /\ sepc = "code" /\ MPRV = FALSE
  /\ ip = {} /\ ie = {} /\ mideleg = {} /\ mframe = {} /\ sframe = {}
CadenceHeld == instret = 0 /\ since = 0 /\ slack = 0
ExecHeld == before = 0 /\ block = <<>> /\ after = 0
CsrHeld == h = 0 /\ done = {} /\ out = 0

ProcessorInit ==
  /\ part \in Parts
  /\ IF part = "hart" THEN Init ELSE HartHeld
  /\ IF part = "cadence" THEN CadenceInit ELSE CadenceHeld
  /\ IF part = "execute" THEN ExecInit ELSE ExecHeld
  /\ IF part = "csr" THEN CsrInit ELSE CsrHeld
  /\ LrScInit /\ BitInit /\ P!Init

\* An instruction has been run: nothing follows in the models of one instruction.
Finished ==
  /\ block # <<>> \/ done # {} \/ run # <<>>
  /\ UNCHANGED <<vars, cadenceVars, lrscVars, execVars, bitVars, csrVars, plicVars>>

ProcessorNext ==
  /\ UNCHANGED part
  /\ \/ part = "hart" /\ UNCHANGED <<cadenceVars, lrscVars, execVars, bitVars, csrVars, plicVars>> /\ Next
     \/ part = "cadence" /\ UNCHANGED <<vars, lrscVars, execVars, bitVars, csrVars, plicVars>> /\ CadenceNext
     \/ part = "lrsc" /\ UNCHANGED <<vars, cadenceVars, execVars, bitVars, csrVars, plicVars>> /\ LrScNext
     \/ part = "execute" /\ UNCHANGED <<vars, cadenceVars, lrscVars, bitVars, csrVars, plicVars>> /\ ExecNext
     \/ part = "bits" /\ UNCHANGED <<vars, cadenceVars, lrscVars, execVars, csrVars, plicVars>> /\ BitNext
     \/ part = "csr" /\ UNCHANGED <<vars, cadenceVars, lrscVars, execVars, bitVars, plicVars>> /\ CsrNext
     \/ part = "plic" /\ UNCHANGED <<vars, cadenceVars, lrscVars, execVars, bitVars, csrVars>> /\ P!Next
     \/ Finished

ProcessorSpec == ProcessorInit /\ [][ProcessorNext]_processorVars

\* The supervisor's fields, which csr_write_sstatus also writes on their own,
\* follow the machine's.
MCStatusWrites == {w \in AllStatus : w.sie = w.mie /\ w.spie = w.mpie}
MCRam == 8 .. 23
MCOperands == (0 .. 9) \cup {15, 16, 77, 85, 127, 128, 136, 200, 255}
MCOffsets == {-6, 0, 4, 7}

------------------------------------------------------------------------------
(* Properties. *)

\* However the guest programs the PLIC, a context that could claim has its
\* line up (PLIC!NoLostInterrupt).
NoLostInterrupt == part = "plic" => P!NoLostInterrupt
=============================================================================
