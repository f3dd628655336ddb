-------------------------------- MODULE Uart --------------------------------
(***************************************************************************)
(* The 16550 UART (src/devices/uart.cpp).  The hart calls read and write,  *)
(* the terminal thread calls receive_byte, and nothing orders the two: a   *)
(* handler is a first step, its branch on the state, followed by the       *)
(* micro-steps left in uart_todo.  Every lsr |= m and lsr &= ~m is a load  *)
(* and a store, update_iir calculates and then posts.  Push and pop of the *)
(* queue are one step each.                                                *)
(***************************************************************************)
EXTENDS Integers, Sequences

CONSTANTS FIFO,        \* 512
          MaxBytes     \* bytes the terminal sends

ASSUME UartAssumption == FIFO \in Nat \ {0} /\ MaxBytes \in Nat

VARIABLES fifo_buffer, fifo_enabled, rhr, lsr, ier, iir, dlab,
          uart_line,   \* the level given to PLIC::set_pending
          uart_todo,   \* thread -> micro-steps left of its handler
          tmp,         \* thread -> what it loaded from lsr or calculated
          sent,        \* bytes the terminal has sent: 1, 2, ...
          saw,         \* the guest's last read of LSR had DATA_READY
          got,         \* the last two bytes it read from RHR
          raced,       \* two handlers have overlapped
          queued       \* the FIFO was on for every byte so far
uartVars == <<fifo_buffer, fifo_enabled, rhr, lsr, ier, iir, dlab, uart_line, uart_todo, tmp, sent, saw, got,
              raced, queued>>

UartThreads == {"hart", "term"}
load == <<"load", "lsr">>
Set(b) == <<load, <<"set", b>>>>       \* lsr |= b; THR_EMPTY and TEMT are always set
Reset(b) == <<load, <<"reset", b>>>>
update_iir == <<<<"calc", "iir">>, <<"post", "iir">>>>

calc_iir_locked ==
  IF "RX" \in ier /\ "DR" \in lsr THEN "RX" ELSE IF "TX" \in ier THEN "THR" ELSE "NONE"

UartInit ==
  /\ fifo_buffer = <<>> /\ fifo_enabled = FALSE /\ rhr = 0
  /\ lsr = {} /\ ier = {} /\ iir = "NONE" /\ dlab = FALSE /\ uart_line = FALSE
  /\ uart_todo = [t \in UartThreads |-> <<>>] /\ tmp = [t \in UartThreads |-> {}]
  /\ sent = 0 /\ saw = FALSE /\ got = <<0, 0>> /\ raced = FALSE /\ queued = TRUE

UartIdle(t) == uart_todo[t] = <<>>
Overlap(t) == raced' = (raced \/ \E u \in UartThreads \ {t} : ~UartIdle(u))
Enter(t, steps) == UartIdle(t) /\ uart_todo' = [uart_todo EXCEPT ![t] = steps] /\ Overlap(t)
At(t, kind) == ~UartIdle(t) /\ Head(uart_todo[t])[1] = kind
Then(t, steps) == uart_todo' = [uart_todo EXCEPT ![t] = steps \o Tail(@)] /\ Overlap(t)

\* One micro-step of lsr or of update_iir.
step(t) ==
  /\ \E k \in {"load", "set", "reset", "calc", "post"} : At(t, k)
  /\ LET kind == Head(uart_todo[t])[1]
         arg == Head(uart_todo[t])[2]
     IN /\ tmp' = [tmp EXCEPT ![t] = CASE kind = "load" -> lsr
                                       [] kind = "calc" -> {calc_iir_locked}
                                       [] OTHER -> {}]
        /\ lsr' = CASE kind = "set" -> tmp[t] \cup {arg}
                    [] kind = "reset" -> tmp[t] \ {arg}
                    [] OTHER -> lsr
        /\ iir' = IF kind = "post" THEN CHOOSE i \in tmp[t] : TRUE ELSE iir
        /\ uart_line' = IF kind = "post" THEN tmp[t] # {"NONE"} ELSE uart_line
  /\ Then(t, <<>>)
  /\ UNCHANGED <<fifo_buffer, fifo_enabled, rhr, ier, dlab, sent, saw, got, queued>>

\* receive_byte: the overflow test, then the byte is kept or dropped.
receive_byte ==
  /\ sent < MaxBytes
  /\ sent' = sent + 1
  /\ Enter("term", IF fifo_enabled /\ Len(fifo_buffer) >= FIFO THEN Set("OE")
                   ELSE <<<<"keep", "byte">>>> \o update_iir)
  /\ UNCHANGED <<fifo_buffer, fifo_enabled, rhr, lsr, ier, iir, dlab, uart_line, tmp, saw, got, queued>>

\* Mutant: the newest byte goes to the front of the queue.
push_byte_front(q, b) == <<b>> \o q
push_byte(q, b) == Append(q, b)
keep_byte ==
  /\ At("term", "keep")
  /\ fifo_buffer' = IF fifo_enabled THEN push_byte(fifo_buffer, sent) ELSE fifo_buffer
  /\ rhr' = IF fifo_enabled \/ "DR" \in lsr THEN rhr ELSE sent
  /\ Then("term", IF ~fifo_enabled /\ "DR" \in lsr THEN Set("OE") \o Set("DR") ELSE Set("DR"))
  /\ queued' = (queued /\ fifo_enabled)
  /\ UNCHANGED <<fifo_enabled, lsr, ier, iir, dlab, uart_line, tmp, sent, saw, got>>

\* The guest looks at LSR, and reads RHR when it shows a byte.
read_LSR ==
  /\ Enter("hart", <<>>)
  /\ saw' = ("DR" \in lsr)
  /\ UNCHANGED <<fifo_buffer, fifo_enabled, rhr, lsr, ier, iir, dlab, uart_line, tmp, sent, got, queued>>

\* Mutant: the queue is tested for being empty before the byte is taken.
drained_before(q) == q = <<>>
drained(q) == Len(q) = 1     \* after the pop the queue is empty
read_RHR ==
  /\ ~dlab /\ saw
  /\ saw' = FALSE
  /\ LET empty == fifo_buffer = <<>>
         value == IF ~fifo_enabled THEN rhr ELSE IF empty THEN 0 ELSE Head(fifo_buffer)
     IN /\ got' = IF value = 0 THEN got ELSE <<got[2], value>>
        /\ fifo_buffer' = IF fifo_enabled /\ ~empty THEN Tail(fifo_buffer) ELSE fifo_buffer
        /\ Enter("hart", (IF ~fifo_enabled \/ drained(fifo_buffer) THEN Reset("DR") ELSE <<>>)
                         \o <<<<"overrun", "lsr">>>> \o update_iir)
  /\ UNCHANGED <<fifo_enabled, rhr, lsr, ier, iir, dlab, uart_line, tmp, sent, queued>>

overrun_reset ==
  /\ At("hart", "overrun")
  /\ Then("hart", IF "OE" \in lsr THEN Reset("OE") ELSE <<>>)
  /\ UNCHANGED <<fifo_buffer, fifo_enabled, rhr, lsr, ier, iir, dlab, uart_line, tmp, sent, saw, got, queued>>

\* A read of IIR recomputes it only where nothing is left to report.
read_IIR ==
  /\ Enter("hart", IF iir # "NONE" /\ calc_iir_locked = "NONE" THEN update_iir ELSE <<>>)
  /\ UNCHANGED <<fifo_buffer, fifo_enabled, rhr, lsr, ier, iir, dlab, uart_line, tmp, sent, saw, got, queued>>

\* THR goes to the host's stream.
write_THR ==
  /\ ~dlab
  /\ Enter("hart", update_iir)
  /\ UNCHANGED <<fifo_buffer, fifo_enabled, rhr, lsr, ier, iir, dlab, uart_line, tmp, sent, saw, got, queued>>

write_IER(v) ==
  /\ ~dlab
  /\ ier' = v
  /\ Enter("hart", update_iir)
  /\ UNCHANGED <<fifo_buffer, fifo_enabled, rhr, lsr, iir, dlab, uart_line, tmp, sent, saw, got, queued>>

\* FCR switches the FIFO on, taking the byte of RHR along, or off, keeping
\* the first byte only; bit 1 clears it.
write_FCR(on, clear) ==
  LET enter == on /\ ~fifo_enabled /\ "DR" \in lsr
      leave == ~on /\ fifo_enabled /\ fifo_buffer # <<>>
      kept == IF enter THEN Append(fifo_buffer, rhr) ELSE IF leave THEN <<>> ELSE fifo_buffer
  IN /\ fifo_enabled' = on
     /\ rhr' = IF leave THEN Head(fifo_buffer) ELSE rhr
     /\ fifo_buffer' = IF clear THEN <<>> ELSE kept
     /\ Enter("hart", (IF enter \/ leave THEN Set("DR") ELSE <<>>)
                      \o (IF clear THEN Reset("DR") \o update_iir ELSE <<>>))
     /\ queued' = (queued /\ (on \/ sent = 0))
     /\ saw' = FALSE
     /\ UNCHANGED <<lsr, ier, iir, dlab, uart_line, tmp, sent, got>>

write_LCR(d) ==
  /\ dlab' = d
  /\ Enter("hart", <<>>)
  /\ UNCHANGED <<fifo_buffer, fifo_enabled, rhr, lsr, ier, iir, uart_line, tmp, sent, saw, got, queued>>

UartNext ==
  \/ receive_byte \/ keep_byte
  \/ read_LSR \/ read_RHR \/ overrun_reset \/ read_IIR \/ write_THR
  \/ \E v \in SUBSET {"RX", "TX"} : write_IER(v)
  \/ \E on, clear \in BOOLEAN : write_FCR(on, clear)
  \/ \E d \in BOOLEAN : write_LCR(d)
  \/ \E t \in UartThreads : step(t)

UartSpec == UartInit /\ [][UartNext]_uartVars

------------------------------------------------------------------------------
(* Properties. *)

Quiet == \A t \in UartThreads : UartIdle(t)

\* While no receive_byte has overlapped a handler of the hart, between handlers
\* DATA_READY says exactly whether a byte waits (in FIFO mode when the queue is
\* not empty, and a queue switched off holds nothing), and IIR and the level at
\* the PLIC are those that IER and LSR call for: no handler forgets update_iir.
StatusCurrent ==
  Quiet /\ ~raced =>
    /\ fifo_enabled => ("DR" \in lsr <=> fifo_buffer # <<>>)
    /\ ~fifo_enabled => fifo_buffer = <<>>
    /\ iir = calc_iir_locked /\ uart_line = (calc_iir_locked # "NONE")

\* With the FIFO on, no interleaving of the terminal thread with the hart
\* makes the guest read a byte twice or out of order (a 0 is the answer of an
\* empty FIFO); with RHR alone that holds only while no handlers overlap,
\* receive_byte's lsr |= OE bringing back the DATA_READY a read has cleared.
BytesInOrder == ~raced \/ queued => got[2] = 0 \/ got[1] < got[2]
=============================================================================
