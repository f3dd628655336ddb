---------------------------- MODULE UartProofs ----------------------------
(***************************************************************************)
(* Proofs about the UART, for every size of its FIFO: the terminal thread  *)
(* and the hart interleaved at every load and store of the line status.    *)
(***************************************************************************)
EXTENDS Uart, SequenceTheorems, TLAPS

------------------------------------------------------------------------------
(* Sequences. *)

Pre(a, s) == <<a>> \o s
Two(a, b, s) == <<a, b>> \o s

\* A sequence with a step put in front of it.
LEMMA Prefixed ==
  ASSUME NEW S, NEW a \in S, NEW s \in Seq(S)
  PROVE  <<a>> \o s \in Seq(S) /\ <<a>> \o s # <<>> /\ Head(<<a>> \o s) = a /\ Tail(<<a>> \o s) = s
  <1>1. <<a>> \in Seq(S) /\ Len(<<a>>) = 1 /\ <<a>>[1] = a
    OBVIOUS
  <1>2. PICK t : t = <<a>> \o s
    OBVIOUS
  <1>3. t \in Seq(S) /\ Len(t) = 1 + Len(s) /\ \A i \in 1 .. (1 + Len(s)) : t[i] = IF i <= 1 THEN a ELSE s[i - 1]
    BY <1>1, <1>2, ConcatProperties
  <1>4. Len(s) \in Nat
    BY LenProperties
  <1>5. t # <<>> /\ t[1] = a
    BY <1>3, <1>4
  <1>6. Tail(t) \in Seq(S) /\ Len(Tail(t)) = Len(s) /\ \A i \in 1 .. Len(s) : Tail(t)[i] = t[i + 1]
    BY <1>3, <1>4, <1>5, HeadTailProperties
  <1>7. \A i \in 1 .. Len(s) : t[i + 1] = s[i]
    BY <1>3, <1>4
  <1>8. Tail(t) = s
    BY <1>6, <1>7, SeqEqual
  <1> QED BY <1>2, <1>3, <1>5, <1>8

\* A sequence with two steps put in front of it, as a load and a store are.
LEMMA PairPrefixed ==
  ASSUME NEW S, NEW a \in S, NEW b \in S, NEW s \in Seq(S)
  PROVE  Two(a, b, s) = Pre(a, Pre(b, s))
  <1>1. <<a>> \in Seq(S) /\ <<b>> \in Seq(S) /\ <<a, b>> \in Seq(S)
    OBVIOUS
  <1>2. PICK t : t = <<a>> \o <<b>>
    OBVIOUS
  <1>3. t \in Seq(S) /\ Len(t) = 2 /\ \A i \in 1 .. 2 : t[i] = IF i <= 1 THEN <<a>>[i] ELSE <<b>>[i - 1]
    <2>1. Len(<<a>>) = 1 /\ Len(<<b>>) = 1
      OBVIOUS
    <2> QED BY <1>1, <1>2, <2>1, ConcatProperties
  <1>4. Len(<<a, b>>) = 2 /\ \A i \in 1 .. 2 : t[i] = <<a, b>>[i]
    BY <1>3
  <1>5. t = <<a, b>>
    BY <1>1, <1>3, <1>4, SeqEqual
  <1>6. t \o s = <<a>> \o (<<b>> \o s)
    BY <1>1, <1>2, ConcatAssociative
  <1> QED BY <1>5, <1>6 DEF Two, Pre

------------------------------------------------------------------------------
(* The micro-steps a handler of the UART has left. *)

Steps == {"load", "set", "reset", "calc", "post", "keep", "overrun"} \X {"lsr", "iir", "byte", "DR", "OE"}
post == <<"post", "iir">>
calc == <<"calc", "iir">>
keep == <<"keep", "byte">>
overrun == <<"overrun", "lsr">>
sD == <<"set", "DR">>
sO == <<"set", "OE">>
rD == <<"reset", "DR">>
rO == <<"reset", "OE">>
U1 == Pre(post, <<>>)
U2 == Pre(calc, U1)
Ld(x, s) == Pre(load, Pre(x, s))

\* The steps are pairs of a kind and an argument.
LEMMA StepKinds ==
  /\ load \in Steps /\ post \in Steps /\ calc \in Steps /\ keep \in Steps /\ overrun \in Steps
  /\ sD \in Steps /\ sO \in Steps /\ rD \in Steps /\ rO \in Steps
  /\ load[1] = "load" /\ post[1] = "post" /\ calc[1] = "calc" /\ keep[1] = "keep" /\ overrun[1] = "overrun"
  /\ sD[1] = "set" /\ sO[1] = "set" /\ rD[1] = "reset" /\ rO[1] = "reset"
  /\ sD[2] = "DR" /\ sO[2] = "OE" /\ rD[2] = "DR" /\ rO[2] = "OE"
  BY DEF Steps, load, post, calc, keep, overrun, sD, sO, rD, rO

\* What is left when the first step is done.
LEMMA PreFacts ==
  ASSUME NEW x \in Steps, NEW s \in Seq(Steps)
  PROVE  Pre(x, s) \in Seq(Steps) /\ Pre(x, s) # <<>> /\ Head(Pre(x, s)) = x /\ Tail(Pre(x, s)) = s
  BY Prefixed DEF Pre

\* A load and its store put in front of other steps, one after the other.
LEMMA StepPair ==
  ASSUME NEW x \in Steps, NEW y \in Steps, NEW s \in Seq(Steps)
  PROVE  Two(x, y, s) = Pre(x, Pre(y, s))
  BY PairPrefixed

\* A read-modify-write of lsr in front of other steps.
LEMMA LdFacts ==
  ASSUME NEW x \in Steps, NEW s \in Seq(Steps)
  PROVE  /\ Ld(x, s) \in Seq(Steps) /\ Ld(x, s) # <<>>
         /\ Two(load, x, s) = Ld(x, s)
  <1>1. load \in Steps
    BY StepKinds
  <1>2. Two(load, x, s) = Ld(x, s)
    BY <1>1, StepPair, Zenon DEF Ld
  <1>3. Pre(x, s) \in Seq(Steps)
    BY PreFacts
  <1>4. Ld(x, s) \in Seq(Steps) /\ Ld(x, s) # <<>>
    BY <1>1, <1>3, PreFacts DEF Ld
  <1> QED BY <1>2, <1>4

\* lsr |= m, lsr &= ~m and update_iir as the handlers write them.
LEMMA Listings ==
  /\ <<>> \in Seq(Steps) /\ U1 \in Seq(Steps) /\ U2 \in Seq(Steps)
  /\ update_iir = U2
  /\ Set("OE") = Ld(sO, <<>>)
  /\ \A s \in Seq(Steps) : /\ Set("DR") \o s = Ld(sD, s) /\ Set("OE") \o s = Ld(sO, s)
                           /\ Reset("DR") \o s = Ld(rD, s) /\ Reset("OE") \o s = Ld(rO, s)
                           /\ <<keep>> \o s = Pre(keep, s) /\ <<overrun>> \o s = Pre(overrun, s)
                           /\ <<>> \o s = s
  /\ Set("DR") \in Seq(Steps) /\ Set("OE") \in Seq(Steps) /\ Reset("DR") \in Seq(Steps) /\ Reset("OE") \in Seq(Steps)
  <1>1. <<>> \in Seq(Steps)
    OBVIOUS
  <1>2. U1 \in Seq(Steps) /\ U2 \in Seq(Steps)
    BY <1>1, StepKinds, PreFacts DEF U1, U2
  <1>3. /\ Set("DR") = <<load, sD>> /\ Set("OE") = <<load, sO>>
        /\ Reset("DR") = <<load, rD>> /\ Reset("OE") = <<load, rO>>
    BY DEF Set, Reset, sD, sO, rD, rO
  <1>4. \A x \in Steps : <<load, x>> \in Seq(Steps)
    BY StepKinds
  <1>5. Set("DR") \in Seq(Steps) /\ Set("OE") \in Seq(Steps) /\ Reset("DR") \in Seq(Steps) /\ Reset("OE") \in Seq(Steps)
    BY <1>3, <1>4, StepKinds
  <1>6. \A s \in Seq(Steps) : /\ Set("DR") \o s = Ld(sD, s) /\ Set("OE") \o s = Ld(sO, s)
                              /\ Reset("DR") \o s = Ld(rD, s) /\ Reset("OE") \o s = Ld(rO, s)
    <2>1. ASSUME NEW s \in Seq(Steps)
          PROVE  /\ Two(load, sD, s) = Ld(sD, s) /\ Two(load, sO, s) = Ld(sO, s)
                 /\ Two(load, rD, s) = Ld(rD, s) /\ Two(load, rO, s) = Ld(rO, s)
      BY LdFacts, StepKinds, Zenon
    <2> QED BY <1>3, <2>1 DEF Two
  <1>7. Set("OE") = Set("OE") \o <<>>
    BY <1>5, ConcatEmptySeq
  <1>8. update_iir = U2
    <2>1. Two(calc, post, <<>>) = Pre(calc, Pre(post, <<>>))
      BY <1>1, StepKinds, StepPair, Zenon
    <2>2. <<calc, post>> \in Seq(Steps)
      BY StepKinds
    <2>3. <<calc, post>> \o <<>> = <<calc, post>>
      BY <2>2, ConcatEmptySeq
    <2>4. update_iir = <<calc, post>>
      BY DEF update_iir, calc, post
    <2> QED BY <2>1, <2>3, <2>4 DEF U2, U1, Two
  <1>9. \A s \in Seq(Steps) : <<>> \o s = s
    BY ConcatEmptySeq
  <1> QED BY <1>1, <1>2, <1>5, <1>6, <1>7, <1>8, <1>9 DEF Pre

------------------------------------------------------------------------------
(* The plans of the UART's handlers. *)

\* receive_byte: keep the byte, or record the overrun; the byte is there.
Keep == Pre(keep, U2)
Ready == Ld(sD, U2)
\* read_RHR after its reset of DATA_READY; write_FCR's clearing.
Overrun == Pre(overrun, U2)
Clear == Ld(rD, U2)

\* The plans in which DATA_READY is not about to be set, and those in which it is.
Calm == {<<>>, Ld(sO, <<>>), Pre(sO, <<>>), U2, U1, Ld(rD, Overrun), Pre(rD, Overrun), Overrun,
         Ld(rO, U2), Pre(rO, U2), Clear, Pre(rD, U2)}
Setting == {Ld(sO, Ready), Pre(sO, Ready), Ready, Pre(sD, U2), Ld(sD, <<>>), Pre(sD, <<>>),
            Ld(sD, Clear), Pre(sD, Clear)}

\* A load and a store left, with what they begin with and what they leave.
LEMMA Loading ==
  ASSUME NEW x \in Steps, NEW s \in Seq(Steps)
  PROVE  /\ Ld(x, s) \in Seq(Steps) /\ Ld(x, s) # <<>> /\ Head(Ld(x, s)) = load /\ Tail(Ld(x, s)) = Pre(x, s)
         /\ Pre(x, s) \in Seq(Steps) /\ Pre(x, s) # <<>> /\ Head(Pre(x, s)) = x /\ Tail(Pre(x, s)) = s
  <1>1. /\ Pre(x, s) \in Seq(Steps) /\ Pre(x, s) # <<>> /\ Head(Pre(x, s)) = x /\ Tail(Pre(x, s)) = s
    BY PreFacts, Zenon
  <1> QED BY <1>1, PreFacts, StepKinds, Zenon DEF Ld

\* The plans are sequences of steps.
LEMMA PlanTypes ==
  /\ <<>> \in Seq(Steps) /\ U1 \in Seq(Steps) /\ U2 \in Seq(Steps) /\ Keep \in Seq(Steps)
  /\ Ready \in Seq(Steps) /\ Overrun \in Seq(Steps) /\ Clear \in Seq(Steps)
  <1>1. <<>> \in Seq(Steps) /\ U1 \in Seq(Steps) /\ U2 \in Seq(Steps)
    BY Listings, Zenon
  <1>2. Keep \in Seq(Steps) /\ Overrun \in Seq(Steps)
    BY <1>1, StepKinds, PreFacts, Zenon DEF Keep, Overrun
  <1>3. Ready \in Seq(Steps) /\ Clear \in Seq(Steps)
    BY <1>1, StepKinds, Loading, Zenon DEF Ready, Clear
  <1> QED BY <1>1, <1>2, <1>3, Zenon

\* The plans that end in update_iir, or are one step of it.
LEMMA ShortPlans ==
  /\ U1 # <<>> /\ Head(U1) = post /\ Tail(U1) = <<>>
  /\ U2 # <<>> /\ Head(U2) = calc /\ Tail(U2) = U1
  /\ Keep # <<>> /\ Head(Keep) = keep /\ Tail(Keep) = U2
  /\ Overrun # <<>> /\ Head(Overrun) = overrun /\ Tail(Overrun) = U2
  BY PlanTypes, StepKinds, PreFacts, Zenon DEF U1, U2, Keep, Overrun

\* The plan of a step: what a plan is when it begins so.
LEMMA PlansClosed ==
  /\ Calm \subseteq Seq(Steps) /\ Setting \subseteq Seq(Steps)
  /\ \A p \in Calm : /\ p # <<>> => Tail(p) \in Calm
                     /\ p # <<>> => Head(p) \in Steps /\ Head(p) # sD /\ Head(p)[1] # "keep"
                     /\ p # <<>> /\ Head(p)[1] = "overrun" => p = Overrun
  /\ \A p \in Setting : /\ p # <<>> /\ Tail(p) \in Calm \cup Setting
                        /\ Head(p) \in Steps /\ Head(p)[1] # "keep" /\ Head(p)[1] # "overrun"
  /\ Keep \notin Calm /\ Keep \notin Setting
  <1>1. ASSUME NEW x \in {sO, sD, rD, rO}, NEW s \in {<<>>, U2, Overrun, Ready, Clear}
        PROVE  /\ Ld(x, s) \in Seq(Steps) /\ Ld(x, s) # <<>> /\ Head(Ld(x, s)) = load /\ Tail(Ld(x, s)) = Pre(x, s)
               /\ Pre(x, s) \in Seq(Steps) /\ Pre(x, s) # <<>> /\ Head(Pre(x, s)) = x /\ Tail(Pre(x, s)) = s
    <2>1. x \in Steps
      BY <1>1, StepKinds, Zenon
    <2>2. s \in Seq(Steps)
      BY <1>1, PlanTypes, Zenon
    <2> QED BY <2>1, <2>2, Loading, Zenon
  <1>2. /\ load \in Steps /\ load[1] = "load" /\ post[1] = "post" /\ calc[1] = "calc" /\ overrun[1] = "overrun"
        /\ keep[1] = "keep"
        /\ \A x \in {sO, sD, rD, rO} : x \in Steps /\ x[1] \in {"set", "reset"}
        /\ sO # sD /\ rD # sD /\ rO # sD /\ load # sD /\ post # sD /\ calc # sD /\ overrun # sD
    <2>1. sO # sD
      BY DEF sO, sD
    <2> QED BY <2>1, StepKinds
  <1>3. Calm \subseteq Seq(Steps) /\ Setting \subseteq Seq(Steps)
    BY <1>1, PlanTypes, Zenon DEF Calm, Setting, Ready, Clear
  <1>4. ASSUME NEW p \in Calm, p # <<>>
        PROVE  /\ Tail(p) \in Calm
               /\ Head(p) \in Steps /\ Head(p) # sD /\ Head(p)[1] # "keep"
               /\ Head(p)[1] = "overrun" => p = Overrun
    BY <1>1, <1>2, <1>4, ShortPlans, StepKinds, ZenonT(60) DEF Calm, Clear
  <1>5. ASSUME NEW p \in Setting
        PROVE  /\ p # <<>> /\ Tail(p) \in Calm \cup Setting
               /\ Head(p) \in Steps /\ Head(p)[1] # "keep" /\ Head(p)[1] # "overrun"
    BY <1>1, <1>2, <1>5, ShortPlans, StepKinds, ZenonT(60) DEF Calm, Setting, Clear, Ready
  <1>6. Keep \notin Calm /\ Keep \notin Setting
    BY <1>2, <1>4, <1>5, ShortPlans, Zenon
  <1> QED BY <1>3, <1>4, <1>5, <1>6, Zenon

------------------------------------------------------------------------------
(* The UART's inductive invariant. *)

Bits == {"DR", "OE", "RX", "THR", "NONE"}
Keeping == uart_todo["term"] = Keep
\* The newest byte that may have reached the queue or RHR.
Newest == IF Keeping THEN sent - 1 ELSE sent

UartTypes ==
  /\ fifo_buffer \in Seq(Nat) /\ fifo_enabled \in BOOLEAN /\ rhr \in Nat /\ lsr \in SUBSET Bits
  /\ uart_todo \in [UartThreads -> Calm \cup Setting \cup {Keep}]
  /\ tmp \in [UartThreads -> SUBSET Bits]
  /\ sent \in Nat /\ got \in Nat \X Nat
  /\ Keeping => sent >= 1

\* Before the first byte has been kept nothing is there to be read.
Fresh == sent = 0 \/ (sent = 1 /\ Keeping)
Untouched ==
  /\ Fresh => /\ rhr = 0 /\ fifo_buffer = <<>> /\ got = <<0, 0>> /\ "DR" \notin lsr
              /\ \A t \in UartThreads : "DR" \notin tmp[t] /\ uart_todo[t] \in Calm \cup {Keep}
  /\ queued /\ ~fifo_enabled => Fresh

\* The queue holds bytes newer than the last one read, oldest first.
InOrder(b, lo, hi) ==
  /\ \A i \in 1 .. Len(b) : lo < b[i] /\ b[i] <= hi
  /\ \A i, j \in 1 .. Len(b) : i < j => b[i] < b[j]
Ordered ==
  ~raced \/ queued => /\ got[2] = 0 \/ got[1] < got[2]
                      /\ got[2] <= Newest /\ InOrder(fifo_buffer, got[2], Newest)

\* DATA_READY, once the steps left are done, says whether a byte waits.
Waiting(D) ==
  /\ fifo_enabled => (D <=> fifo_buffer # <<>>)
  /\ ~fifo_enabled => fifo_buffer = <<>> /\ (D => got[2] < rhr /\ rhr <= Newest)
  /\ saw => D
Current == iir = calc_iir_locked /\ uart_line = (calc_iir_locked # "NONE")
DR == "DR" \in lsr
Rmw(t, x, s) == uart_todo[t] = Ld(x, s) \/ (uart_todo[t] = Pre(x, s) /\ tmp[t] = lsr)

\* Where a thread that nothing disturbs may be, and what holds there.
Alone(t) ==
  \/ uart_todo[t] = <<>> /\ Waiting(DR) /\ Current
  \/ Rmw(t, sO, <<>>) /\ Waiting(DR) /\ Current
  \/ Rmw(t, sD, <<>>) /\ Waiting(DR) /\ Current /\ DR
  \/ uart_todo[t] = Keep /\ Waiting(DR)
  \/ Rmw(t, sO, Ready) /\ Waiting(TRUE)
  \/ Rmw(t, sD, U2) /\ Waiting(TRUE)
  \/ Rmw(t, rD, Overrun) /\ Waiting(FALSE)
  \/ uart_todo[t] = Overrun /\ Waiting(DR)
  \/ Rmw(t, rO, U2) /\ Waiting(DR)
  \/ Rmw(t, sD, Clear) /\ Waiting(FALSE)
  \/ Rmw(t, rD, U2) /\ Waiting(FALSE)
  \/ uart_todo[t] = U2 /\ Waiting(DR)
  \/ uart_todo[t] = U1 /\ Waiting(DR) /\ tmp[t] = {calc_iir_locked}
Others(t) == \A u \in UartThreads \ {t} : UartIdle(u)
Undisturbed == ~raced => \E t \in UartThreads : Others(t) /\ Alone(t)

UartInv == UartTypes /\ Untouched /\ Ordered /\ Undisturbed

\* One step: what it does to lsr and to the copy the thread holds.
LEMMA Micro ==
  ASSUME UartTypes, NEW t \in UartThreads, step(t)
  PROVE  /\ uart_todo[t] # <<>> /\ uart_todo[t] # Keep /\ uart_todo[t] # Overrun
         /\ uart_todo' = [uart_todo EXCEPT ![t] = Tail(uart_todo[t])] /\ Overlap(t)
         /\ \/ /\ Head(uart_todo[t])[1] = "load" /\ tmp' = [tmp EXCEPT ![t] = lsr]
               /\ UNCHANGED <<lsr, iir, uart_line>>
            \/ /\ Head(uart_todo[t])[1] = "set" /\ tmp' = [tmp EXCEPT ![t] = {}]
               /\ lsr' = tmp[t] \cup {Head(uart_todo[t])[2]} /\ UNCHANGED <<iir, uart_line>>
            \/ /\ Head(uart_todo[t])[1] = "reset" /\ tmp' = [tmp EXCEPT ![t] = {}]
               /\ lsr' = tmp[t] \ {Head(uart_todo[t])[2]} /\ UNCHANGED <<iir, uart_line>>
            \/ /\ Head(uart_todo[t])[1] = "calc" /\ tmp' = [tmp EXCEPT ![t] = {calc_iir_locked}]
               /\ UNCHANGED <<lsr, iir, uart_line>>
            \/ /\ Head(uart_todo[t])[1] = "post" /\ tmp' = [tmp EXCEPT ![t] = {}] /\ lsr' = lsr
               /\ iir' = (CHOOSE i \in tmp[t] : TRUE) /\ uart_line' = (tmp[t] # {"NONE"})
         /\ UNCHANGED <<fifo_buffer, fifo_enabled, rhr, ier, dlab, sent, saw, got, queued>>
  <1>1. PICK p, k, a : p = uart_todo[t] /\ k = Head(p)[1] /\ a = Head(p)[2]
    BY Zenon
  <1>2. p # <<>> /\ k \in {"load", "set", "reset", "calc", "post"}
    BY <1>1, Zenon DEF step, At, UartIdle
  <1>3. p # Keep /\ p # Overrun
    BY <1>1, <1>2, ShortPlans, StepKinds, Zenon
  <1>4. p \in Calm \cup Setting \cup {Keep}
    BY <1>1, Zenon DEF UartTypes
  <1>5. p \in Seq(Steps)
    BY <1>4, PlansClosed, PlanTypes, Zenon
  <1>6. Tail(p) \in Seq(Steps)
    <2>1. p \in Calm \cup Setting
      BY <1>3, <1>4, Zenon
    <2> QED BY <1>2, <2>1, PlansClosed, Zenon
  <1>7. <<>> \o Tail(p) = Tail(p)
    BY <1>6, Listings, Zenon
  <1>8. uart_todo' = [uart_todo EXCEPT ![t] = Tail(p)] /\ Overlap(t)
    BY <1>1, <1>7, Zenon DEF step, Then
  <1>9. /\ tmp' = [tmp EXCEPT ![t] = CASE k = "load" -> lsr
                                       [] k = "calc" -> {calc_iir_locked}
                                       [] OTHER -> {}]
        /\ lsr' = CASE k = "set" -> tmp[t] \cup {a}
                    [] k = "reset" -> tmp[t] \ {a}
                    [] OTHER -> lsr
        /\ iir' = IF k = "post" THEN CHOOSE i \in tmp[t] : TRUE ELSE iir
        /\ uart_line' = IF k = "post" THEN tmp[t] # {"NONE"} ELSE uart_line
    <2>1. k = Head(uart_todo[t])[1] /\ a = Head(uart_todo[t])[2]
      BY <1>1, Zenon
    <2>2. tmp' = [tmp EXCEPT ![t] = CASE k = "load" -> lsr
                                      [] k = "calc" -> {calc_iir_locked}
                                      [] OTHER -> {}]
      BY <2>1, Zenon DEF step
    <2>3. lsr' = CASE k = "set" -> tmp[t] \cup {a}
                   [] k = "reset" -> tmp[t] \ {a}
                   [] OTHER -> lsr
      BY <2>1, Zenon DEF step
    <2>4. iir' = IF k = "post" THEN CHOOSE i \in tmp[t] : TRUE ELSE iir
      BY <2>1 DEF step
    <2>5. uart_line' = IF k = "post" THEN tmp[t] # {"NONE"} ELSE uart_line
      BY <2>1 DEF step
    <2> QED BY <2>2, <2>3, <2>4, <2>5, Zenon
  <1>10. UNCHANGED <<fifo_buffer, fifo_enabled, rhr, ier, dlab, sent, saw, got, queued>>
    BY Zenon DEF step
  <1>11. \/ k = "load" /\ tmp' = [tmp EXCEPT ![t] = lsr] /\ UNCHANGED <<lsr, iir, uart_line>>
         \/ k = "set" /\ tmp' = [tmp EXCEPT ![t] = {}] /\ lsr' = tmp[t] \cup {a} /\ UNCHANGED <<iir, uart_line>>
         \/ k = "reset" /\ tmp' = [tmp EXCEPT ![t] = {}] /\ lsr' = tmp[t] \ {a} /\ UNCHANGED <<iir, uart_line>>
         \/ k = "calc" /\ tmp' = [tmp EXCEPT ![t] = {calc_iir_locked}] /\ UNCHANGED <<lsr, iir, uart_line>>
         \/ /\ k = "post" /\ tmp' = [tmp EXCEPT ![t] = {}] /\ lsr' = lsr
            /\ iir' = (CHOOSE i \in tmp[t] : TRUE) /\ uart_line' = (tmp[t] # {"NONE"})
    <2>1. CASE k = "load"
      BY <1>9, <2>1, Zenon
    <2>2. CASE k = "set"
      BY <1>9, <2>2, Zenon
    <2>3. CASE k = "reset"
      BY <1>9, <2>3, Zenon
    <2>4. CASE k = "calc"
      BY <1>9, <2>4, Zenon
    <2>5. CASE k = "post"
      BY <1>9, <2>5, Zenon
    <2> QED BY <1>2, <2>1, <2>2, <2>3, <2>4, <2>5, Zenon
  <1> QED BY <1>1, <1>2, <1>3, <1>8, <1>10, <1>11, Zenon

\* The plans the handlers enter with, as their code lists the steps.
LEMMA HandlerPlans ==
  /\ Set("OE") = Ld(sO, <<>>)
  /\ <<<<"keep", "byte">>>> \o update_iir = Keep
  /\ (Set("OE") \o Set("DR")) \o U2 = Ld(sO, Ready) /\ Set("DR") \o U2 = Ready
  /\ (Reset("DR") \o <<<<"overrun", "lsr">>>>) \o update_iir = Ld(rD, Overrun)
  /\ (<<>> \o <<<<"overrun", "lsr">>>>) \o update_iir = Overrun
  /\ Reset("OE") \o U2 = Ld(rO, U2) /\ <<>> \o U2 = U2
  /\ Set("DR") \o (Reset("DR") \o update_iir) = Ld(sD, Clear) /\ Set("DR") \o <<>> = Ld(sD, <<>>)
  /\ <<>> \o (Reset("DR") \o update_iir) = Clear /\ <<>> \o <<>> = <<>>
  <1>1. /\ Set("DR") \in Seq(Steps) /\ Set("OE") \in Seq(Steps) /\ Reset("DR") \in Seq(Steps)
        /\ <<overrun>> \in Seq(Steps) /\ U2 \in Seq(Steps) /\ update_iir = U2
    BY Listings, StepKinds
  <1>2. (Set("OE") \o Set("DR")) \o U2 = Set("OE") \o (Set("DR") \o U2)
    BY <1>1, ConcatAssociative
  <1>3. (Reset("DR") \o <<overrun>>) \o U2 = Reset("DR") \o (<<overrun>> \o U2)
    BY <1>1, ConcatAssociative
  <1>4. (<<>> \o <<overrun>>) \o U2 = <<overrun>> \o U2
    BY <1>1, Listings, Zenon
  <1>5. /\ <<overrun>> \o U2 = Overrun /\ <<keep>> \o U2 = Keep /\ Reset("DR") \o U2 = Clear /\ Set("DR") \o U2 = Ready
    BY <1>1, Listings, Zenon DEF Overrun, Keep, Clear, Ready
  <1>6. /\ Set("OE") \o Ready = Ld(sO, Ready) /\ Reset("DR") \o Overrun = Ld(rD, Overrun)
        /\ Set("DR") \o Clear = Ld(sD, Clear) /\ <<>> \o Clear = Clear
    BY PlanTypes, Listings, Zenon
  <1> QED BY <1>1, <1>2, <1>3, <1>4, <1>5, <1>6, Listings, Zenon DEF keep, overrun

\* Entering a handler, or going on with it, changes the plan of its thread alone.
LEMMA PlanChanged ==
  ASSUME UartTypes, NEW t \in UartThreads, NEW p \in Calm \cup Setting \cup {Keep},
         uart_todo' = [uart_todo EXCEPT ![t] = p]
  PROVE  /\ uart_todo' \in [UartThreads -> Calm \cup Setting \cup {Keep}]
         /\ uart_todo'[t] = p /\ \A u \in UartThreads \ {t} : uart_todo'[u] = uart_todo[u]
  BY Zenon DEF UartTypes

\* The thread whose handler keeps a byte is at Keep, the one that tests for the overrun at Overrun.
LEMMA Located ==
  ASSUME UartTypes
  PROVE  /\ At("term", "keep") => Keeping
         /\ At("hart", "overrun") => uart_todo["hart"] = Overrun
  <1>1. "term" \in UartThreads /\ "hart" \in UartThreads
    BY Zenon DEF UartThreads
  <1>2. \A t \in UartThreads : uart_todo[t] \in Calm \cup Setting \cup {Keep}
    BY Zenon DEF UartTypes
  <1>3. keep[1] = "keep" /\ keep[1] # "overrun"
    BY StepKinds
  <1> QED BY <1>1, <1>2, <1>3, PlansClosed, ShortPlans, Zenon DEF At, UartIdle, Keeping

\* Where every action leaves its thread.
LEMMA Moves ==
  ASSUME UartTypes
  PROVE  /\ receive_byte =>
              /\ uart_todo["term"] = <<>> /\ Overlap("term")
              /\ uart_todo' = [uart_todo EXCEPT !["term"] = IF fifo_enabled /\ Len(fifo_buffer) >= FIFO
                                                            THEN Ld(sO, <<>>) ELSE Keep]
         /\ keep_byte =>
              /\ Keeping /\ Overlap("term")
              /\ uart_todo' = [uart_todo EXCEPT !["term"] = IF ~fifo_enabled /\ DR THEN Ld(sO, Ready) ELSE Ready]
         /\ read_RHR =>
              /\ uart_todo["hart"] = <<>> /\ Overlap("hart")
              /\ uart_todo' = [uart_todo EXCEPT !["hart"] = IF ~fifo_enabled \/ drained(fifo_buffer)
                                                            THEN Ld(rD, Overrun) ELSE Overrun]
         /\ overrun_reset =>
              /\ uart_todo["hart"] = Overrun /\ Overlap("hart")
              /\ uart_todo' = [uart_todo EXCEPT !["hart"] = IF "OE" \in lsr THEN Ld(rO, U2) ELSE U2]
  <1>1. receive_byte => /\ uart_todo["term"] = <<>> /\ Overlap("term")
                        /\ uart_todo' = [uart_todo EXCEPT !["term"] = IF fifo_enabled /\ Len(fifo_buffer) >= FIFO
                                                                      THEN Ld(sO, <<>>) ELSE Keep]
    BY HandlerPlans, Zenon DEF receive_byte, Enter, UartIdle
  <1>2. keep_byte => /\ Keeping /\ Overlap("term")
                     /\ uart_todo' = [uart_todo EXCEPT !["term"] = IF ~fifo_enabled /\ DR THEN Ld(sO, Ready)
                                                                   ELSE Ready]
    <2> SUFFICES ASSUME keep_byte PROVE <1>2!2
      OBVIOUS
    <2>1. Keeping /\ Tail(uart_todo["term"]) = U2
      BY Located, ShortPlans, Zenon DEF keep_byte, Keeping
    <2> QED BY <2>1, HandlerPlans, Zenon DEF keep_byte, Then, DR
  <1>3. read_RHR => /\ uart_todo["hart"] = <<>> /\ Overlap("hart")
                    /\ uart_todo' = [uart_todo EXCEPT !["hart"] = IF ~fifo_enabled \/ drained(fifo_buffer)
                                                                  THEN Ld(rD, Overrun) ELSE Overrun]
    BY HandlerPlans, Zenon DEF read_RHR, Enter, UartIdle
  <1>4. overrun_reset => /\ uart_todo["hart"] = Overrun /\ Overlap("hart")
                         /\ uart_todo' = [uart_todo EXCEPT !["hart"] = IF "OE" \in lsr THEN Ld(rO, U2) ELSE U2]
    <2> SUFFICES ASSUME overrun_reset PROVE <1>4!2
      OBVIOUS
    <2>1. uart_todo["hart"] = Overrun /\ Tail(uart_todo["hart"]) = U2
      BY Located, ShortPlans, Zenon DEF overrun_reset
    <2> QED BY <2>1, HandlerPlans, Zenon DEF overrun_reset, Then
  <1> QED BY <1>1, <1>2, <1>3, <1>4, Zenon

\* Where a write of FCR leaves the hart.
LEMMA FcrMoves ==
  ASSUME NEW on \in BOOLEAN, NEW c \in BOOLEAN, write_FCR(on, c)
  PROVE  LET enter == on /\ ~fifo_enabled /\ DR
             leave == ~on /\ fifo_enabled /\ fifo_buffer # <<>>
         IN /\ uart_todo["hart"] = <<>> /\ Overlap("hart")
            /\ uart_todo' = [uart_todo EXCEPT !["hart"] = IF enter \/ leave
                                                          THEN IF c THEN Ld(sD, Clear) ELSE Ld(sD, <<>>)
                                                          ELSE IF c THEN Clear ELSE <<>>]
  BY HandlerPlans, ZenonT(60) DEF write_FCR, Enter, UartIdle, DR

\* The handlers of the hart that leave the bytes alone.
Quick(p) ==
  /\ uart_todo["hart"] = <<>> /\ uart_todo' = [uart_todo EXCEPT !["hart"] = p] /\ Overlap("hart")
  /\ UNCHANGED <<fifo_buffer, fifo_enabled, rhr, lsr, iir, uart_line, tmp, sent, got, queued>>
  /\ saw' = saw \/ saw' = DR
  /\ p = U2 \/ (p = <<>> /\ ier' = ier)

\* The steps of the UART, with their plans.
LEMMA Actions ==
  ASSUME UartNext
  PROVE  \/ receive_byte \/ keep_byte \/ read_RHR \/ overrun_reset
         \/ \E p \in {<<>>, U2} : Quick(p)
         \/ \E on, c \in BOOLEAN : write_FCR(on, c)
         \/ \E t \in UartThreads : step(t)
  <1>1. update_iir = U2
    BY Listings, Zenon
  <1>2. read_LSR => Quick(<<>>)
    BY Zenon DEF read_LSR, Enter, UartIdle, Quick, DR
  <1>3. read_IIR => \E p \in {<<>>, U2} : Quick(p)
    BY <1>1, Zenon DEF read_IIR, Enter, UartIdle, Quick
  <1>4. write_THR => Quick(U2)
    BY <1>1, Zenon DEF write_THR, Enter, UartIdle, Quick
  <1>5. ASSUME NEW v, write_IER(v) PROVE Quick(U2)
    BY <1>1, <1>5, Zenon DEF write_IER, Enter, UartIdle, Quick
  <1>6. ASSUME NEW d, write_LCR(d) PROVE Quick(<<>>)
    BY <1>6, Zenon DEF write_LCR, Enter, UartIdle, Quick
  <1> QED BY <1>2, <1>3, <1>4, <1>5, <1>6, Zenon DEF UartNext

\* The flags the plans set are DATA_READY and OVERRUN_ERROR.
LEMMA SetsFlags ==
  ASSUME NEW p \in Calm \cup Setting, p # <<>>, Head(p)[1] = "set"
  PROVE  Head(p) \in {sD, sO} /\ Head(p)[2] \in {"DR", "OE"}
  <1>1. ASSUME NEW x \in {sO, sD, rD, rO}, NEW s \in {<<>>, U2, Overrun, Ready, Clear}
        PROVE  Head(Ld(x, s)) = load /\ Head(Pre(x, s)) = x
    <2>1. x \in Steps /\ s \in Seq(Steps)
      BY <1>1, StepKinds, PlanTypes, Zenon
    <2> QED BY <2>1, Loading, Zenon
  <1>2. /\ load[1] # "set" /\ post[1] # "set" /\ calc[1] # "set" /\ overrun[1] # "set"
        /\ rD[1] # "set" /\ rO[1] # "set"
    BY StepKinds
  <1>3. Head(p) \in {sD, sO}
    BY <1>1, <1>2, ShortPlans, ZenonT(60) DEF Calm, Setting, Clear, Ready
  <1> QED BY <1>3, StepKinds, Zenon

\* The handlers keep the shapes of the registers, of the queue and of their plans.
LEMMA UartTypesKept ==
  ASSUME UartTypes, UartNext
  PROVE  UartTypes'
  <1>1. /\ fifo_buffer \in Seq(Nat) /\ fifo_enabled \in BOOLEAN /\ rhr \in Nat /\ lsr \in SUBSET Bits
        /\ uart_todo \in [UartThreads -> Calm \cup Setting \cup {Keep}]
        /\ tmp \in [UartThreads -> SUBSET Bits]
        /\ sent \in Nat /\ got \in Nat \X Nat
        /\ Keeping => sent >= 1
    BY Zenon DEF UartTypes
  <1>2. "term" \in UartThreads /\ "hart" \in UartThreads /\ "hart" # "term"
    BY Zenon DEF UartThreads
  <1>3. /\ <<>> \in Calm /\ U2 \in Calm /\ Ld(sO, <<>>) \in Calm /\ Ld(rD, Overrun) \in Calm /\ Overrun \in Calm
        /\ Ld(rO, U2) \in Calm /\ Clear \in Calm
        /\ Ld(sO, Ready) \in Setting /\ Ready \in Setting /\ Ld(sD, <<>>) \in Setting /\ Ld(sD, Clear) \in Setting
    BY Zenon DEF Calm, Setting
  <1>4. ASSUME NEW t \in UartThreads, NEW p \in Calm \cup Setting, uart_todo' = [uart_todo EXCEPT ![t] = p]
        PROVE  /\ uart_todo' \in [UartThreads -> Calm \cup Setting \cup {Keep}]
               /\ Keeping' => Keeping
    <2>1. /\ uart_todo' \in [UartThreads -> Calm \cup Setting \cup {Keep}]
          /\ uart_todo'[t] = p /\ \A u \in UartThreads \ {t} : uart_todo'[u] = uart_todo[u]
      BY <1>4, PlanChanged, Zenon
    <2> QED BY <1>2, <2>1, PlansClosed, Zenon DEF Keeping
  <1>5. CASE receive_byte
    <2>1. sent' = sent + 1 /\ UNCHANGED <<fifo_buffer, fifo_enabled, rhr, lsr, tmp, got>>
      BY <1>5, Zenon DEF receive_byte
    <2>2. sent' \in Nat /\ sent' >= 1
      BY <1>1, <2>1
    <2>3. uart_todo' \in [UartThreads -> Calm \cup Setting \cup {Keep}]
      <3>1. PICK p : p = IF fifo_enabled /\ Len(fifo_buffer) >= FIFO THEN Ld(sO, <<>>) ELSE Keep
        BY Zenon
      <3>2. p \in Calm \cup Setting \cup {Keep} /\ uart_todo' = [uart_todo EXCEPT !["term"] = p]
        BY <1>3, <1>5, <3>1, Moves, Zenon
      <3> QED BY <1>2, <3>2, PlanChanged, Zenon
    <2> QED BY <1>1, <2>1, <2>2, <2>3, Zenon DEF UartTypes
  <1>6. CASE keep_byte
    <2>1. /\ fifo_buffer' = IF fifo_enabled THEN Append(fifo_buffer, sent) ELSE fifo_buffer
          /\ rhr' = IF fifo_enabled \/ "DR" \in lsr THEN rhr ELSE sent
          /\ UNCHANGED <<fifo_enabled, lsr, tmp, sent, got>>
      BY <1>6, Zenon DEF keep_byte, push_byte
    <2>2. Append(fifo_buffer, sent) \in Seq(Nat)
      BY <1>1
    <2>3. /\ uart_todo' \in [UartThreads -> Calm \cup Setting \cup {Keep}]
          /\ Keeping' => Keeping
      <3>1. PICK p : p = IF ~fifo_enabled /\ DR THEN Ld(sO, Ready) ELSE Ready
        BY Zenon
      <3>2. p \in Calm \cup Setting /\ uart_todo' = [uart_todo EXCEPT !["term"] = p]
        BY <1>3, <1>6, <3>1, Moves, Zenon
      <3> QED BY <1>2, <1>4, <3>2, Zenon
    <2> QED BY <1>1, <2>1, <2>2, <2>3, Zenon DEF UartTypes
  <1>7. CASE read_RHR
    <2>1. PICK v : v = IF ~fifo_enabled THEN rhr ELSE IF fifo_buffer = <<>> THEN 0 ELSE Head(fifo_buffer)
      BY Zenon
    <2>2. /\ got' = IF v = 0 THEN got ELSE <<got[2], v>>
          /\ fifo_buffer' = IF fifo_enabled /\ fifo_buffer # <<>> THEN Tail(fifo_buffer) ELSE fifo_buffer
          /\ UNCHANGED <<fifo_enabled, rhr, lsr, tmp, sent>>
      BY <1>7, <2>1, Zenon DEF read_RHR
    <2>3. fifo_buffer # <<>> => Head(fifo_buffer) \in Nat /\ Tail(fifo_buffer) \in Seq(Nat)
      BY <1>1
    <2>4. v \in Nat /\ fifo_buffer' \in Seq(Nat)
      BY <1>1, <2>1, <2>2, <2>3
    <2>5. got' \in Nat \X Nat
      BY <1>1, <2>2, <2>4
    <2>6. /\ uart_todo' \in [UartThreads -> Calm \cup Setting \cup {Keep}]
          /\ Keeping' => Keeping
      <3>1. PICK p : p = IF ~fifo_enabled \/ drained(fifo_buffer) THEN Ld(rD, Overrun) ELSE Overrun
        BY Zenon
      <3>2. p \in Calm \cup Setting /\ uart_todo' = [uart_todo EXCEPT !["hart"] = p]
        BY <1>3, <1>7, <3>1, Moves, Zenon
      <3> QED BY <1>2, <1>4, <3>2, Zenon
    <2> QED BY <1>1, <2>2, <2>4, <2>5, <2>6, Zenon DEF UartTypes
  <1>8. CASE overrun_reset
    <2>1. UNCHANGED <<fifo_buffer, fifo_enabled, rhr, lsr, tmp, sent, got>>
      BY <1>8, Zenon DEF overrun_reset
    <2>2. /\ uart_todo' \in [UartThreads -> Calm \cup Setting \cup {Keep}]
          /\ Keeping' => Keeping
      <3>1. PICK p : p = IF "OE" \in lsr THEN Ld(rO, U2) ELSE U2
        BY Zenon
      <3>2. p \in Calm \cup Setting /\ uart_todo' = [uart_todo EXCEPT !["hart"] = p]
        BY <1>3, <1>8, <3>1, Moves, Zenon
      <3> QED BY <1>2, <1>4, <3>2, Zenon
    <2> QED BY <1>1, <2>1, <2>2, Zenon DEF UartTypes
  <1>9. CASE \E p \in {<<>>, U2} : Quick(p)
    <2>1. PICK p \in {<<>>, U2} : Quick(p)
      BY <1>9, Zenon
    <2>2. UNCHANGED <<fifo_buffer, fifo_enabled, rhr, lsr, tmp, sent, got>>
      BY <2>1, Zenon DEF Quick
    <2>3. /\ uart_todo' \in [UartThreads -> Calm \cup Setting \cup {Keep}]
          /\ Keeping' => Keeping
      BY <1>2, <1>3, <1>4, <2>1, Zenon DEF Quick
    <2> QED BY <1>1, <2>2, <2>3, Zenon DEF UartTypes
  <1>10. CASE \E on, c \in BOOLEAN : write_FCR(on, c)
    <2>1. PICK on \in BOOLEAN, c \in BOOLEAN : write_FCR(on, c)
      BY <1>10, Zenon
    <2>2. /\ fifo_enabled' = on /\ UNCHANGED <<lsr, tmp, sent, got>>
          /\ rhr' = IF ~on /\ fifo_enabled /\ fifo_buffer # <<>> THEN Head(fifo_buffer) ELSE rhr
          /\ fifo_buffer' = IF c THEN <<>>
                            ELSE IF on /\ ~fifo_enabled /\ "DR" \in lsr THEN Append(fifo_buffer, rhr)
                            ELSE IF ~on /\ fifo_enabled /\ fifo_buffer # <<>> THEN <<>> ELSE fifo_buffer
      BY <2>1, Zenon DEF write_FCR
    <2>3. rhr' \in Nat /\ fifo_buffer' \in Seq(Nat)
      BY <1>1, <2>2
    <2>4. /\ uart_todo' \in [UartThreads -> Calm \cup Setting \cup {Keep}]
          /\ Keeping' => Keeping
      <3>1. \E p \in {Ld(sD, Clear), Ld(sD, <<>>), Clear, <<>>} : uart_todo' = [uart_todo EXCEPT !["hart"] = p]
        BY <2>1, FcrMoves, Zenon
      <3> QED BY <1>2, <1>3, <1>4, <3>1, Zenon
    <2> QED BY <1>1, <2>1, <2>2, <2>3, <2>4, Zenon DEF UartTypes
  <1>11. CASE \E t \in UartThreads : step(t)
    <2>1. PICK t \in UartThreads : step(t)
      BY <1>11, Zenon
    <2>2. PICK p : p = uart_todo[t]
      BY Zenon
    <2>3. /\ p # <<>> /\ p # Keep /\ uart_todo' = [uart_todo EXCEPT ![t] = Tail(p)]
          /\ UNCHANGED <<fifo_buffer, fifo_enabled, rhr, sent, got>>
      BY <2>1, <2>2, Micro, Zenon
    <2>4. Tail(p) \in Calm \cup Setting /\ Head(p) \in Steps
      BY <1>1, <2>2, <2>3, PlansClosed, Zenon
    <2>5. calc_iir_locked \in Bits
      BY Zenon DEF calc_iir_locked, Bits
    <2>6. \E v \in {lsr, {}, {calc_iir_locked}} : tmp' = [tmp EXCEPT ![t] = v]
      BY <2>1, Micro, Zenon
    <2>7. tmp' \in [UartThreads -> SUBSET Bits]
      <3>1. PICK v \in {lsr, {}, {calc_iir_locked}} : tmp' = [tmp EXCEPT ![t] = v]
        BY <2>6, Zenon
      <3>2. v \in SUBSET Bits
        BY <1>1, <2>5, <3>1
      <3> QED BY <1>1, <3>1, <3>2, Zenon
    <2>8. lsr' \in SUBSET Bits
      <3>1. tmp[t] \in SUBSET Bits
        BY <1>1, Zenon
      <3>2. Head(p)[1] = "set" => Head(p)[2] \in {"DR", "OE"}
        BY <1>1, <2>2, <2>3, SetsFlags, Zenon
      <3>3. PICK x : x = Head(p)[2]
        BY Zenon
      <3>4. \/ lsr' = lsr \/ (Head(p)[1] = "set" /\ lsr' = tmp[t] \cup {x}) \/ lsr' = tmp[t] \ {x}
        BY <2>1, <2>2, <3>3, Micro, Zenon
      <3> QED BY <1>1, <3>1, <3>2, <3>3, <3>4 DEF Bits
    <2> QED BY <1>1, <1>4, <2>3, <2>4, <2>7, <2>8, Zenon DEF UartTypes
  <1> QED BY <1>5, <1>6, <1>7, <1>8, <1>9, <1>10, <1>11, Actions, Zenon

\* What a write of FCR does to the bytes.
LEMMA FcrEffect ==
  ASSUME NEW on \in BOOLEAN, NEW c \in BOOLEAN, write_FCR(on, c)
  PROVE  /\ fifo_enabled' = on /\ UNCHANGED <<lsr, ier, iir, uart_line, tmp, sent, got>> /\ saw' = FALSE
         /\ rhr' = IF ~on /\ fifo_enabled /\ fifo_buffer # <<>> THEN Head(fifo_buffer) ELSE rhr
         /\ fifo_buffer' = IF c THEN <<>>
                           ELSE IF on /\ ~fifo_enabled /\ "DR" \in lsr THEN Append(fifo_buffer, rhr)
                           ELSE IF ~on /\ fifo_enabled /\ fifo_buffer # <<>> THEN <<>> ELSE fifo_buffer
         /\ queued' = (queued /\ (on \/ sent = 0))
  BY Zenon DEF write_FCR

\* Only receive_byte moves the newest byte on.
LEMMA NewestKept ==
  ASSUME UartTypes, NEW t \in UartThreads, NEW p \in Calm \cup Setting, t = "term" => ~Keeping,
         uart_todo' = [uart_todo EXCEPT ![t] = p], sent' = sent
  PROVE  /\ Keeping' <=> Keeping
         /\ Newest' = Newest
         /\ Fresh' <=> Fresh
         /\ uart_todo'[t] = p /\ \A u \in UartThreads \ {t} : uart_todo'[u] = uart_todo[u]
  <1>1. uart_todo'[t] = p /\ \A u \in UartThreads \ {t} : uart_todo'[u] = uart_todo[u]
    BY PlanChanged, Zenon
  <1>2. "term" \in UartThreads
    BY Zenon DEF UartThreads
  <1>3. Keeping' <=> Keeping
    BY <1>1, <1>2, PlansClosed, Zenon DEF Keeping
  <1> QED BY <1>1, <1>3, Zenon DEF Newest, Fresh

\* Nothing is read, queued or signalled before the first byte.
LEMMA UntouchedKept ==
  ASSUME UartTypes, Untouched, UartNext
  PROVE  Untouched'
  <1>1. /\ sent \in Nat /\ tmp \in [UartThreads -> SUBSET Bits]
        /\ uart_todo \in [UartThreads -> Calm \cup Setting \cup {Keep}]
        /\ Keeping => sent >= 1
    BY Zenon DEF UartTypes
  <1>2. "term" \in UartThreads /\ "hart" \in UartThreads /\ "hart" # "term"
    BY Zenon DEF UartThreads
  <1>3. /\ <<>> \in Calm /\ U2 \in Calm /\ Ld(sO, <<>>) \in Calm /\ Ld(rD, Overrun) \in Calm /\ Overrun \in Calm
        /\ Ld(rO, U2) \in Calm /\ Clear \in Calm
        /\ Ld(sO, Ready) \in Setting /\ Ready \in Setting /\ Ld(sD, <<>>) \in Setting /\ Ld(sD, Clear) \in Setting
    BY Zenon DEF Calm, Setting
  <1>4. ASSUME Fresh
        PROVE  /\ rhr = 0 /\ fifo_buffer = <<>> /\ got = <<0, 0>> /\ "DR" \notin lsr
               /\ \A t \in UartThreads : "DR" \notin tmp[t] /\ uart_todo[t] \in Calm \cup {Keep}
    BY <1>4, Zenon DEF Untouched
  <1>5. queued /\ ~fifo_enabled => Fresh
    BY Zenon DEF Untouched
  <1>6. ASSUME NEW p \in Calm, uart_todo' = [uart_todo EXCEPT !["hart"] = p], sent' = sent, Fresh
        PROVE  \A t \in UartThreads : uart_todo'[t] \in Calm \cup {Keep}
    <2>1. uart_todo'["hart"] = p /\ \A u \in UartThreads \ {"hart"} : uart_todo'[u] = uart_todo[u]
      BY <1>2, <1>6, NewestKept, Zenon
    <2> QED BY <1>4, <1>6, <2>1, Zenon
  <1>7. CASE receive_byte
    <2>1. sent' = sent + 1 /\ UNCHANGED <<fifo_buffer, fifo_enabled, rhr, lsr, tmp, got, queued>>
      BY <1>7, Zenon DEF receive_byte
    <2>2. ~Keeping
      BY <1>7, Moves, ShortPlans, Zenon DEF Keeping
    <2>3. /\ Fresh' => sent = 0
          /\ Fresh => sent = 0
          /\ sent = 0 => Fresh
      BY <1>1, <2>1, <2>2 DEF Fresh
    <2>4. ASSUME sent = 0
          PROVE  uart_todo'["term"] = Keep /\ uart_todo'["hart"] = uart_todo["hart"]
      <3>1. fifo_buffer = <<>>
        BY <1>4, <2>3, <2>4, Zenon
      <3>2. ~(Len(fifo_buffer) >= FIFO)
        BY <3>1, UartAssumption
      <3>3. uart_todo' = [uart_todo EXCEPT !["term"] = Keep]
        BY <1>7, <3>2, Moves, Zenon
      <3> QED BY <1>2, <3>3, PlanChanged, Zenon
    <2>5. sent = 0 => Fresh'
      BY <2>1, <2>4 DEF Fresh, Keeping
    <2>6. Fresh' => \A t \in UartThreads : uart_todo'[t] \in Calm \cup {Keep}
      BY <1>4, <2>3, <2>4, Zenon DEF UartThreads
    <2> QED BY <1>4, <1>5, <2>1, <2>3, <2>5, <2>6, Zenon DEF Untouched
  <1>8. CASE keep_byte
    <2>1. sent' = sent /\ fifo_enabled' = fifo_enabled /\ queued' = (queued /\ fifo_enabled)
      BY <1>8, Zenon DEF keep_byte
    <2>2. Keeping
      BY <1>8, Moves, Zenon
    <2>3. PICK p : p = IF ~fifo_enabled /\ DR THEN Ld(sO, Ready) ELSE Ready
      BY Zenon
    <2>4. p \in Setting /\ uart_todo' = [uart_todo EXCEPT !["term"] = p]
      BY <1>3, <1>8, <2>3, Moves, Zenon
    <2>5. ~Keeping'
      BY <1>2, <2>4, PlanChanged, PlansClosed, Zenon DEF Keeping
    <2>6. ~Fresh'
      BY <1>1, <2>1, <2>2, <2>5 DEF Fresh
    <2> QED BY <2>1, <2>6, Zenon DEF Untouched
  <1>9. CASE read_RHR
    <2>1. PICK v : v = IF ~fifo_enabled THEN rhr ELSE IF fifo_buffer = <<>> THEN 0 ELSE Head(fifo_buffer)
      BY Zenon
    <2>2. /\ got' = IF v = 0 THEN got ELSE <<got[2], v>>
          /\ fifo_buffer' = IF fifo_enabled /\ fifo_buffer # <<>> THEN Tail(fifo_buffer) ELSE fifo_buffer
          /\ UNCHANGED <<fifo_enabled, rhr, lsr, tmp, sent, queued>>
      BY <1>9, <2>1, Zenon DEF read_RHR
    <2>3. PICK p : p = IF ~fifo_enabled \/ drained(fifo_buffer) THEN Ld(rD, Overrun) ELSE Overrun
      BY Zenon
    <2>4. p \in Calm /\ uart_todo' = [uart_todo EXCEPT !["hart"] = p]
      BY <1>3, <1>9, <2>3, Moves, Zenon
    <2>5. Fresh' <=> Fresh
      BY <1>2, <2>2, <2>4, NewestKept, Zenon
    <2>6. Fresh => got' = got /\ fifo_buffer' = fifo_buffer
      BY <1>4, <2>1, <2>2, Zenon
    <2> QED BY <1>4, <1>5, <1>6, <2>2, <2>4, <2>5, <2>6, Zenon DEF Untouched
  <1>10. CASE overrun_reset
    <2>1. UNCHANGED <<fifo_buffer, fifo_enabled, rhr, lsr, tmp, sent, got, queued>>
      BY <1>10, Zenon DEF overrun_reset
    <2>2. PICK p : p = IF "OE" \in lsr THEN Ld(rO, U2) ELSE U2
      BY Zenon
    <2>3. p \in Calm /\ uart_todo' = [uart_todo EXCEPT !["hart"] = p]
      BY <1>3, <1>10, <2>2, Moves, Zenon
    <2>4. Fresh' <=> Fresh
      BY <1>2, <2>1, <2>3, NewestKept, Zenon
    <2> QED BY <1>4, <1>5, <1>6, <2>1, <2>3, <2>4, Zenon DEF Untouched
  <1>11. CASE \E p \in {<<>>, U2} : Quick(p)
    <2>1. PICK p \in {<<>>, U2} : Quick(p)
      BY <1>11, Zenon
    <2>2. UNCHANGED <<fifo_buffer, fifo_enabled, rhr, lsr, tmp, sent, got, queued>>
      BY <2>1, Zenon DEF Quick
    <2>3. p \in Calm /\ uart_todo' = [uart_todo EXCEPT !["hart"] = p]
      BY <1>3, <2>1, Zenon DEF Quick
    <2>4. Fresh' <=> Fresh
      BY <1>2, <2>2, <2>3, NewestKept, Zenon
    <2> QED BY <1>4, <1>5, <1>6, <2>2, <2>3, <2>4, Zenon DEF Untouched
  <1>12. CASE \E on, c \in BOOLEAN : write_FCR(on, c)
    <2>1. PICK on \in BOOLEAN, c \in BOOLEAN : write_FCR(on, c)
      BY <1>12, Zenon
    <2>2. /\ fifo_enabled' = on /\ UNCHANGED <<lsr, tmp, sent, got>>
          /\ queued' = (queued /\ (on \/ sent = 0))
      BY <2>1, FcrEffect, Zenon
    <2>3. PICK p \in Calm \cup Setting : uart_todo' = [uart_todo EXCEPT !["hart"] = p]
      <3>1. \E p \in {Ld(sD, Clear), Ld(sD, <<>>), Clear, <<>>} : uart_todo' = [uart_todo EXCEPT !["hart"] = p]
        BY <2>1, FcrMoves, Zenon
      <3> QED BY <1>3, <3>1, Zenon
    <2>4. Fresh' <=> Fresh
      BY <1>2, <2>2, <2>3, NewestKept, Zenon
    <2>5. ASSUME Fresh
          PROVE  /\ rhr' = rhr /\ fifo_buffer' = <<>>
                 /\ \A t \in UartThreads : uart_todo'[t] \in Calm \cup {Keep}
      <3>1. rhr' = rhr /\ fifo_buffer' = <<>>
        BY <1>4, <2>1, <2>5, FcrEffect, Zenon
      <3>2. \E q \in {Clear, <<>>} : uart_todo' = [uart_todo EXCEPT !["hart"] = q]
        BY <1>4, <2>1, <2>5, FcrMoves, Zenon DEF DR
      <3> QED BY <1>3, <1>6, <2>2, <2>5, <3>1, <3>2, Zenon
    <2>6. queued' /\ ~fifo_enabled' => Fresh'
      BY <2>2, <2>4, Zenon DEF Fresh
    <2> QED BY <1>4, <2>2, <2>4, <2>5, <2>6, Zenon DEF Untouched
  <1>13. CASE \E t \in UartThreads : step(t)
    <2>1. PICK t \in UartThreads : step(t)
      BY <1>13, Zenon
    <2>2. PICK p : p = uart_todo[t]
      BY Zenon
    <2>3. /\ p # <<>> /\ p # Keep /\ uart_todo' = [uart_todo EXCEPT ![t] = Tail(p)]
          /\ UNCHANGED <<fifo_buffer, fifo_enabled, rhr, sent, got, queued>>
      BY <2>1, <2>2, Micro, Zenon
    <2>4. Tail(p) \in Calm \cup Setting
      BY <1>1, <2>2, <2>3, PlansClosed, Zenon
    <2>5. t = "term" => ~Keeping
      BY <2>2, <2>3, Zenon DEF Keeping
    <2>6. /\ Fresh' <=> Fresh
          /\ uart_todo'[t] = Tail(p) /\ \A u \in UartThreads \ {t} : uart_todo'[u] = uart_todo[u]
      BY <2>3, <2>4, <2>5, NewestKept, Zenon
    <2>7. ASSUME Fresh
          PROVE  /\ "DR" \notin lsr'
                 /\ \A u \in UartThreads : "DR" \notin tmp'[u] /\ uart_todo'[u] \in Calm \cup {Keep}
      <3>1. p \in Calm
        BY <1>4, <2>2, <2>3, <2>7, Zenon
      <3>2. Tail(p) \in Calm /\ Head(p) # sD
        BY <2>3, <3>1, PlansClosed, Zenon
      <3>3. Head(p)[1] = "set" => Head(p)[2] = "OE"
        BY <2>3, <3>1, <3>2, SetsFlags, StepKinds, Zenon
      <3>4. "DR" \notin lsr'
        <4>1. PICK x : x = Head(p)[2]
          BY Zenon
        <4>2. \/ lsr' = lsr \/ (Head(p)[1] = "set" /\ lsr' = tmp[t] \cup {x}) \/ lsr' = tmp[t] \ {x}
          BY <2>1, <2>2, <4>1, Micro, Zenon
        <4> QED BY <1>4, <2>7, <3>3, <4>1, <4>2
      <3>5. \A u \in UartThreads : "DR" \notin tmp'[u]
        <4>1. PICK v \in {lsr, {}, {calc_iir_locked}} : tmp' = [tmp EXCEPT ![t] = v]
          BY <2>1, Micro, Zenon
        <4>2. calc_iir_locked # "DR"
          BY Zenon DEF calc_iir_locked
        <4>3. "DR" \notin v
          BY <1>4, <2>7, <4>1, <4>2, Zenon
        <4>4. \A u \in UartThreads : tmp'[u] \in {v, tmp[u]}
          BY <1>1, <4>1, Zenon
        <4> QED BY <1>4, <2>7, <4>3, <4>4, Zenon
      <3> QED BY <1>4, <2>6, <2>7, <3>2, <3>4, <3>5, Zenon
    <2> QED BY <1>4, <1>5, <2>3, <2>6, <2>7, Zenon DEF Untouched
  <1> QED BY <1>7, <1>8, <1>9, <1>10, <1>11, <1>12, <1>13, Actions, Zenon

\* A handler that runs alone finds the other thread between its handlers.
LEMMA AloneNow ==
  ASSUME NEW t \in UartThreads, Overlap(t), ~raced'
  PROVE  ~raced /\ Others(t)
  BY Zenon DEF Overlap, Others

\* Between two handlers nothing is left to do.
LEMMA Resting ==
  ASSUME NEW t \in UartThreads, Alone(t), uart_todo[t] = <<>>
  PROVE  Waiting(DR) /\ Current
  <1>1. ASSUME NEW x \in {sO, sD, rD, rO}, NEW s \in {<<>>, U2, Overrun, Ready, Clear}
        PROVE  ~Rmw(t, x, s)
    <2>1. x \in Steps /\ s \in Seq(Steps)
      BY <1>1, StepKinds, PlanTypes, Zenon
    <2>2. Ld(x, s) # <<>> /\ Pre(x, s) # <<>>
      BY <2>1, Loading, Zenon
    <2> QED BY <2>2, Zenon DEF Rmw
  <1>2. ~Rmw(t, sO, <<>>) /\ ~Rmw(t, sD, <<>>) /\ ~Rmw(t, sO, Ready) /\ ~Rmw(t, sD, U2) /\ ~Rmw(t, rD, Overrun)
    BY <1>1, Zenon
  <1>3. ~Rmw(t, rO, U2) /\ ~Rmw(t, sD, Clear) /\ ~Rmw(t, rD, U2)
    BY <1>1, Zenon
  <1>4. <<>> # Keep /\ <<>> # Overrun /\ <<>> # U2 /\ <<>> # U1
    BY ShortPlans, Zenon
  <1> QED BY <1>2, <1>3, <1>4, Zenon DEF Alone

\* The thread that runs alone is where its own handler says.
LEMMA Place ==
  ASSUME Undisturbed, ~raced, NEW t \in UartThreads, Others(t)
  PROVE  Alone(t)
  <1>1. PICK u \in UartThreads : Others(u) /\ Alone(u)
    BY Zenon DEF Undisturbed
  <1>2. CASE u = t
    BY <1>1, <1>2, Zenon
  <1>3. CASE u # t
    <2>1. uart_todo[u] = <<>> /\ uart_todo[t] = <<>>
      BY <1>1, <1>3, Zenon DEF Others, UartIdle
    <2> QED BY <1>1, <2>1, Resting, Zenon DEF Alone
  <1> QED BY <1>2, <1>3, Zenon

\* The queue's order under the operations on it.
LEMMA WiderOrder ==
  ASSUME NEW b \in Seq(Nat), NEW lo \in Nat, NEW hi \in Nat, NEW top \in Nat, hi <= top, InOrder(b, lo, hi)
  PROVE  InOrder(b, lo, top)
  BY DEF InOrder

\* A byte sent after every byte that waits goes to the end of the queue, in order
\* (the push_back of receive_byte).
LEMMA AppendedOrder ==
  ASSUME NEW b \in Seq(Nat), NEW lo \in Nat, NEW hi \in Nat, NEW x \in Nat, lo < x, hi < x, InOrder(b, lo, hi)
  PROVE  InOrder(Append(b, x), lo, x)
  <1>1. PICK n : n = Len(b) /\ n \in Nat
    OBVIOUS
  <1>2. PICK a : a = Append(b, x)
    OBVIOUS
  <1>3. Len(a) = n + 1 /\ (\A i \in 1 .. n : a[i] = b[i] /\ b[i] \in Nat) /\ a[n + 1] = x
    BY <1>1, <1>2
  <1>4. /\ \A i \in 1 .. n : lo < b[i] /\ b[i] <= hi
        /\ \A i, j \in 1 .. n : i < j => b[i] < b[j]
    BY <1>1, Zenon DEF InOrder
  <1>5. \A i \in 1 .. (n + 1) : i \in 1 .. n \/ i = n + 1
    BY <1>1
  <1>6. \A i \in 1 .. (n + 1) : lo < a[i] /\ a[i] <= x
    BY <1>1, <1>3, <1>4, <1>5
  <1>7. \A i, j \in 1 .. (n + 1) : i < j => a[i] < a[j]
    BY <1>1, <1>3, <1>4, <1>5
  <1> QED BY <1>2, <1>3, <1>6, <1>7 DEF InOrder

\* The byte the guest takes from the front of the queue comes before all that stay.
LEMMA PoppedOrder ==
  ASSUME NEW b \in Seq(Nat), b # <<>>, NEW lo \in Nat, NEW hi \in Nat, InOrder(b, lo, hi)
  PROVE  lo < Head(b) /\ Head(b) <= hi /\ Head(b) \in Nat /\ InOrder(Tail(b), Head(b), hi)
  <1>1. PICK n : n = Len(b) /\ n \in Nat
    OBVIOUS
  <1>2. n >= 1 /\ Head(b) = b[1] /\ b[1] \in Nat
    BY <1>1
  <1>3. PICK a : a = Tail(b)
    OBVIOUS
  <1>4. Len(a) = n - 1 /\ \A i \in 1 .. (n - 1) : a[i] = b[i + 1] /\ b[i + 1] \in Nat
    BY <1>1, <1>2, <1>3
  <1>5. /\ \A i \in 1 .. n : lo < b[i] /\ b[i] <= hi
        /\ \A i, j \in 1 .. n : i < j => b[i] < b[j]
    BY <1>1, Zenon DEF InOrder
  <1>6. \A i \in 1 .. (n - 1) : b[1] < a[i] /\ a[i] <= hi
    BY <1>1, <1>2, <1>4, <1>5
  <1>7. \A i, j \in 1 .. (n - 1) : i < j => a[i] < a[j]
    BY <1>1, <1>2, <1>4, <1>5
  <1> QED BY <1>1, <1>2, <1>3, <1>4, <1>5, <1>6, <1>7 DEF InOrder

\* A queue that a write of FCR has emptied is in order, whatever was sent.
LEMMA EmptyOrder ==
  ASSUME NEW lo, NEW hi
  PROVE  InOrder(<<>>, lo, hi)
  BY DEF InOrder

\* The bytes stay in the order they were sent, on their way and as they are read.
LEMMA OrderedKept ==
  ASSUME UartInv, UartTypes', UartNext
  PROVE  Ordered'
  <1>1. /\ UartTypes /\ Untouched /\ Ordered /\ Undisturbed
        /\ fifo_buffer \in Seq(Nat) /\ fifo_enabled \in BOOLEAN /\ rhr \in Nat /\ got \in Nat \X Nat
        /\ sent \in Nat /\ uart_todo \in [UartThreads -> Calm \cup Setting \cup {Keep}]
        /\ Keeping => sent >= 1
    BY Zenon DEF UartInv, UartTypes
  <1>2. "term" \in UartThreads /\ "hart" \in UartThreads /\ "hart" # "term"
    BY Zenon DEF UartThreads
  <1>3. Newest \in Nat /\ Newest <= sent /\ got[2] \in Nat
    BY <1>1 DEF Newest
  <1>4. ASSUME ~raced \/ queued
        PROVE  /\ got[2] = 0 \/ got[1] < got[2]
               /\ got[2] <= Newest /\ InOrder(fifo_buffer, got[2], Newest)
    BY <1>1, <1>4, Zenon DEF Ordered
  <1>5. /\ <<>> \in Calm /\ U2 \in Calm /\ Ld(rD, Overrun) \in Calm /\ Overrun \in Calm
        /\ Ld(rO, U2) \in Calm /\ Clear \in Calm
        /\ Ld(sO, Ready) \in Setting /\ Ready \in Setting /\ Ld(sD, <<>>) \in Setting /\ Ld(sD, Clear) \in Setting
    BY Zenon DEF Calm, Setting
  <1>6. ASSUME NEW t \in UartThreads, Overlap(t), ~raced' \/ queued', queued' => queued
        PROVE  ~raced \/ queued
    BY <1>6, AloneNow, Zenon
  <1>7. CASE receive_byte
    <2>1. sent' = sent + 1 /\ UNCHANGED <<fifo_buffer, got, queued>> /\ Overlap("term") /\ ~Keeping
      BY <1>1, <1>7, Moves, ShortPlans, Zenon DEF receive_byte, Keeping
    <2>2. Newest' \in Nat /\ Newest <= Newest'
      BY <1>1, <2>1 DEF Newest
    <2> SUFFICES ASSUME ~raced' \/ queued'
                 PROVE  /\ got[2] = 0 \/ got[1] < got[2]
                        /\ got[2] <= Newest' /\ InOrder(fifo_buffer, got[2], Newest')
      BY <2>1, Zenon DEF Ordered
    <2>3. /\ got[2] = 0 \/ got[1] < got[2]
          /\ got[2] <= Newest /\ InOrder(fifo_buffer, got[2], Newest)
      BY <1>2, <1>4, <1>6, <2>1, Zenon
    <2>4. got[2] <= Newest'
      BY <1>3, <2>2, <2>3
    <2>5. PICK hi : hi = Newest'
      BY Zenon
    <2>6. InOrder(fifo_buffer, got[2], hi)
      BY <1>1, <1>3, <2>2, <2>3, <2>5, WiderOrder, Zenon
    <2> QED BY <2>3, <2>4, <2>5, <2>6, Zenon
  <1>8. CASE keep_byte
    <2>1. /\ fifo_buffer' = IF fifo_enabled THEN Append(fifo_buffer, sent) ELSE fifo_buffer
          /\ UNCHANGED <<sent, got>> /\ queued' = (queued /\ fifo_enabled)
      BY <1>8, Zenon DEF keep_byte, push_byte
    <2>2. Keeping /\ Overlap("term")
      BY <1>1, <1>8, Moves, Zenon
    <2>3. ~Keeping'
      <3>1. PICK p : p = IF ~fifo_enabled /\ DR THEN Ld(sO, Ready) ELSE Ready
        BY Zenon
      <3>2. p \in Setting /\ uart_todo' = [uart_todo EXCEPT !["term"] = p]
        BY <1>1, <1>5, <1>8, <3>1, Moves, Zenon
      <3> QED BY <1>1, <1>2, <3>2, PlanChanged, PlansClosed, Zenon DEF Keeping
    <2>4. Newest' = sent /\ Newest = sent - 1
      BY <2>1, <2>2, <2>3, Zenon DEF Newest
    <2> SUFFICES ASSUME ~raced' \/ queued'
                 PROVE  /\ got[2] = 0 \/ got[1] < got[2]
                        /\ got[2] <= sent /\ InOrder(fifo_buffer', got[2], sent)
      BY <2>1, <2>4, Zenon DEF Ordered
    <2>5. /\ got[2] = 0 \/ got[1] < got[2]
          /\ got[2] <= Newest /\ InOrder(fifo_buffer, got[2], Newest)
      BY <1>2, <1>4, <1>6, <2>1, <2>2, Zenon
    <2>6. got[2] < sent /\ Newest < sent /\ got[2] <= sent /\ Newest <= sent
      BY <1>1, <1>3, <2>4, <2>5
    <2>7. InOrder(Append(fifo_buffer, sent), got[2], sent)
      BY <1>1, <1>3, <2>5, <2>6, AppendedOrder, Zenon
    <2>8. InOrder(fifo_buffer, got[2], sent)
      BY <1>1, <1>3, <2>5, <2>6, WiderOrder, Zenon
    <2> QED BY <2>1, <2>5, <2>6, <2>7, <2>8, Zenon
  <1>9. CASE read_RHR
    <2>1. PICK v : v = IF ~fifo_enabled THEN rhr ELSE IF fifo_buffer = <<>> THEN 0 ELSE Head(fifo_buffer)
      BY Zenon
    <2>2. /\ got' = IF v = 0 THEN got ELSE <<got[2], v>>
          /\ fifo_buffer' = IF fifo_enabled /\ fifo_buffer # <<>> THEN Tail(fifo_buffer) ELSE fifo_buffer
          /\ UNCHANGED <<sent, queued>> /\ saw
      BY <1>9, <2>1, Zenon DEF read_RHR
    <2>3. PICK p : p = IF ~fifo_enabled \/ drained(fifo_buffer) THEN Ld(rD, Overrun) ELSE Overrun
      BY Zenon
    <2>4. /\ uart_todo["hart"] = <<>> /\ Overlap("hart")
          /\ p \in Calm /\ uart_todo' = [uart_todo EXCEPT !["hart"] = p]
      BY <1>1, <1>5, <1>9, <2>3, Moves, Zenon
    <2>5. Newest' = Newest
      BY <1>1, <1>2, <2>2, <2>4, NewestKept, Zenon
    <2> SUFFICES ASSUME ~raced' \/ queued'
                 PROVE  /\ got'[2] = 0 \/ got'[1] < got'[2]
                        /\ got'[2] <= Newest /\ InOrder(fifo_buffer', got'[2], Newest)
      BY <2>5, Zenon DEF Ordered
    <2>6. /\ got[2] = 0 \/ got[1] < got[2]
          /\ got[2] <= Newest /\ InOrder(fifo_buffer, got[2], Newest)
      BY <1>2, <1>4, <1>6, <2>2, <2>4, Zenon
    <2>7. CASE fifo_enabled /\ fifo_buffer # <<>>
      <3>1. v = Head(fifo_buffer) /\ fifo_buffer' = Tail(fifo_buffer)
        BY <2>1, <2>2, <2>7, Zenon
      <3>2. got[2] < v /\ v <= Newest /\ v \in Nat /\ InOrder(fifo_buffer', v, Newest)
        BY <1>1, <1>3, <2>6, <2>7, <3>1, PoppedOrder, Zenon
      <3>3. got' = <<got[2], v>>
        BY <1>3, <2>2, <3>2
      <3>4. got'[1] = got[2] /\ got'[2] = v
        BY <3>3
      <3> QED BY <3>2, <3>4, Zenon
    <2>8. CASE fifo_enabled /\ fifo_buffer = <<>>
      BY <2>1, <2>2, <2>6, <2>8, Zenon
    <2>9. CASE ~fifo_enabled
      <3>1. v = rhr /\ fifo_buffer' = fifo_buffer
        BY <2>1, <2>2, <2>9, Zenon
      <3>2. CASE queued'
        <4>1. Fresh
          BY <1>1, <2>2, <2>9, <3>2, Zenon DEF Untouched
        <4>2. v = 0
          BY <1>1, <3>1, <4>1, Zenon DEF Untouched
        <4> QED BY <2>2, <2>6, <3>1, <4>2, Zenon
      <3>3. CASE ~raced'
        <4>1. ~raced /\ Others("hart")
          BY <1>2, <2>4, <3>3, AloneNow, Zenon
        <4>2. Waiting(DR)
          BY <1>1, <1>2, <2>4, <4>1, Place, Resting, Zenon
        <4>3. fifo_buffer = <<>> /\ got[2] < v /\ v <= Newest
          BY <2>2, <2>9, <3>1, <4>2, Zenon DEF Waiting
        <4>4. got' = <<got[2], v>>
          BY <1>1, <1>3, <2>2, <3>1, <4>3
        <4>5. got'[1] = got[2] /\ got'[2] = v
          BY <4>4
        <4> QED BY <3>1, <4>3, <4>5, EmptyOrder, Zenon
      <3> QED BY <3>2, <3>3, Zenon
    <2> QED BY <1>1, <2>7, <2>8, <2>9, Zenon
  <1>10. ASSUME NEW t \in UartThreads, Overlap(t), NEW p \in Calm \cup Setting, t = "term" => ~Keeping,
                uart_todo' = [uart_todo EXCEPT ![t] = p], UNCHANGED <<fifo_buffer, sent, got, queued>>
         PROVE  Ordered'
    <2>1. Newest' = Newest
      BY <1>1, <1>10, NewestKept, Zenon
    <2> QED BY <1>4, <1>6, <1>10, <2>1, Zenon DEF Ordered
  <1>11. CASE overrun_reset
    <2>1. PICK p : p = IF "OE" \in lsr THEN Ld(rO, U2) ELSE U2
      BY Zenon
    <2>2. p \in Calm /\ Overlap("hart") /\ uart_todo' = [uart_todo EXCEPT !["hart"] = p]
      BY <1>1, <1>5, <1>11, <2>1, Moves, Zenon
    <2>3. UNCHANGED <<fifo_buffer, sent, got, queued>>
      BY <1>11, Zenon DEF overrun_reset
    <2> QED BY <1>2, <1>10, <2>2, <2>3, Zenon
  <1>12. CASE \E p \in {<<>>, U2} : Quick(p)
    <2>1. PICK p \in {<<>>, U2} : Quick(p)
      BY <1>12, Zenon
    <2>2. p \in Calm
      BY <1>5, <2>1, Zenon
    <2> QED BY <1>2, <1>10, <2>1, <2>2, Zenon DEF Quick
  <1>13. CASE \E on, c \in BOOLEAN : write_FCR(on, c)
    <2>1. PICK on \in BOOLEAN, c \in BOOLEAN : write_FCR(on, c)
      BY <1>13, Zenon
    <2>2. /\ UNCHANGED <<sent, got>> /\ queued' = (queued /\ (on \/ sent = 0))
          /\ fifo_buffer' = IF c THEN <<>>
                            ELSE IF on /\ ~fifo_enabled /\ "DR" \in lsr THEN Append(fifo_buffer, rhr)
                            ELSE IF ~on /\ fifo_enabled /\ fifo_buffer # <<>> THEN <<>> ELSE fifo_buffer
      BY <2>1, FcrEffect, Zenon
    <2>3. uart_todo["hart"] = <<>> /\ Overlap("hart")
      BY <2>1, FcrMoves, Zenon
    <2>4. \E p \in Calm \cup Setting : uart_todo' = [uart_todo EXCEPT !["hart"] = p]
      <3>1. \E p \in {Ld(sD, Clear), Ld(sD, <<>>), Clear, <<>>} : uart_todo' = [uart_todo EXCEPT !["hart"] = p]
        BY <2>1, FcrMoves, Zenon
      <3> QED BY <1>5, <3>1, Zenon
    <2>5. Newest' = Newest
      BY <1>1, <1>2, <2>2, <2>4, NewestKept, Zenon
    <2> SUFFICES ASSUME ~raced' \/ queued'
                 PROVE  /\ got[2] = 0 \/ got[1] < got[2]
                        /\ got[2] <= Newest /\ InOrder(fifo_buffer', got[2], Newest)
      BY <2>2, <2>5, Zenon DEF Ordered
    <2>6. /\ got[2] = 0 \/ got[1] < got[2]
          /\ got[2] <= Newest /\ InOrder(fifo_buffer, got[2], Newest)
      BY <1>2, <1>4, <1>6, <2>2, <2>3, Zenon
    <2>7. CASE ~c /\ on /\ ~fifo_enabled /\ "DR" \in lsr
      <3>1. ~queued'
        BY <1>1, <2>2, <2>7, Zenon DEF Untouched
      <3>2. ~raced /\ Others("hart")
        BY <1>2, <2>3, <3>1, AloneNow, Zenon
      <3>3. Waiting(DR)
        BY <1>1, <1>2, <2>3, <3>2, Place, Resting, Zenon
      <3>4. fifo_buffer = <<>> /\ got[2] < rhr /\ rhr <= Newest
        BY <2>7, <3>3, Zenon DEF Waiting, DR
      <3>5. <<>> \in Seq(Nat) /\ 0 \in Nat /\ 0 < rhr
        BY <1>1, <1>3, <3>4
      <3>6. InOrder(Append(<<>>, rhr), got[2], rhr)
        BY <1>1, <1>3, <3>4, <3>5, AppendedOrder, EmptyOrder, Zenon
      <3>7. fifo_buffer' = Append(<<>>, rhr) /\ Append(<<>>, rhr) \in Seq(Nat)
        BY <1>1, <2>2, <2>7, <3>4
      <3> QED BY <1>1, <1>3, <2>6, <3>4, <3>6, <3>7, WiderOrder, Zenon
    <2>8. CASE ~(~c /\ on /\ ~fifo_enabled /\ "DR" \in lsr)
      <3>1. fifo_buffer' = <<>> \/ fifo_buffer' = fifo_buffer
        BY <2>2, <2>8, Zenon
      <3> QED BY <2>6, <3>1, EmptyOrder, Zenon
    <2> QED BY <2>7, <2>8, Zenon
  <1>14. CASE \E t \in UartThreads : step(t)
    <2>1. PICK t \in UartThreads : step(t)
      BY <1>14, Zenon
    <2>2. PICK p : p = uart_todo[t]
      BY Zenon
    <2>3. /\ p # <<>> /\ p # Keep /\ uart_todo' = [uart_todo EXCEPT ![t] = Tail(p)] /\ Overlap(t)
          /\ UNCHANGED <<fifo_buffer, sent, got, queued>>
      BY <1>1, <2>1, <2>2, Micro, Zenon
    <2>4. Tail(p) \in Calm \cup Setting
      BY <1>1, <2>2, <2>3, PlansClosed, Zenon
    <2>5. t = "term" => ~Keeping
      BY <2>2, <2>3, Zenon DEF Keeping
    <2> QED BY <1>10, <2>3, <2>4, <2>5, Zenon
  <1> QED BY <1>7, <1>8, <1>9, <1>11, <1>12, <1>13, <1>14, Actions, Zenon

\* DATA_READY keeps saying whether a byte waits while the bytes stay where they are.
LEMMA WaitingKept ==
  ASSUME UNCHANGED <<fifo_buffer, fifo_enabled, rhr, got>>, saw' = saw \/ saw' = FALSE,
         rhr \in Nat, Newest \in Nat, Newest' \in Nat, Newest <= Newest'
  PROVE  /\ Waiting(DR) /\ (DR' <=> DR) => Waiting(DR)'
         /\ Waiting(TRUE) => Waiting(TRUE)'
         /\ Waiting(FALSE) => Waiting(FALSE)'
         /\ Waiting(TRUE) /\ DR' => Waiting(DR)'
         /\ Waiting(FALSE) /\ ~DR' => Waiting(DR)'
  <1>1. rhr <= Newest => rhr <= Newest'
    OBVIOUS
  <1>2. Waiting(DR) /\ (DR' <=> DR) => Waiting(DR)'
    BY <1>1, Zenon DEF Waiting
  <1>3. Waiting(TRUE) => Waiting(TRUE)'
    BY <1>1, Zenon DEF Waiting
  <1>4. Waiting(FALSE) => Waiting(FALSE)'
    BY <1>1, Zenon DEF Waiting
  <1>5. Waiting(TRUE) /\ DR' => Waiting(DR)'
    BY <1>1, Zenon DEF Waiting
  <1>6. Waiting(FALSE) /\ ~DR' => Waiting(DR)'
    BY <1>1, Zenon DEF Waiting
  <1> QED BY <1>2, <1>3, <1>4, <1>5, <1>6, Zenon

\* IIR and the line stay current while IER and DATA_READY do not change.
LEMMA CurrentKept ==
  ASSUME UNCHANGED ier, DR' <=> DR
  PROVE  /\ calc_iir_locked' = calc_iir_locked
         /\ Current /\ UNCHANGED <<iir, uart_line>> => Current'
  <1>1. calc_iir_locked' = calc_iir_locked
    BY Zenon DEF calc_iir_locked, DR
  <1> QED BY <1>1, Zenon DEF Current

\* A step of a load and its store, by a thread that runs alone.
LEMMA RmwStep ==
  ASSUME UartTypes, NEW t \in UartThreads, step(t), NEW x \in {sO, sD, rD, rO},
         NEW s \in {<<>>, U2, Overrun, Ready, Clear}, Rmw(t, x, s)
  PROVE  /\ UNCHANGED <<iir, uart_line>>
         /\ \/ Rmw(t, x, s)' /\ lsr' = lsr
            \/ /\ uart_todo'[t] = s
               /\ x \in {sO, rO} => (DR' <=> DR)
               /\ x = sD => DR'
               /\ x = rD => ~DR'
  <1>1. x \in Steps /\ s \in Seq(Steps)
    BY StepKinds, PlanTypes, Zenon
  <1>2. /\ Head(Ld(x, s)) = load /\ Tail(Ld(x, s)) = Pre(x, s) /\ Head(Pre(x, s)) = x /\ Tail(Pre(x, s)) = s
    BY <1>1, Loading, Zenon
  <1>3. load[1] = "load" /\ x[1] \in {"set", "reset"}
    BY StepKinds, Zenon
  <1>4. tmp \in [UartThreads -> SUBSET Bits] /\ uart_todo \in [UartThreads -> Calm \cup Setting \cup {Keep}]
    BY Zenon DEF UartTypes
  <1>5. PICK p : p = uart_todo[t]
    BY Zenon
  <1>6. uart_todo' = [uart_todo EXCEPT ![t] = Tail(p)]
    BY <1>5, Micro, Zenon
  <1>7. uart_todo'[t] = Tail(p)
    BY <1>4, <1>6, Zenon
  <1>8. CASE p = Ld(x, s)
    <2>1. Head(p)[1] = "load"
      BY <1>2, <1>3, <1>8, Zenon
    <2>2. tmp' = [tmp EXCEPT ![t] = lsr] /\ UNCHANGED <<lsr, iir, uart_line>>
      BY <1>5, <2>1, Micro, Zenon
    <2>3. tmp'[t] = lsr'
      BY <1>4, <2>2, Zenon
    <2> QED BY <1>2, <1>7, <1>8, <2>2, <2>3, Zenon DEF Rmw
  <1>9. CASE p = Pre(x, s) /\ tmp[t] = lsr
    <2>1. Head(p) = x /\ uart_todo'[t] = s
      BY <1>2, <1>7, <1>9, Zenon
    <2>2. UNCHANGED <<iir, uart_line>>
      BY <1>3, <1>5, <2>1, Micro, Zenon
    <2>3. PICK y : y = x[2]
      BY Zenon
    <2>4. /\ x[1] = "set" => lsr' = lsr \cup {y}
          /\ x[1] = "reset" => lsr' = lsr \ {y}
      BY <1>5, <1>9, <2>1, <2>3, Micro, Zenon
    <2>5. CASE x = sO
      <3>1. x[1] = "set" /\ y = "OE" /\ x # sD /\ x # rD
        BY <2>3, <2>5, StepKinds
      <3> QED BY <2>1, <2>2, <2>4, <3>1 DEF DR
    <2>6. CASE x = sD
      <3>1. x[1] = "set" /\ y = "DR" /\ x # sO /\ x # rD /\ x # rO
        BY <2>3, <2>6, StepKinds
      <3> QED BY <2>1, <2>2, <2>4, <3>1 DEF DR
    <2>7. CASE x = rD
      <3>1. x[1] = "reset" /\ y = "DR" /\ x # sO /\ x # sD /\ x # rO
        BY <2>3, <2>7, StepKinds
      <3> QED BY <2>1, <2>2, <2>4, <3>1 DEF DR
    <2>8. CASE x = rO
      <3>1. x[1] = "reset" /\ y = "OE" /\ x # sD /\ x # rD
        BY <2>3, <2>8, StepKinds
      <3> QED BY <2>1, <2>2, <2>4, <3>1 DEF DR
    <2> QED BY <2>5, <2>6, <2>7, <2>8, Zenon
  <1> QED BY <1>5, <1>8, <1>9, Zenon DEF Rmw

\* A thread whose next step is to keep a byte, or to test for an overrun.
LEMMA Paused ==
  ASSUME NEW t \in UartThreads, Alone(t), uart_todo[t] = Keep \/ uart_todo[t] = Overrun
  PROVE  Waiting(DR)
  <1>1. ASSUME NEW x \in {sO, sD, rD, rO}, NEW s \in {<<>>, U2, Overrun, Ready, Clear}
        PROVE  ~Rmw(t, x, s)
    <2>1. x \in Steps /\ s \in Seq(Steps)
      BY <1>1, StepKinds, PlanTypes, Zenon
    <2>2. Head(Ld(x, s)) = load /\ Head(Pre(x, s)) = x
      BY <2>1, Loading, Zenon
    <2>3. Head(uart_todo[t])[1] \in {"keep", "overrun"}
      BY ShortPlans, StepKinds, Zenon
    <2>4. load[1] = "load" /\ x[1] \in {"set", "reset"}
      BY <1>1, StepKinds, Zenon
    <2> QED BY <2>2, <2>3, <2>4, Zenon DEF Rmw
  <1>2. ~Rmw(t, sO, <<>>) /\ ~Rmw(t, sD, <<>>) /\ ~Rmw(t, sO, Ready) /\ ~Rmw(t, sD, U2) /\ ~Rmw(t, rD, Overrun)
    BY <1>1, Zenon
  <1>3. ~Rmw(t, rO, U2) /\ ~Rmw(t, sD, Clear) /\ ~Rmw(t, rD, U2)
    BY <1>1, Zenon
  <1> QED BY <1>2, <1>3, Zenon DEF Alone

\* A step of a thread that runs alone takes it to the next place of its handler.
LEMMA AloneStep ==
  ASSUME UartTypes, NEW t \in UartThreads, step(t), Alone(t)
  PROVE  Alone(t)'
  <1>1. PICK p : p = uart_todo[t]
    BY Zenon
  <1>2. /\ p # <<>> /\ p # Keep /\ p # Overrun
        /\ uart_todo' = [uart_todo EXCEPT ![t] = Tail(p)]
        /\ UNCHANGED <<fifo_buffer, fifo_enabled, rhr, ier, sent, saw, got>>
    BY <1>1, Micro, Zenon
  <1>3. /\ rhr \in Nat /\ sent \in Nat
        /\ Keeping => sent >= 1
        /\ uart_todo \in [UartThreads -> Calm \cup Setting \cup {Keep}] /\ tmp \in [UartThreads -> SUBSET Bits]
    BY Zenon DEF UartTypes
  <1>4. /\ Newest' = Newest /\ uart_todo'[t] = Tail(p)
    <2>1. Tail(p) \in Calm \cup Setting
      BY <1>1, <1>2, <1>3, PlansClosed, Zenon
    <2>2. t = "term" => ~Keeping
      BY <1>1, <1>2, Zenon DEF Keeping
    <2> QED BY <1>2, <2>1, <2>2, NewestKept, Zenon
  <1>5. Newest \in Nat /\ Newest' \in Nat /\ Newest <= Newest'
    <2>1. Newest \in Nat
      BY <1>3 DEF Newest
    <2> QED BY <1>4, <2>1
  <1>6. /\ Waiting(DR) /\ (DR' <=> DR) => Waiting(DR)'
        /\ Waiting(TRUE) => Waiting(TRUE)'
        /\ Waiting(FALSE) => Waiting(FALSE)'
        /\ Waiting(TRUE) /\ DR' => Waiting(DR)'
        /\ Waiting(FALSE) /\ ~DR' => Waiting(DR)'
    BY <1>2, <1>3, <1>5, WaitingKept, Zenon
  <1>7. ASSUME DR' <=> DR
        PROVE  /\ calc_iir_locked' = calc_iir_locked
               /\ Current /\ UNCHANGED <<iir, uart_line>> => Current'
    BY <1>2, <1>7, CurrentKept, Zenon
  <1>8. lsr' = lsr => (DR' <=> DR)
    BY Zenon DEF DR
  <1>9. ASSUME NEW x \in {sO, sD, rD, rO}, NEW s \in {<<>>, U2, Overrun, Ready, Clear}, Rmw(t, x, s)
        PROVE  /\ UNCHANGED <<iir, uart_line>>
               /\ \/ Rmw(t, x, s)' /\ lsr' = lsr
                  \/ /\ uart_todo'[t] = s
                     /\ x \in {sO, rO} => (DR' <=> DR)
                     /\ x = sD => DR'
                     /\ x = rD => ~DR'
    BY <1>9, RmwStep, Zenon
  <1>10. CASE Rmw(t, sO, <<>>) /\ Waiting(DR) /\ Current
    <2>1. (DR' <=> DR) /\ UNCHANGED <<iir, uart_line>> /\ (Rmw(t, sO, <<>>)' \/ uart_todo'[t] = <<>>)
      BY <1>8, <1>9, <1>10, Zenon
    <2>2. Waiting(DR)' /\ Current'
      BY <1>6, <1>7, <1>10, <2>1, Zenon
    <2> QED BY <2>1, <2>2, Zenon DEF Alone
  <1>11. CASE Rmw(t, sD, <<>>) /\ Waiting(DR) /\ Current /\ DR
    <2>1. DR' /\ UNCHANGED <<iir, uart_line>> /\ (Rmw(t, sD, <<>>)' \/ uart_todo'[t] = <<>>)
      BY <1>8, <1>9, <1>11, Zenon
    <2>2. Waiting(DR)' /\ Current'
      BY <1>6, <1>7, <1>11, <2>1, Zenon
    <2> QED BY <2>1, <2>2, Zenon DEF Alone
  <1>12. CASE Rmw(t, sO, Ready) /\ Waiting(TRUE)
    <2>1. Rmw(t, sO, Ready)' \/ Rmw(t, sD, U2)'
      BY <1>9, <1>12, Zenon DEF Rmw, Ready
    <2> QED BY <1>6, <1>12, <2>1, Zenon DEF Alone
  <1>13. CASE Rmw(t, sD, U2) /\ Waiting(TRUE)
    <2>1. Rmw(t, sD, U2)' \/ (uart_todo'[t] = U2 /\ DR')
      BY <1>9, <1>13, Zenon
    <2> QED BY <1>6, <1>13, <2>1, Zenon DEF Alone
  <1>14. CASE Rmw(t, rD, Overrun) /\ Waiting(FALSE)
    <2>1. Rmw(t, rD, Overrun)' \/ (uart_todo'[t] = Overrun /\ ~DR')
      BY <1>9, <1>14, Zenon
    <2> QED BY <1>6, <1>14, <2>1, Zenon DEF Alone
  <1>15. CASE Rmw(t, rO, U2) /\ Waiting(DR)
    <2>1. (DR' <=> DR) /\ (Rmw(t, rO, U2)' \/ uart_todo'[t] = U2)
      BY <1>8, <1>9, <1>15, Zenon
    <2> QED BY <1>6, <1>15, <2>1, Zenon DEF Alone
  <1>16. CASE Rmw(t, sD, Clear) /\ Waiting(FALSE)
    <2>1. Rmw(t, sD, Clear)' \/ Rmw(t, rD, U2)'
      BY <1>9, <1>16, Zenon DEF Rmw, Clear
    <2> QED BY <1>6, <1>16, <2>1, Zenon DEF Alone
  <1>17. CASE Rmw(t, rD, U2) /\ Waiting(FALSE)
    <2>1. Rmw(t, rD, U2)' \/ (uart_todo'[t] = U2 /\ ~DR')
      BY <1>9, <1>17, Zenon
    <2> QED BY <1>6, <1>17, <2>1, Zenon DEF Alone
  <1>18. CASE uart_todo[t] = U2 /\ Waiting(DR)
    <2>1. Head(p)[1] = "calc" /\ Tail(p) = U1
      BY <1>1, <1>18, ShortPlans, StepKinds, Zenon
    <2>2. tmp' = [tmp EXCEPT ![t] = {calc_iir_locked}] /\ lsr' = lsr
      BY <1>1, <2>1, Micro, Zenon
    <2>3. tmp'[t] = {calc_iir_locked}
      BY <1>3, <2>2, Zenon
    <2>4. Waiting(DR)' /\ calc_iir_locked' = calc_iir_locked
      BY <1>6, <1>7, <1>8, <1>18, <2>2, Zenon
    <2> QED BY <1>4, <2>1, <2>3, <2>4, Zenon DEF Alone
  <1>19. CASE uart_todo[t] = U1 /\ Waiting(DR) /\ tmp[t] = {calc_iir_locked}
    <2>1. Head(p)[1] = "post" /\ Tail(p) = <<>>
      BY <1>1, <1>19, ShortPlans, StepKinds, Zenon
    <2>2. lsr' = lsr /\ iir' = (CHOOSE i \in tmp[t] : TRUE) /\ uart_line' = (tmp[t] # {"NONE"})
      BY <1>1, <2>1, Micro, Zenon
    <2>3. PICK c : c = calc_iir_locked
      BY Zenon
    <2>4. (CHOOSE i \in {c} : TRUE) = c /\ ({c} # {"NONE"} <=> c # "NONE")
      BY Zenon
    <2>5. iir' = c /\ uart_line' = (c # "NONE")
      BY <1>19, <2>2, <2>3, <2>4, Zenon
    <2>6. Waiting(DR)' /\ calc_iir_locked' = c
      BY <1>6, <1>7, <1>8, <1>19, <2>2, <2>3, Zenon
    <2> QED BY <1>4, <2>1, <2>5, <2>6, Zenon DEF Alone, Current
  <1> QED BY <1>1, <1>2, <1>10, <1>11, <1>12, <1>13, <1>14, <1>15, <1>16, <1>17, <1>18, <1>19, Zenon DEF Alone

\* A handler that runs alone leaves its thread where the handler goes on.
LEMMA UndisturbedKept ==
  ASSUME UartInv, UartTypes', UartNext
  PROVE  Undisturbed'
  <1>1. /\ UartTypes /\ Untouched /\ Ordered /\ Undisturbed
        /\ fifo_buffer \in Seq(Nat) /\ fifo_enabled \in BOOLEAN /\ rhr \in Nat /\ got \in Nat \X Nat
        /\ sent \in Nat /\ uart_todo \in [UartThreads -> Calm \cup Setting \cup {Keep}]
        /\ Keeping => sent >= 1
    BY Zenon DEF UartInv, UartTypes
  <1>2. "term" \in UartThreads /\ "hart" \in UartThreads /\ "hart" # "term"
    BY Zenon DEF UartThreads
  <1>3. Newest \in Nat /\ Newest <= sent /\ got[2] \in Nat
    BY <1>1 DEF Newest
  <1>4. /\ <<>> \in Calm /\ U2 \in Calm /\ Ld(rD, Overrun) \in Calm /\ Overrun \in Calm
        /\ Ld(rO, U2) \in Calm /\ Clear \in Calm /\ Ld(sO, <<>>) \in Calm
        /\ Ld(sO, Ready) \in Setting /\ Ready \in Setting /\ Ld(sD, <<>>) \in Setting /\ Ld(sD, Clear) \in Setting
    BY Zenon DEF Calm, Setting
  <1> SUFFICES ASSUME ~raced'
               PROVE  \E t \in UartThreads : Others(t)' /\ Alone(t)'
    BY Zenon DEF Undisturbed
  <1>5. ASSUME NEW t \in UartThreads, Overlap(t), NEW p \in Calm \cup Setting \cup {Keep},
               uart_todo' = [uart_todo EXCEPT ![t] = p]
        PROVE  ~raced /\ Alone(t) /\ Others(t)' /\ uart_todo'[t] = p
    <2>1. ~raced /\ Others(t)
      BY <1>5, AloneNow, Zenon
    <2>2. uart_todo'[t] = p /\ \A u \in UartThreads \ {t} : uart_todo'[u] = uart_todo[u]
      BY <1>1, <1>5, PlanChanged, Zenon
    <2> QED BY <1>1, <2>1, <2>2, Place, Zenon DEF Others, UartIdle
  <1>6. ASSUME NEW p \in Calm \cup Setting, uart_todo' = [uart_todo EXCEPT !["hart"] = p], sent' = sent
        PROVE  Newest' = Newest /\ Newest' \in Nat /\ Newest <= Newest'
    <2>1. Newest' = Newest
      BY <1>1, <1>2, <1>6, NewestKept, Zenon
    <2> QED BY <1>3, <2>1
  <1>7. CASE receive_byte
    <2>1. PICK p : p = IF fifo_enabled /\ Len(fifo_buffer) >= FIFO THEN Ld(sO, <<>>) ELSE Keep
      BY Zenon
    <2>2. /\ uart_todo["term"] = <<>> /\ Overlap("term") /\ p \in {Ld(sO, <<>>), Keep}
          /\ uart_todo' = [uart_todo EXCEPT !["term"] = p]
      BY <1>1, <1>7, <2>1, Moves, Zenon
    <2>3. Alone("term") /\ Others("term")' /\ uart_todo'["term"] = p
      BY <1>2, <1>4, <1>5, <2>2, Zenon
    <2>4. Waiting(DR) /\ Current
      BY <1>2, <2>2, <2>3, Resting, Zenon
    <2>5. sent' = sent + 1 /\ UNCHANGED <<fifo_buffer, fifo_enabled, rhr, lsr, ier, iir, uart_line, saw, got>>
      BY <1>7, Zenon DEF receive_byte
    <2>6. Newest = sent /\ Newest' \in Nat /\ Newest <= Newest'
      <3>1. ~Keeping
        BY <2>2, ShortPlans, Zenon DEF Keeping
      <3> QED BY <1>1, <2>5, <3>1 DEF Newest
    <2>7. DR' <=> DR
      BY <2>5, Zenon DEF DR
    <2>8. Waiting(DR)'
      BY <1>1, <1>3, <2>4, <2>5, <2>6, <2>7, WaitingKept, Zenon
    <2>9. Current'
      BY <2>4, <2>5, <2>7, CurrentKept, Zenon
    <2> QED BY <1>2, <2>2, <2>3, <2>8, <2>9, Zenon DEF Alone, Rmw
  <1>8. CASE keep_byte
    <2>1. PICK p : p = IF ~fifo_enabled /\ DR THEN Ld(sO, Ready) ELSE Ready
      BY Zenon
    <2>2. /\ Keeping /\ Overlap("term") /\ p \in Setting
          /\ uart_todo' = [uart_todo EXCEPT !["term"] = p]
      BY <1>1, <1>4, <1>8, <2>1, Moves, Zenon
    <2>3. ~raced /\ Alone("term") /\ Others("term")' /\ uart_todo'["term"] = p
      BY <1>2, <1>5, <2>2, Zenon
    <2>4. Waiting(DR)
      BY <1>2, <2>2, <2>3, Paused, Zenon DEF Keeping
    <2>5. /\ fifo_buffer' = IF fifo_enabled THEN Append(fifo_buffer, sent) ELSE fifo_buffer
          /\ rhr' = IF fifo_enabled \/ "DR" \in lsr THEN rhr ELSE sent
          /\ UNCHANGED <<fifo_enabled, lsr, sent, saw, got>>
      BY <1>8, Zenon DEF keep_byte, push_byte
    <2>6. Newest' = sent /\ Newest = sent - 1
      <3>1. ~Keeping'
        BY <2>2, <2>3, PlansClosed, Zenon DEF Keeping
      <3> QED BY <2>2, <2>5, <3>1, Zenon DEF Newest
    <2>7. got[2] <= Newest
      BY <1>1, <2>3, Zenon DEF Ordered
    <2>8. Waiting(TRUE)'
      <3>1. CASE fifo_enabled
        <4>1. fifo_buffer' # <<>>
          BY <1>1, <2>5, <3>1
        <4> QED BY <2>5, <3>1, <4>1, Zenon DEF Waiting
      <3>2. CASE ~fifo_enabled /\ DR
        <4>1. fifo_buffer = <<>> /\ got[2] < rhr /\ rhr <= Newest
          BY <2>4, <3>2, Zenon DEF Waiting
        <4>2. rhr <= Newest'
          BY <1>1, <1>3, <2>6, <4>1
        <4> QED BY <2>5, <3>2, <4>1, <4>2, Zenon DEF Waiting, DR
      <3>3. CASE ~fifo_enabled /\ ~DR
        <4>1. fifo_buffer' = <<>> /\ rhr' = sent /\ got' = got /\ fifo_enabled' = fifo_enabled
          BY <2>4, <2>5, <3>3, Zenon DEF Waiting, DR
        <4>2. got[2] < sent /\ sent <= sent
          BY <1>1, <1>3, <2>6, <2>7
        <4> QED BY <2>6, <3>3, <4>1, <4>2, Zenon DEF Waiting
      <3> QED BY <3>1, <3>2, <3>3, Zenon
    <2> QED BY <1>2, <2>1, <2>3, <2>8, Zenon DEF Alone, Rmw, Ready
  <1>9. CASE read_RHR
    <2>1. PICK p : p = IF ~fifo_enabled \/ drained(fifo_buffer) THEN Ld(rD, Overrun) ELSE Overrun
      BY Zenon
    <2>2. /\ uart_todo["hart"] = <<>> /\ Overlap("hart") /\ p \in Calm
          /\ uart_todo' = [uart_todo EXCEPT !["hart"] = p]
      BY <1>1, <1>4, <1>9, <2>1, Moves, Zenon
    <2>3. Alone("hart") /\ Others("hart")' /\ uart_todo'["hart"] = p
      BY <1>2, <1>5, <2>2, Zenon
    <2>4. /\ fifo_buffer' = IF fifo_enabled /\ fifo_buffer # <<>> THEN Tail(fifo_buffer) ELSE fifo_buffer
          /\ UNCHANGED <<fifo_enabled, lsr>> /\ saw /\ saw' = FALSE
      BY <1>9, Zenon DEF read_RHR
    <2>5. Waiting(DR) /\ DR
      BY <1>2, <2>2, <2>3, <2>4, Resting, Zenon DEF Waiting
    <2>6. CASE ~fifo_enabled
      BY <1>2, <2>1, <2>3, <2>4, <2>5, <2>6, Zenon DEF Alone, Rmw, Waiting
    <2>7. CASE fifo_enabled
      <3>1. fifo_buffer # <<>> /\ fifo_buffer' = Tail(fifo_buffer)
        BY <2>4, <2>5, <2>7, Zenon DEF Waiting
      <3>2. fifo_buffer' # <<>> <=> ~drained(fifo_buffer)
        <4>1. Len(fifo_buffer') = Len(fifo_buffer) - 1 /\ Len(fifo_buffer) \in Nat /\ fifo_buffer' \in Seq(Nat)
          BY <1>1, <3>1
        <4>2. fifo_buffer' = <<>> <=> Len(fifo_buffer') = 0
          BY <4>1, EmptySeq
        <4> QED BY <4>1, <4>2 DEF drained
      <3>3. DR'
        BY <2>4, <2>5, Zenon DEF DR
      <3>4. CASE drained(fifo_buffer)
        <4>1. Waiting(FALSE)'
          BY <2>4, <2>7, <3>2, <3>4, Zenon DEF Waiting
        <4> QED BY <1>2, <2>1, <2>3, <3>4, <4>1, Zenon DEF Alone, Rmw
      <3>5. CASE ~drained(fifo_buffer)
        <4>1. Waiting(DR)'
          BY <2>4, <2>7, <3>2, <3>3, <3>5, Zenon DEF Waiting
        <4> QED BY <1>2, <2>1, <2>3, <2>7, <3>5, <4>1, Zenon DEF Alone
      <3> QED BY <3>4, <3>5, Zenon
    <2> QED BY <2>6, <2>7, Zenon
  <1>10. CASE overrun_reset
    <2>1. PICK p : p = IF "OE" \in lsr THEN Ld(rO, U2) ELSE U2
      BY Zenon
    <2>2. /\ uart_todo["hart"] = Overrun /\ Overlap("hart") /\ p \in Calm /\ p \in {Ld(rO, U2), U2}
          /\ uart_todo' = [uart_todo EXCEPT !["hart"] = p]
      BY <1>1, <1>4, <1>10, <2>1, Moves, Zenon
    <2>3. Alone("hart") /\ Others("hart")' /\ uart_todo'["hart"] = p
      BY <1>2, <1>5, <2>2, Zenon
    <2>4. Waiting(DR)
      BY <1>2, <2>2, <2>3, Paused, Zenon
    <2>5. UNCHANGED <<fifo_buffer, fifo_enabled, rhr, lsr, sent, saw, got>>
      BY <1>10, Zenon DEF overrun_reset
    <2>6. DR' <=> DR
      BY <2>5, Zenon DEF DR
    <2>7. Waiting(DR)'
      BY <1>1, <1>3, <1>6, <2>2, <2>4, <2>5, <2>6, WaitingKept, Zenon
    <2> QED BY <1>2, <2>2, <2>3, <2>7, Zenon DEF Alone, Rmw
  <1>11. CASE \E p \in {<<>>, U2} : Quick(p)
    <2>1. PICK p \in {<<>>, U2} : Quick(p)
      BY <1>11, Zenon
    <2>2. /\ uart_todo["hart"] = <<>> /\ Overlap("hart") /\ p \in Calm
          /\ uart_todo' = [uart_todo EXCEPT !["hart"] = p]
          /\ UNCHANGED <<fifo_buffer, fifo_enabled, rhr, lsr, iir, uart_line, sent, got>>
          /\ saw' = saw \/ saw' = DR
          /\ p = U2 \/ (p = <<>> /\ ier' = ier)
      BY <1>4, <2>1, Zenon DEF Quick
    <2>3. Alone("hart") /\ Others("hart")' /\ uart_todo'["hart"] = p
      BY <1>2, <1>5, <2>2, Zenon
    <2>4. Waiting(DR) /\ Current
      BY <1>2, <2>2, <2>3, Resting, Zenon
    <2>5. DR' <=> DR
      BY <2>2, Zenon DEF DR
    <2>6. Newest' = Newest
      BY <1>6, <2>2, Zenon
    <2>7. Waiting(DR)'
      <3>1. saw' => DR'
        BY <2>2, <2>4, <2>5, Zenon DEF Waiting
      <3> QED BY <2>2, <2>4, <2>5, <2>6, <3>1, Zenon DEF Waiting
    <2>8. CASE p = U2
      BY <1>2, <2>3, <2>7, <2>8, Zenon DEF Alone
    <2>9. CASE p = <<>> /\ ier' = ier
      <3>1. Current'
        BY <2>2, <2>4, <2>5, <2>9, CurrentKept, Zenon
      <3> QED BY <1>2, <2>3, <2>7, <2>9, <3>1, Zenon DEF Alone
    <2> QED BY <2>2, <2>8, <2>9, Zenon
  <1>12. CASE \E t \in UartThreads : step(t)
    <2>1. PICK t \in UartThreads : step(t)
      BY <1>12, Zenon
    <2>2. PICK p : p = uart_todo[t]
      BY Zenon
    <2>3. /\ p # <<>> /\ p # Keep /\ uart_todo' = [uart_todo EXCEPT ![t] = Tail(p)] /\ Overlap(t)
      BY <1>1, <2>1, <2>2, Micro, Zenon
    <2>4. Tail(p) \in Calm \cup Setting
      BY <1>1, <2>2, <2>3, PlansClosed, Zenon
    <2>5. Alone(t) /\ Others(t)'
      BY <1>5, <2>3, <2>4, Zenon
    <2> QED BY <1>1, <2>1, <2>5, AloneStep, Zenon
  <1>13. CASE \E on, c \in BOOLEAN : write_FCR(on, c)
    <2>1. PICK on \in BOOLEAN, c \in BOOLEAN : write_FCR(on, c)
      BY <1>13, Zenon
    <2>2. PICK enter, leave : /\ enter = (on /\ ~fifo_enabled /\ DR)
                              /\ leave = (~on /\ fifo_enabled /\ fifo_buffer # <<>>)
      BY Zenon
    <2>3. PICK p : p = IF enter \/ leave THEN IF c THEN Ld(sD, Clear) ELSE Ld(sD, <<>>)
                       ELSE IF c THEN Clear ELSE <<>>
      BY Zenon
    <2>4. /\ uart_todo["hart"] = <<>> /\ Overlap("hart") /\ p \in Calm \cup Setting
          /\ uart_todo' = [uart_todo EXCEPT !["hart"] = p]
      <3>1. p = IF (on /\ ~fifo_enabled /\ DR) \/ (~on /\ fifo_enabled /\ fifo_buffer # <<>>)
                THEN IF c THEN Ld(sD, Clear) ELSE Ld(sD, <<>>)
                ELSE IF c THEN Clear ELSE <<>>
        BY <2>2, <2>3, Zenon
      <3>2. uart_todo["hart"] = <<>> /\ Overlap("hart") /\ uart_todo' = [uart_todo EXCEPT !["hart"] = p]
        BY <2>1, <3>1, FcrMoves, Zenon
      <3> QED BY <1>4, <2>3, <3>2, Zenon
    <2>5. Alone("hart") /\ Others("hart")' /\ uart_todo'["hart"] = p
      BY <1>2, <1>5, <2>4, Zenon
    <2>6. Waiting(DR) /\ Current
      BY <1>2, <2>4, <2>5, Resting, Zenon
    <2>7. /\ fifo_enabled' = on /\ UNCHANGED <<lsr, ier, iir, uart_line, sent, got>> /\ saw' = FALSE
          /\ rhr' = IF ~on /\ fifo_enabled /\ fifo_buffer # <<>> THEN Head(fifo_buffer) ELSE rhr
          /\ fifo_buffer' = IF c THEN <<>>
                            ELSE IF on /\ ~fifo_enabled /\ "DR" \in lsr THEN Append(fifo_buffer, rhr)
                            ELSE IF ~on /\ fifo_enabled /\ fifo_buffer # <<>> THEN <<>> ELSE fifo_buffer
      BY <2>1, FcrEffect, Zenon
    <2>8. Newest' = Newest
      BY <1>6, <2>4, <2>7, Zenon
    <2>9. DR' <=> DR
      BY <2>7, Zenon DEF DR
    <2>10. CASE c
      <3>1. Waiting(FALSE)'
        BY <2>7, <2>10, Zenon DEF Waiting
      <3> QED BY <1>2, <2>3, <2>5, <2>10, <3>1, Zenon DEF Alone, Rmw, Clear
    <2>11. CASE ~c
      <3>1. Current'
        BY <2>6, <2>7, <2>9, CurrentKept, Zenon
      <3>2. CASE enter
        <4>1. fifo_buffer' = Append(fifo_buffer, rhr) /\ fifo_enabled' /\ DR
          BY <2>2, <2>7, <2>11, <3>2, Zenon DEF DR
        <4>2. fifo_buffer' # <<>>
          BY <1>1, <4>1
        <4>3. Waiting(DR)'
          BY <2>7, <2>9, <4>1, <4>2, Zenon DEF Waiting
        <4> QED BY <1>2, <2>3, <2>5, <2>9, <2>11, <3>1, <3>2, <4>1, <4>3, Zenon DEF Alone, Rmw
      <3>3. CASE leave
        <4>1. fifo_buffer # <<>> /\ ~fifo_enabled' /\ DR /\ rhr' = Head(fifo_buffer) /\ fifo_buffer' = <<>>
          BY <2>2, <2>6, <2>7, <2>11, <3>3, Zenon DEF Waiting
        <4>2. InOrder(fifo_buffer, got[2], Newest)
          BY <1>1, <1>2, <1>5, <2>4, Zenon DEF Ordered
        <4>3. got[2] < Head(fifo_buffer) /\ Head(fifo_buffer) <= Newest
          BY <1>1, <1>3, <4>1, <4>2, PoppedOrder, Zenon
        <4>4. Waiting(DR)'
          BY <2>7, <2>8, <4>1, <4>3, Zenon DEF Waiting
        <4> QED BY <1>2, <2>3, <2>5, <2>9, <2>11, <3>1, <3>3, <4>1, <4>4, Zenon DEF Alone, Rmw
      <3>4. CASE ~enter /\ ~leave
        <4>1. rhr' = rhr /\ fifo_buffer' = fifo_buffer
          BY <2>2, <2>7, <2>11, <3>4, Zenon DEF DR
        <4>2. Waiting(DR)'
          BY <2>2, <2>6, <2>7, <2>8, <2>9, <3>4, <4>1, Zenon DEF Waiting
        <4> QED BY <1>2, <2>3, <2>5, <2>11, <3>1, <3>4, <4>2, Zenon DEF Alone
      <3> QED BY <3>2, <3>3, <3>4, Zenon
    <2> QED BY <2>10, <2>11, Zenon
  <1> QED BY <1>7, <1>8, <1>9, <1>10, <1>11, <1>12, <1>13, Actions, Zenon

\* The invariant holds of every behaviour of the UART, with the terminal thread and the
\* hart interleaved at every load and store of lsr.
LEMMA UartInvariant == UartSpec => []UartInv
  <1>1. UartInit => UartInv
    <2> SUFFICES ASSUME UartInit PROVE UartInv
      OBVIOUS
    <2>1. "term" \in UartThreads /\ "hart" \in UartThreads
      BY Zenon DEF UartThreads
    <2>2. \A t \in UartThreads : uart_todo[t] = <<>> /\ tmp[t] = {}
      BY Zenon DEF UartInit
    <2>3. ~Keeping
      BY <2>1, <2>2, ShortPlans, Zenon DEF Keeping
    <2>4. Newest = 0
      BY <2>3, Zenon DEF Newest, UartInit
    <2>5. got[2] = 0 /\ fifo_buffer = <<>>
      BY DEF UartInit
    <2>6. UartTypes
      <3>1. <<>> \in Calm
        BY Zenon DEF Calm
      <3>2. uart_todo \in [UartThreads -> Calm \cup Setting \cup {Keep}] /\ tmp \in [UartThreads -> SUBSET Bits]
        BY <3>1, Zenon DEF UartInit
      <3>3. fifo_buffer \in Seq(Nat) /\ rhr \in Nat /\ sent \in Nat /\ got \in Nat \X Nat
        BY DEF UartInit
      <3> QED BY <2>3, <3>2, <3>3, Zenon DEF UartTypes, UartInit
    <2>7. Untouched
      BY <2>2, Zenon DEF Untouched, UartInit, Fresh, Calm
    <2>8. Ordered
      <3>1. 0 <= 0
        OBVIOUS
      <3> QED BY <2>4, <2>5, <3>1, EmptyOrder, Zenon DEF Ordered
    <2>9. Undisturbed
      <3>1. ~DR /\ calc_iir_locked = "NONE"
        BY Zenon DEF DR, calc_iir_locked, UartInit
      <3>2. Waiting(DR) /\ Current
        BY <3>1, Zenon DEF Waiting, Current, UartInit
      <3> QED BY <2>1, <2>2, <3>2, Zenon DEF Undisturbed, Others, UartIdle, Alone
    <2> QED BY <2>6, <2>7, <2>8, <2>9, Zenon DEF UartInv
  <1>2. UartInv /\ [UartNext]_uartVars => UartInv'
    <2> SUFFICES ASSUME UartInv, [UartNext]_uartVars PROVE UartInv'
      OBVIOUS
    <2>1. CASE UartNext
      <3>1. UartTypes' /\ Untouched'
        BY <2>1, UartTypesKept, UntouchedKept, Zenon DEF UartInv
      <3>2. Ordered' /\ Undisturbed'
        BY <2>1, <3>1, OrderedKept, UndisturbedKept, Zenon
      <3> QED BY <3>1, <3>2, Zenon DEF UartInv
    <2>2. CASE UNCHANGED uartVars
      <3>1. /\ UNCHANGED <<fifo_buffer, fifo_enabled, rhr, lsr, ier, iir, uart_line>>
            /\ UNCHANGED <<uart_todo, tmp, sent, saw, got, raced, queued>>
        BY <2>2, Zenon DEF uartVars
      <3>2. (Keeping' <=> Keeping) /\ Newest' = Newest /\ (Fresh' <=> Fresh) /\ (DR' <=> DR)
        BY <3>1, Zenon DEF Keeping, Newest, Fresh, DR
      <3>3. UartTypes' /\ Untouched' /\ Ordered'
        BY <3>1, <3>2, Zenon DEF UartInv, UartTypes, Untouched, Ordered
      <3>4. /\ Waiting(DR) <=> Waiting(DR)'
            /\ Waiting(TRUE) <=> Waiting(TRUE)'
            /\ Waiting(FALSE) <=> Waiting(FALSE)'
        BY <3>1, <3>2, Zenon DEF Waiting
      <3>5. calc_iir_locked' = calc_iir_locked /\ (Current => Current')
        BY <3>1, <3>2, CurrentKept, Zenon
      <3>6. \A t \in UartThreads : Alone(t) => Alone(t)'
        BY <3>1, <3>2, <3>4, <3>5, Zenon DEF Alone, Rmw
      <3>7. Undisturbed'
        BY <3>1, <3>6, Zenon DEF UartInv, Undisturbed, Others, UartIdle
      <3> QED BY <3>3, <3>7, Zenon DEF UartInv
    <2> QED BY <2>1, <2>2, Zenon
  <1> QED BY <1>1, <1>2, PTL DEF UartSpec

\* For every size of the FIFO: while no receive_byte has overlapped a handler of the hart, DATA_READY says
\* between handlers whether a byte waits, and IIR and the level at the PLIC are what IER and LSR call for.
THEOREM UartStatusCurrent == UartSpec => []StatusCurrent
  <1>1. UartInv => StatusCurrent
    <2> SUFFICES ASSUME UartInv, Quiet, ~raced
                 PROVE  /\ fifo_enabled => ("DR" \in lsr <=> fifo_buffer # <<>>)
                        /\ ~fifo_enabled => fifo_buffer = <<>>
                        /\ iir = calc_iir_locked /\ uart_line = (calc_iir_locked # "NONE")
      BY Zenon DEF StatusCurrent
    <2>1. "term" \in UartThreads
      BY Zenon DEF UartThreads
    <2>2. uart_todo["term"] = <<>> /\ Others("term")
      BY <2>1, Zenon DEF Quiet, UartIdle, Others
    <2>3. Waiting(DR) /\ Current
      BY <2>1, <2>2, Place, Resting, Zenon DEF UartInv
    <2> QED BY <2>3, Zenon DEF Waiting, Current, DR
  <1> QED BY <1>1, UartInvariant, PTL

\* For every size of the FIFO: with the FIFO on, no interleaving of receive_byte with the hart's handlers
\* makes the guest read a byte twice or out of order; with RHR alone, none does while handlers do not overlap.
THEOREM UartBytesInOrder == UartSpec => []BytesInOrder
  <1>1. UartInv => BytesInOrder
    BY Zenon DEF UartInv, Ordered, BytesInOrder
  <1> QED BY <1>1, UartInvariant, PTL
=============================================================================
