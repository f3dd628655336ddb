------------------------------- MODULE X86Cpu -------------------------------
(***************************************************************************)
(* The host processor, as far as the code the JIT emits needs it: it       *)
(* decodes and executes the bytes of X86.  External to the repository.     *)
(* A host is a record of the sixteen registers r, the flags z (equal),     *)
(* l (signed less) and b (unsigned less), the context's entry pc and       *)
(* fault, which is set by a #DE division fault or an unknown encoding.     *)
(***************************************************************************)
EXTENDS Word, X86

Reg(h, i, w) == Low(h.r[i], w)
\* A 32-bit result clears the upper half of the register.
Put(h, i, v, w) == [h EXCEPT !.r[i] = Low(v, w)]
Flags(h, z, l, b) == [h EXCEPT !.z = z, !.l = l, !.b = b]
Fault(h) == [h EXCEPT !.fault = TRUE]

Logic(h, d, v, w) == Flags(Put(h, d, v, w), Low(v, w) = 0, Signed(v, w) < 0, FALSE)
Compare(h, x, y, w) == Flags(h, x = y, Signed(x, w) < Signed(y, w), x < y)

Arith(h, field, d, x, y, w) ==
    CASE field = 0 -> Logic(h, d, x + y, w)
      [] field = 1 -> Logic(h, d, x | y, w)
      [] field = 4 -> Logic(h, d, x & y, w)
      [] field = 5 -> Put(Compare(h, x, y, w), d, x - y, w)
      [] field = 6 -> Logic(h, d, x ^^ y, w)
      [] field = 7 -> Compare(h, x, y, w)
      [] OTHER -> Fault(h)

Shift(h, field, d, k, w) ==
    LET n == k % w IN
    CASE field = 4 -> Put(h, d, Shl(h.r[d], n, w), w)
      [] field = 5 -> Put(h, d, Shr(h.r[d], n, w), w)
      [] field = 7 -> Put(h, d, Sar(h.r[d], n, w), w)
      [] OTHER -> Fault(h)

Wide(h, p, w) == Put(Put(h, REG_ACC0, p, w), REG_ACC1, p \div 2^w, w)
\* Group F7: neg 3, mul 4, imul 5, div 6, idiv 7.
UnaryOp(h, field, m, w) ==
    LET x  == Reg(h, m, w)
        sx == Signed(x, w)
        n  == Reg(h, REG_ACC1, w) * 2^w + Reg(h, REG_ACC0, w)
        sn == Signed(Reg(h, REG_ACC1, w), w) * 2^w + Reg(h, REG_ACC0, w)
    IN  CASE field = 3 -> Put(h, m, -x, w)
          [] field = 4 -> Wide(h, Reg(h, REG_ACC0, w) * x, w)
          [] field = 5 -> Wide(h, Signed(Reg(h, REG_ACC0, w), w) * sx, w)
          [] field = 6 -> IF x = 0 \/ n \div x >= 2^w THEN Fault(h)
                          ELSE Put(Put(h, REG_ACC0, n \div x, w), REG_ACC1, n % x, w)
          [] field = 7 -> IF x = 0 \/ Quot(sn, sx) \notin -(2^(w - 1)) .. 2^(w - 1) - 1
                          THEN Fault(h)
                          ELSE Put(Put(h, REG_ACC0, Quot(sn, sx), w), REG_ACC1, Rem(sn, sx), w)
          [] OTHER -> Fault(h)

Imm32(c, k) == c[k] + 256 * c[k + 1] - (IF c[k + 3] >= 128 THEN 65536 ELSE 0)
Imm64(c, k) == c[k] + 256 * c[k + 1] - (IF c[k + 7] >= 128 THEN 65536 ELSE 0)
Cond(h, cc) ==
    CASE cc = 2 -> h.b [] cc = 3 -> ~h.b [] cc = 4 -> h.z [] cc = 5 -> ~h.z
      [] cc = 12 -> h.l [] cc = 13 -> ~h.l [] OTHER -> FALSE

RECURSIVE Execute(_, _, _)
\* Run the code c on host h from byte i to its end.
Execute(h, c, i) ==
    IF i > Len(c) \/ h.fault THEN h
    ELSE LET prefix == c[i] \div 16 = 4
             x    == IF prefix THEN c[i] % 16 ELSE 0
             w    == IF x >= 8 THEN XLEN ELSE WLEN
             o    == IF prefix THEN i + 1 ELSE i
             op   == c[o]
             m    == IF op = \h0F THEN o + 2 ELSE o + 1
             reg  == ((c[m] \div 8) % 8) + 8 * Bit(x, 2)
             rm   == (c[m] % 8) + 8 * Bit(x, 0)
             n    == m + 1
             isReg == c[m] >= 192
         IN  CASE op \div 16 = 7 -> Execute(h, c, (IF Cond(h, op % 16) THEN c[o + 1] ELSE 0) + o + 2)
               [] op = \hEB -> Execute(h, c, c[o + 1] + o + 2)
               [] op = \h99 ->
                    Execute(Put(h, REG_ACC1, IF Signed(h.r[REG_ACC0], w) < 0 THEN -1 ELSE 0, w), c, o + 1)
               [] op \in \hB8 .. \hBF ->
                    Execute(Put(h, op - \hB8 + 8 * Bit(x, 0), Imm64(c, o + 1), XLEN), c, o + 9)
               [] op = \h0F /\ c[o + 1] = \hB6 -> Execute(Put(h, reg, Low(h.r[rm], BYTE), XLEN), c, n)
               [] op = \h0F /\ c[o + 1] = \hAF ->
                    Execute(Put(h, reg, Reg(h, reg, w) * Reg(h, rm, w), w), c, n)
               [] op = \h0F /\ c[o + 1] \div 16 = 9 ->
                    Execute([h EXCEPT !.r[rm] = @ - Low(@, BYTE) + Flag(Cond(h, c[o + 1] % 16))], c, n)
               [] op = \h89 /\ isReg -> Execute(Put(h, rm, h.r[reg], w), c, n)
               [] op = \h63 /\ isReg -> Execute(Put(h, reg, Sext(h.r[rm], WLEN), XLEN), c, n)
               [] op = \h8B /\ rm = REG_CTX /\ c[n] = \h24 /\ Imm32(c, n + 1) = CTX_OFF_ENTRY ->
                    Execute(Put(h, reg, h.entry, w), c, n + 5)
               [] op = \hC7 /\ isReg -> Execute(Put(h, rm, Imm32(c, n), w), c, n + 4)
               [] op = \h81 /\ isReg ->
                    Execute(Arith(h, reg % 8, rm, Reg(h, rm, w), Low(Imm32(c, n), w), w), c, n + 4)
               [] op = \hC1 /\ isReg -> Execute(Shift(h, reg % 8, rm, c[n], w), c, n + 1)
               [] op = \hD3 /\ isReg -> Execute(Shift(h, reg % 8, rm, h.r[RCX], w), c, n)
               [] op = \hF7 /\ isReg -> Execute(UnaryOp(h, reg % 8, rm, w), c, n)
               [] op < 64 /\ op % 8 = 1 /\ isReg ->
                    Execute(Arith(h, op \div 8, rm, Reg(h, rm, w), Reg(h, reg, w), w), c, n)
               [] OTHER -> Fault(h)
=============================================================================
