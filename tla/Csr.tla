-------------------------------- MODULE Csr ---------------------------------
(***************************************************************************)
(* The CSR instructions (src/sets/zicsr.cpp) over Hart::csr_read and       *)
(* csr_write (src/hart.cpp).  A register's value is a set of bits, which   *)
(* the masks tell apart: "u" stands for UXL, in SSTATUS_MASK and in        *)
(* MSTATUS_RO_MASK; "r" for SXL, in the latter only, and in satp for the   *)
(* modes Sv48 and Sv57; "s" for the other bits of SSTATUS_MASK and those   *)
(* of SE_MASK; "m" for the rest, mstatus.TVM among them.  The counter      *)
(* enables have "s" for cycle and "r" for hpmcounter3.  The floating-point *)
(* CSRs, whose accesses trap on their own, are in Hart; stimecmp and the   *)
(* time are left out.                                                      *)
(***************************************************************************)
EXTENDS Naturals, FiniteSets

VARIABLES
  h,         \* the hart's mode and registers before the instruction
  done,      \* the instruction: {} or a singleton
  out        \* whether it was legal, rd's new value if it has one, the registers after it
csrVars == <<h, done, out>>

CsrBits == {"m", "s", "r", "u"}
SSTATUS_MASK == {"s", "u"}
MSTATUS_RO_MASK == {"r", "u"}
SE_BITS == {"s"}

Address ==
  [mstatus |-> \h300, misa |-> \h301, mie |-> \h304, mcounteren |-> \h306, mscratch |-> \h340, mip |-> \h344,
   sstatus |-> \h100, sie |-> \h104, scounteren |-> \h106, sscratch |-> \h140, sip |-> \h144, satp |-> \h180,
   vsscratch |-> \h240, mcycle |-> \hB00, minstret |-> \hB02, mhpmcounter3 |-> \hB03,
   cycle |-> \hC00, instret |-> \hC02, hpmcounter3 |-> \hC03,
   mvendorid |-> \hF11, mhartid |-> \hF14, mconfigptr |-> \hF15]
Csrs == DOMAIN Address

------------------------------------------------------------------------------
(* Hart::csr_read and Hart::csr_write. *)

\* The registers of Csrs that are cells of the array csrs, as csr_read's and
\* csr_write's default branches index it.
Cells == {"misa", "mcounteren", "mscratch", "scounteren", "sscratch", "vsscratch", "mcycle", "minstret",
          "mhpmcounter3", "cycle", "instret", "hpmcounter3", "mvendorid", "mhartid", "mconfigptr"}

csr_read(g, csr) ==
  CASE csr = "mstatus" -> g.status [] csr = "sstatus" -> g.status \cap SSTATUS_MASK
    [] csr = "mie" -> g.ie [] csr = "sie" -> g.ie \cap SE_BITS
    [] csr = "mip" -> g.ip [] csr = "sip" -> g.ip \cap SE_BITS
    [] csr = "satp" -> g.satp
    [] csr \in {"cycle", "mcycle"} -> g.cycle [] csr \in {"instret", "minstret"} -> g.instret
    [] csr = "hpmcounter3" -> g.csrs["mhpmcounter3"]
    [] OTHER -> g.csrs[csr]

Merge(old, new, mask) == (old \ mask) \cup (new \cap mask)
\* Mutant: a write of sie is not confined to the supervisor's bits.
write_sie_whole(g, val) == [g EXCEPT !.ie = val]
write_sie(g, val) == [g EXCEPT !.ie = Merge(@, val, SE_BITS)]
csr_write(g, csr, val) ==
  CASE csr = "mstatus" -> [g EXCEPT !.status = Merge(@, val, CsrBits \ MSTATUS_RO_MASK)]
    [] csr = "sstatus" -> [g EXCEPT !.status = Merge(@, val, SSTATUS_MASK)]
    [] csr = "mie" -> [g EXCEPT !.ie = val] [] csr = "sie" -> write_sie(g, val)
    [] csr = "mip" -> [g EXCEPT !.ip = val] [] csr = "sip" -> [g EXCEPT !.ip = Merge(@, val, SE_BITS)]
    [] csr = "satp" -> IF "r" \in val THEN g ELSE [g EXCEPT !.satp = val]
    [] csr = "mvendorid" -> g
    [] OTHER -> [g EXCEPT !.csrs[csr] = val]

------------------------------------------------------------------------------
(* Which accesses are legal. *)

compatible_mode(level, mode) ==
  CASE level = "M" -> mode = "M"
    [] level = "S" -> mode \in {"M", "S"}
    [] OTHER -> TRUE
Level(a) ==
  CASE a \in \h100 .. \h1FF -> "S" [] a \in \h200 .. \h2FF -> "H"
    [] a \in \h300 .. \h3FF \/ a \in \hB00 .. \hBFF \/ a \in \hF00 .. \hFFF -> "M"
    [] OTHER -> "U"
\* 0xF15f, no CSR address, is what the code compares in place of mconfigptr's.
ReadOnly(a) == a \in \hF11 .. \hF14 \/ a \in \hC00 .. \hC1F
csr_accessible(csr, mode, write) ==
  LET a == Address[csr]
  IN compatible_mode(Level(a), mode) /\ csr # "minstret" /\ ~(ReadOnly(a) /\ write)

CounterBit(csr) == CASE csr = "cycle" -> "s" [] csr = "hpmcounter3" -> "r" [] csr = "instret" -> "m"
counter_enabled(csr, g) ==
  Address[csr] \in \hC00 .. \hC1F =>
    /\ g.mode # "M" => CounterBit(csr) \in csr_read(g, "mcounteren")
    /\ g.mode = "U" => CounterBit(csr) \in csr_read(g, "scounteren")

Legal(g, csr, write) ==
  /\ ~(g.mode = "S" /\ "m" \in g.status /\ csr = "satp")
  /\ counter_enabled(csr, g)
  /\ csr_accessible(csr, g.mode, write)

------------------------------------------------------------------------------
(* The instructions: rs1 says whether the field is not zero, val is the    *)
(* register's value, or the field itself in the immediate forms.           *)

Illegal(g) == [ok |-> FALSE, rd |-> {}, g |-> g]
Done(g, i, old) == [ok |-> TRUE, rd |-> IF i.rd THEN {old} ELSE {}, g |-> g]

exec_CSRRW(g, i) ==
  IF ~Legal(g, i.csr, TRUE) THEN Illegal(g) ELSE Done(csr_write(g, i.csr, i.val), i, csr_read(g, i.csr))
exec_CSRRS(g, i) ==
  IF ~Legal(g, i.csr, i.rs1) THEN Illegal(g)
  ELSE Done(IF i.rs1 THEN csr_write(g, i.csr, csr_read(g, i.csr) \cup i.val) ELSE g, i, csr_read(g, i.csr))
\* Mutant: the register is written with the mask's complement alone.
exec_CSRRC_mask(g, i) ==
  IF ~Legal(g, i.csr, i.rs1) THEN Illegal(g)
  ELSE Done(IF i.rs1 THEN csr_write(g, i.csr, CsrBits \ i.val) ELSE g, i, csr_read(g, i.csr))
exec_CSRRC(g, i) ==
  IF ~Legal(g, i.csr, i.rs1) THEN Illegal(g)
  ELSE Done(IF i.rs1 THEN csr_write(g, i.csr, csr_read(g, i.csr) \ i.val) ELSE g, i, csr_read(g, i.csr))
\* The write of CSRRWI is checked as if a zero field wrote nothing.
exec_CSRRWI(g, i) ==
  IF ~Legal(g, i.csr, i.rs1) THEN Illegal(g) ELSE Done(csr_write(g, i.csr, i.val), i, csr_read(g, i.csr))
exec_CSRRSI(g, i) == exec_CSRRS(g, i)
exec_CSRRCI(g, i) == exec_CSRRC(g, i)

CsrInstructions ==
  {i \in [op : {"CSRRW", "CSRRS", "CSRRC", "CSRRWI", "CSRRSI", "CSRRCI"}, csr : Csrs,
          rd : BOOLEAN, rs1 : BOOLEAN, val : SUBSET CsrBits] :
     IF i.op \in {"CSRRWI", "CSRRSI", "CSRRCI"} THEN i.rs1 = (i.val # {}) ELSE i.rs1 \/ i.val = {}}
exec_csr(g, i) ==
  CASE i.op = "CSRRW" -> exec_CSRRW(g, i) [] i.op = "CSRRS" -> exec_CSRRS(g, i) [] i.op = "CSRRC" -> exec_CSRRC(g, i)
    [] i.op = "CSRRWI" -> exec_CSRRWI(g, i) [] i.op = "CSRRSI" -> exec_CSRRSI(g, i)
    [] i.op = "CSRRCI" -> exec_CSRRCI(g, i)

\* Any mode, and any status that has kept the SXL it was reset with; the other
\* registers hold one of two patterns.
CsrInit ==
  /\ \E mode \in {"U", "S", "M"}, status \in {s \in SUBSET CsrBits : "r" \in s},
        <<v, w>> \in {<<{"m", "s"}, {"m", "r"}>>, <<{"r"}, {"s"}>>} :
       h = [mode |-> mode, status |-> status, ie |-> v, ip |-> w, satp |-> v \ {"r"}, cycle |-> w, instret |-> v,
            csrs |-> [c \in Cells |-> IF c \in {"mcounteren", "mvendorid"} THEN v ELSE w]]
  /\ done = {} /\ out = Illegal(h)
CsrNext ==
  /\ done = {}
  /\ \E i \in CsrInstructions : done' = {i} /\ out' = exec_csr(h, i)
  /\ UNCHANGED h

------------------------------------------------------------------------------
(* Properties. *)

\* An instruction of the supervisor changes nothing that belongs to machine
\* mode: of mstatus, mie and mip only the bits sstatus, sie and sip show, no
\* machine register, and satp not while TVM reserves it.  A user's instruction
\* changes nothing of either.  What csr_accessible lists as read-only, mhartid
\* among them, no instruction of any mode changes except CSRRWI with a zero
\* field, which is checked as a read and then writes zero.
CsrConfined ==
  \A i \in done :
    LET below(mask) == IF h.mode = "S" THEN mask ELSE {}
    IN /\ h.mode # "M" =>
         /\ out.g.status \ below(SSTATUS_MASK) = h.status \ below(SSTATUS_MASK)
         /\ out.g.ie \ below(SE_BITS) = h.ie \ below(SE_BITS)
         /\ out.g.ip \ below(SE_BITS) = h.ip \ below(SE_BITS)
         /\ out.g.satp # h.satp => h.mode = "S" /\ "m" \notin h.status
         /\ \A c \in Cells : out.g.csrs[c] # h.csrs[c] => Level(Address[c]) \in {h.mode, "U", "H"}
       /\ \A c \in Cells :
            ReadOnly(Address[c]) /\ out.g.csrs[c] # h.csrs[c] => i.op = "CSRRWI" /\ i.val = {}

\* A set or clear instruction changes, in the register it names as later reads
\* show it, no bit outside its mask, and sets or clears every bit of the mask
\* that the register does not keep fixed; rd gets the value before it.
ReadModifyWriteExact ==
  \A i \in done :
    LET old == csr_read(h, i.csr)
        new == csr_read(out.g, i.csr)
        goal == CASE i.op \in {"CSRRW", "CSRRWI"} -> i.val
                  [] i.op \in {"CSRRS", "CSRRSI"} -> old \cup i.val
                  [] OTHER -> old \ i.val
        fixed == CASE i.csr = "mstatus" -> MSTATUS_RO_MASK
                   [] i.csr = "sstatus" -> CsrBits \ SSTATUS_MASK [] i.csr \in {"sie", "sip"} -> CsrBits \ SE_BITS
                   [] i.csr \in {"mvendorid", "mcycle", "cycle", "instret", "hpmcounter3"} -> CsrBits
                   [] i.csr = "satp" /\ "r" \in goal -> CsrBits
                   [] OTHER -> {}
    IN out.ok => new = Merge(old, goal, CsrBits \ fixed) /\ out.rd = IF i.rd THEN {old} ELSE {}

=============================================================================
