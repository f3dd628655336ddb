------------------------------ MODULE MCVirtio ------------------------------
(***************************************************************************)
(* TLC instance of Virtio: requests of every shape the devices tell apart, *)
(* and what each of them promises, as an instance of RequestQueue.         *)
(***************************************************************************)
EXTENDS Virtio

Out(units) == [write |-> FALSE, units |-> units]
In(n)      == [write |-> TRUE, units |-> [k \in 1 .. n |-> "old"]]

Request(type, sector, chain) == [type |-> type, sector |-> sector, header |-> TRUE, chain |-> chain]

CONSTANTS h1, h2

MCHeads == {h1, h2}

\* The writes of the two heads overlap, so that their order shows.
MCRequests ==
  h1 :> {Request("out", 0, <<Out(<<"a">>), Out(<<"b">>), In(1)>>),    \* a sector in two pieces
         Request("flush", 0, <<In(1)>>),
         Request("out", 0, <<Out(<<"e", "e">>)>>)}                    \* no status byte
  @@
  h2 :> {Request("out", 0, <<Out(<<"c">>), In(1)>>),                  \* half a sector
         Request("in", 0, <<In(1), In(3), In(1)>>),                   \* uneven pieces, past the end
         Request("in", 0, <<In(1), Out(<<"d">>), In(1)>>),            \* data the device may not write
         [Request("out", 0, <<Out(<<"f", "f">>), In(1)>>) EXCEPT !.header = FALSE],
         Request("in", 0, <<In(1), In(1), In(1), In(1)>>)}            \* longer than the queue
-----------------------------------------------------------------------------
(***************************************************************************)
(* A request as the driver means it, and its result as the driver reads    *)
(* it back from its buffers.                                               *)
(***************************************************************************)
Status(r) == SelectLastInSeq(r.chain, LAMBDA d : d.write)
Data(r)   == SubSeq(r.chain, 1, Status(r) - 1)
Writable(chain) == SelectSeq(chain, LAMBDA d : d.write)

Meaning(k, r) ==
  LET bytes == Contents(Data(r))
      base  == 2 * r.sector
  IN  IF Len(r.chain) >= QueueNum THEN [op |-> "drop"]
      ELSE IF k = "rng"           THEN [op |-> "fill", n |-> Len(Contents(Writable(r.chain)))]
      ELSE IF ~r.header           THEN [op |-> "drop"]
      ELSE IF Status(r) = 0       THEN [op |-> "mute"]
      ELSE CASE k = "blk" /\ r.type = "in" /\ Writable(Data(r)) = Data(r)
                                    -> [op |-> "read", units |-> base .. base + Len(bytes) - 1]
        [] k = "blk" /\ r.type = "out"
                                    -> [op     |-> "write",
                                        status |-> IF Len(bytes) % 2 = 0 THEN "OK" ELSE "IOERR",
                                        image  |-> [u \in base .. base + Len(bytes) - 1 |-> bytes[u - base + 1]]]
        [] OTHER                    -> [op |-> "fail"]

Result(k, r) ==
  IF k = "rng" THEN [status |-> "OK", units |-> Contents(Writable(r.chain))]
  ELSE LET s == IF Status(r) = 0 THEN "none" ELSE r.chain[Status(r)].units[1]
       IN  [status |-> s,
            units  |-> IF r.type = "in" /\ s = "OK" THEN Contents(Data(r)) ELSE <<>>]

Meanings == {Meaning(k, r) : k \in {"blk", "rng", "nodisk"}, r \in UNION {MCRequests[h] : h \in MCHeads}}

Answer(status, units, image) == [results |-> <<[status |-> status, units |-> units]>>, store |-> image]

Promise(m, image) ==
  CASE m.op = "drop"  -> [results |-> <<>>, store |-> image]
    [] m.op = "fill"  -> Answer("OK", [k \in 1 .. m.n |-> "random"], image)
    [] m.op = "mute"  -> Answer("none", <<>>, image)
    [] m.op = "read"  -> Answer("OK", [k \in 1 .. Cardinality(m.units) |->
                                         LET u == Min(m.units) + k - 1
                                         IN  IF u < DiskUnits THEN image[u] ELSE "zero"], image)
    [] m.op = "write" -> Answer(m.status, <<>>, [u \in DOMAIN image |->
                                                   IF u \in DOMAIN m.image THEN m.image[u] ELSE image[u]])
    [] m.op = "fail"  -> Answer("IOERR", <<>>, image)

Waiting ==
  LET heads == Between(queue0.last_avail_idx, avail_idx)
  IN  [i \in DOMAIN heads |-> Meaning(kind, mem[heads[i]])]

Done ==
  [k \in 1 .. (used_idx + IdxMod - seen) % IdxMod |->
     Result(kind, mem[used[((seen + k - 1) % IdxMod) % QueueNum]])]

Queue == INSTANCE RequestQueue WITH
  Submitted <- Meanings,
  Store0    <- [u \in 0 .. DiskUnits - 1 |-> "zero"],
  Effect    <- Promise,
  open      <- queue0.ready,
  waiting   <- Waiting,
  done      <- Done,
  store     <- disk

queueVars == <<queue0.ready, Waiting, Done, disk>>
=============================================================================
