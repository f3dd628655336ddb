--------------------------- MODULE JitBlockProofs ---------------------------
(***************************************************************************)
(* A compiled block's register cache and exits, for any set of guest       *)
(* registers, any number of host registers from three on, and blocks and   *)
(* chains of any length.                                                   *)
(***************************************************************************)
EXTENDS JitBlock, FiniteSetTheorems, WellFoundedInduction, TLAPS

\* The types of a cell state's parts, kept opaque where only the record is taken apart.
Owners    == Guest \union {Free, Held}
SlotMaps  == [Guest -> 0 .. Pool]
DirtySets == SUBSET Regs
OwnerMaps == [Slots -> Owners]
HostMaps  == [Slots -> Guest \union {Junk}]
MemSets   == SUBSET Guest

CellStates == [em : [slot : SlotMaps, dirty : DirtySets, owner : OwnerMaps],
               host : HostMaps, mem : MemSets]

\* The cache is a bijection between the cached guests and the host registers in use,
\* no host register is held, only cached guests are dirty, and what is not dirty is
\* in the register file.
Matched(c) ==
  /\ \A s \in Slots : c.em.owner[s] # Held
  /\ \A v \in Guest : c.em.slot[v] # NoSlot => c.em.owner[c.em.slot[v]] = v
  /\ \A s \in Slots : c.em.owner[s] # Free => c.em.slot[c.em.owner[s]] = s
  /\ \A v \in c.em.dirty : c.em.slot[v] # NoSlot
  /\ \A v \in Guest : v \notin c.em.dirty => v \in c.mem

\* Every cached guest outside W has its current value in its host register.
Sound(c, W) ==
  /\ c \in CellStates
  /\ Matched(c)
  /\ \A v \in Guest : v \notin W /\ c.em.slot[v] # NoSlot => Holds(c, v)

\* Inside a block the counters agree with the guest; outside it nothing is cached,
\* the register file is complete and the context knows the guest's pc.
BlockInv ==
  /\ right = TRUE
  /\ phase \in {"block", "tail", "runner"}
  /\ Sound(Cells, {})
  /\ pc \in Int /\ entry \in Int /\ exitPc \in Int /\ index \in Int /\ bytes \in Int
  /\ budget \in Int /\ ran \in Int /\ nSuper \in Int /\ nExits \in Int
  /\ nExits <= MAX_EXITS
  /\ phase = "block" => /\ pc = entry + bytes
                        /\ CADENCE - budget = ran - index
                        /\ nExits = nSuper /\ nSuper <= SUPERBLOCK_MAX
  /\ phase # "block" => /\ em = Empty /\ mem = Guest /\ exitPc = pc
                        /\ index = 0 /\ bytes = 0 /\ nSuper = 0
  /\ phase = "tail" => entry = pc /\ CADENCE - budget = ran

-----------------------------------------------------------------------------
\* Taking a cell state apart.
LEMMA CellTypes ==
  ASSUME NEW c \in CellStates
  PROVE  /\ c.em.slot \in SlotMaps /\ c.em.dirty \in DirtySets /\ c.em.owner \in OwnerMaps
         /\ c.host \in HostMaps /\ c.mem \in MemSets
BY DEF CellStates

\* Writing a guest back leaves the cache as it is and the guest clean.
LEMMA FlushGuest ==
  ASSUME NEW c, Sound(c, {}), NEW v \in Guest
  PROVE  /\ Sound(flush_guest(c, v), {})
         /\ flush_guest(c, v).em.dirty = c.em.dirty \ {v}
         /\ flush_guest(c, v).em.slot = c.em.slot
         /\ flush_guest(c, v).em.owner = c.em.owner
         /\ flush_guest(c, v).host = c.host
<1> DEFINE f == flush_guest(c, v)
<1>0. c \in CellStates
  BY DEF Sound
<1>1. CASE c.em.slot[v] # NoSlot /\ v \in c.em.dirty
  <2>1. c.host[c.em.slot[v]] = v
    BY <1>1 DEF Sound, Holds
  <2>2. f = [c EXCEPT !.em.dirty = @ \ {v}, !.mem = @ \union {v}]
    BY <1>1, <2>1 DEF flush_guest
  <2>3. c.em.dirty \ {v} \in DirtySets /\ c.mem \union {v} \in MemSets
    BY <1>0, CellTypes DEF DirtySets, MemSets
  <2> HIDE DEF f
  <2>4. /\ f \in CellStates
        /\ f.em.slot = c.em.slot /\ f.em.owner = c.em.owner /\ f.host = c.host
        /\ f.em.dirty = c.em.dirty \ {v} /\ f.mem = c.mem \union {v}
    BY <1>0, <2>2, <2>3, Zenon DEF CellStates
  <2>5. Matched(f)
    BY <2>4 DEF Sound, Matched
  <2>6. \A u \in Guest : f.em.slot[u] # NoSlot => Holds(f, u)
    BY <2>4 DEF Sound, Holds
  <2>7. Sound(f, {})
    BY <2>4, <2>5, <2>6 DEF Sound
  <2> QED BY <2>4, <2>7 DEF f
<1>2. CASE ~(c.em.slot[v] # NoSlot /\ v \in c.em.dirty)
  <2>1. f = c
    BY <1>2 DEF flush_guest
  <2>2. v \notin c.em.dirty
    BY <1>2 DEF Sound, Matched
  <2> QED BY <2>1, <2>2
<1> QED BY <1>1, <1>2

\* Writing everything back completes the register file.
LEMMA FlushAll ==
  ASSUME NEW c, Sound(c, {})
  PROVE  /\ Sound(flush_all(c), {})
         /\ flush_all(c).mem = Guest
         /\ flush_all(c).em.slot = c.em.slot
         /\ flush_all(c).host = c.host
<1> DEFINE f == flush_all(c)
           wb == {v \in Regs : c.em.slot[v] # NoSlot /\ v \in c.em.dirty}
<1>0. c \in CellStates /\ c.em.dirty \subseteq Regs /\ c.mem \subseteq Guest
  BY CellTypes DEF Sound, DirtySets, MemSets
<1>1. wb = c.em.dirty
  BY <1>0 DEF Sound, Matched
<1>2. {v \in wb : c.host[c.em.slot[v]] = v} = c.em.dirty
  BY <1>0, <1>1 DEF Sound, Holds, Matched, Guest
<1>3. f = [c EXCEPT !.em.dirty = @ \ c.em.dirty, !.mem = (@ \ c.em.dirty) \union c.em.dirty]
  BY <1>1, <1>2, Zenon DEF flush_all
<1>4. (c.mem \ c.em.dirty) \union c.em.dirty = Guest /\ c.em.dirty \ c.em.dirty = {}
  BY <1>0 DEF Sound, Matched, Guest
<1>5. {} \in DirtySets /\ Guest \in MemSets
  BY DEF DirtySets, MemSets
<1> HIDE DEF f
<1>6. /\ f \in CellStates
      /\ f.em.slot = c.em.slot /\ f.em.owner = c.em.owner /\ f.host = c.host
      /\ f.em.dirty = {} /\ f.mem = Guest
  BY <1>0, <1>3, <1>4, <1>5, Zenon DEF CellStates
<1>7. Matched(f)
  BY <1>6 DEF Sound, Matched
<1>8. \A u \in Guest : f.em.slot[u] # NoSlot => Holds(f, u)
  BY <1>6 DEF Sound, Holds
<1>9. Sound(f, {})
  BY <1>6, <1>7, <1>8 DEF Sound
<1> QED BY <1>6, <1>9 DEF f
-----------------------------------------------------------------------------
\* Every nonempty set of naturals has a least element.
LEMMA LeastNat ==
  ASSUME NEW T, T \subseteq Nat, T # {}
  PROVE  \E x \in T : \A y \in T : x <= y
<1>1. PICK x \in T : \A y \in T : ~(<<y, x>> \in OpToRel(<, Nat))
  BY NatLessThanWellFounded, WFMin, Zenon
<1>2. ASSUME NEW y \in T PROVE x <= y
  <2>1. y \in Nat /\ x \in Nat
    OBVIOUS
  <2>2. y < x => <<y, x>> \in OpToRel(<, Nat)
    BY <2>1 DEF OpToRel
  <2>3. ~(y < x)
    BY <1>1, <2>2, Zenon
  <2> QED BY <2>1, <2>3
<1> QED BY <1>2

\* Two operands never occupy every host register, so free_slot finds one, and one
\* that holds none of them (emit.cpp:160-206).
LEMMA FreeSlot ==
  ASSUME NEW c, Sound(c, {}), NEW a \in Guest, NEW b \in Guest,
         NEW keep, keep \subseteq {a, b}
  PROVE  /\ free_slot(c, keep) \in Slots
         /\ c.em.owner[free_slot(c, keep)] \notin keep
<1> DEFINE usable == {s \in Slots : c.em.owner[s] \in (Guest \ keep) \union {Free}}
           costs == {Cost(c, s) : s \in usable}
<1>1. c.em.owner \in [Slots -> Owners] /\ \A s \in Slots : c.em.owner[s] # Held
  BY CellTypes DEF Sound, Matched, OwnerMaps
<1>2. 1 \in Slots /\ 2 \in Slots /\ 3 \in Slots
  BY PoolAssumption DEF Slots
<1>3. \E s \in {1, 2, 3} : c.em.owner[s] \notin keep
  <2>1. \A s, t \in Slots : c.em.owner[s] \in Guest /\ c.em.owner[s] = c.em.owner[t] => s = t
    BY RegsAssumption DEF Sound, Matched, Guest
  <2> QED BY <1>2, <2>1
<1>4. PICK s0 \in {1, 2, 3} : c.em.owner[s0] \notin keep
  BY <1>3
<1>5. s0 \in usable
  BY <1>1, <1>2, <1>4 DEF Owners
<1>6. \A s \in Slots : Cost(c, s) \in Nat
  <2> SUFFICES ASSUME NEW s \in Slots PROVE Cost(c, s) \in Nat
    OBVIOUS
  <2>1. s \in Nat /\ Pool \in Nat
    BY PoolAssumption DEF Slots
  <2>2. Pool * 0 \in Nat /\ Pool * 1 \in Nat /\ Pool * 2 \in Nat
    BY <2>1
  <2>3. CASE c.em.owner[s] = Free
    BY <2>1, <2>2, <2>3 DEF Cost
  <2>4. CASE c.em.owner[s] # Free /\ c.em.owner[s] \notin c.em.dirty
    BY <2>1, <2>2, <2>4 DEF Cost
  <2>5. CASE c.em.owner[s] # Free /\ c.em.owner[s] \in c.em.dirty
    BY <2>1, <2>2, <2>5 DEF Cost
  <2> QED BY <2>3, <2>4, <2>5
<1>7. costs \subseteq Nat /\ costs # {}
  BY <1>5, <1>6
<1>8. PICK k \in costs : \A y \in costs : k <= y
  <2> HIDE DEF costs
  <2> QED BY <1>7, LeastNat, Zenon
<1>9. \E s \in usable : \A t \in usable : Cost(c, s) <= Cost(c, t)
  BY <1>8
<1>10. free_slot(c, keep) \in usable
  <2> HIDE DEF usable
  <2>1. (CHOOSE s \in usable : \A t \in usable : Cost(c, s) <= Cost(c, t)) \in usable
    BY <1>9, Zenon
  <2> QED BY <2>1, Zenon DEF free_slot, usable
<1>11. Free \notin keep
  BY RegsAssumption DEF Guest
<1> QED BY <1>10, <1>11

\* What evicting a host register leaves: the register is held, its guest written back
\* and no longer cached, and nothing else moved.
LEMMA Evicting ==
  ASSUME NEW c, Sound(c, {}), NEW s \in Slots
  PROVE  /\ Evict(c, s) \in CellStates
         /\ Evict(c, s).host = c.host
         /\ Evict(c, s).em.owner = [c.em.owner EXCEPT ![s] = Held]
         /\ \A v \in Guest : Evict(c, s).em.slot[v] = IF c.em.slot[v] = s THEN NoSlot ELSE c.em.slot[v]
         /\ \A v \in Evict(c, s).em.dirty : v \in c.em.dirty /\ Evict(c, s).em.slot[v] # NoSlot
         /\ \A v \in Guest : v \notin Evict(c, s).em.dirty => v \in Evict(c, s).mem
<1> DEFINE e == Evict(c, s)
           o == c.em.owner[s]
<1>0. c \in CellStates
  BY DEF Sound
<1>1. /\ c.em.owner \in [Slots -> Owners] /\ [c.em.owner EXCEPT ![s] = Held] \in OwnerMaps
      /\ c.em.slot \in [Guest -> 0 .. Pool] /\ c.em.dirty \subseteq Regs
  BY <1>0, CellTypes DEF OwnerMaps, Owners, SlotMaps, DirtySets
<1>2. CASE o = Free
  <2>1. e = [c EXCEPT !.em.owner = [@ EXCEPT ![s] = Held]]
    BY <1>2 DEF Evict
  <2> HIDE DEF e
  <2>2. /\ e \in CellStates /\ e.host = c.host /\ e.em.owner = [c.em.owner EXCEPT ![s] = Held]
        /\ e.em.slot = c.em.slot /\ e.em.dirty = c.em.dirty /\ e.mem = c.mem
    BY <1>0, <1>1, <2>1 DEF CellStates
  <2>3. \A v \in Guest : c.em.slot[v] # s
    BY <1>2, RegsAssumption DEF Sound, Matched, Guest, Slots, NoSlot
  <2> QED BY <2>2, <2>3 DEF Sound, Matched, e
<1>3. CASE o # Free
  <2> DEFINE f == flush_guest(c, o)
  <2>1. o \in Guest /\ c.em.slot[o] = s
    BY <1>1, <1>3 DEF Sound, Matched, Owners
  <2>2. /\ f \in CellStates /\ f.host = c.host /\ f.em.owner = c.em.owner /\ f.em.slot = c.em.slot
        /\ f.em.dirty = c.em.dirty \ {o} /\ Matched(f)
    BY <2>1, FlushGuest DEF Sound
  <2>3. e = [f EXCEPT !.em.owner[s] = Held, !.em.slot[o] = NoSlot]
    BY <1>3 DEF Evict
  <2> HIDE DEF f, e
  <2>4. [c.em.slot EXCEPT ![o] = NoSlot] \in SlotMaps
    <3>1. NoSlot \in 0 .. Pool
      BY PoolAssumption DEF NoSlot
    <3> QED BY <1>1, <3>1, Zenon DEF SlotMaps
  <2>5. /\ e \in CellStates /\ e.host = c.host /\ e.em.owner = [c.em.owner EXCEPT ![s] = Held]
        /\ e.em.slot = [c.em.slot EXCEPT ![o] = NoSlot]
        /\ e.em.dirty = c.em.dirty \ {o} /\ e.mem = f.mem
    BY <1>1, <2>2, <2>3, <2>4, Zenon DEF CellStates
  <2>6. \A v \in Guest : v # o => c.em.slot[v] # s
    BY <2>1 DEF Sound, Matched, Slots, NoSlot
  <2>7. \A v \in Guest : e.em.slot[v] = IF c.em.slot[v] = s THEN NoSlot ELSE c.em.slot[v]
    BY <1>1, <2>1, <2>5, <2>6
  <2>8. \A v \in e.em.dirty : v \in c.em.dirty /\ e.em.slot[v] # NoSlot
    BY <1>1, <2>5, <2>6, <2>1 DEF Sound, Matched, Guest
  <2>9. \A v \in Guest : v \notin e.em.dirty => v \in e.mem
    BY <2>2, <2>5 DEF Matched
  <2> QED BY <2>5, <2>7, <2>8, <2>9 DEF e
<1> QED BY <1>2, <1>3

\* A host register s given to a guest v that was not cached: the cache is matched
\* again, only the new guest's copy is not current, and only s lost its guest.
TakenWell(c, v, s, t) ==
  /\ Sound(t, {v}) /\ t.host = c.host /\ t.em.slot[v] = s
  /\ t.em.dirty \subseteq c.em.dirty
  /\ v \in Evict(c, s).mem
  /\ \A u \in Guest :
       u # v /\ c.em.slot[u] # NoSlot /\ c.em.owner[s] # u => t.em.slot[u] # NoSlot

\* Taking a slot for a guest register that has none (the body of hreg_for_read and of
\* hreg_for_write) evicts its owner and leaves the registers sound.
LEMMA Taking ==
  ASSUME NEW c, Sound(c, {}), NEW v \in Guest, c.em.slot[v] = NoSlot, NEW s \in Slots
  PROVE  TakenWell(c, v, s, Taken(c, v, s))
<1> DEFINE e == Evict(c, s)
           t == Taken(c, v, s)
<1>1. /\ e \in CellStates /\ e.host = c.host
      /\ e.em.owner = [c.em.owner EXCEPT ![s] = Held]
      /\ \A u \in Guest : e.em.slot[u] = IF c.em.slot[u] = s THEN NoSlot ELSE c.em.slot[u]
      /\ \A u \in e.em.dirty : u \in c.em.dirty /\ e.em.slot[u] # NoSlot
      /\ \A u \in Guest : u \notin e.em.dirty => u \in e.mem
  BY Evicting
<1>2. /\ c.em.owner \in [Slots -> Owners] /\ e.em.slot \in [Guest -> 0 .. Pool]
      /\ e.em.dirty \subseteq Guest
  BY <1>1, CellTypes, Zenon DEF Sound, OwnerMaps, SlotMaps, DirtySets, Guest
<1>3. t = [e EXCEPT !.em.owner[s] = v, !.em.slot[v] = s]
  BY DEF Taken, Take
<1> HIDE DEF e, t
<1>4. [e.em.owner EXCEPT ![s] = v] = [c.em.owner EXCEPT ![s] = v]
  BY <1>1, <1>2
<1>5. [c.em.owner EXCEPT ![s] = v] \in OwnerMaps /\ [e.em.slot EXCEPT ![v] = s] \in SlotMaps
  BY <1>2, PoolAssumption DEF OwnerMaps, Owners, SlotMaps, Slots
<1>6. /\ t \in CellStates /\ t.host = c.host
      /\ t.em.owner = [c.em.owner EXCEPT ![s] = v] /\ t.em.slot = [e.em.slot EXCEPT ![v] = s]
      /\ t.em.dirty = e.em.dirty /\ t.mem = e.mem
  BY <1>1, <1>3, <1>4, <1>5, Zenon DEF CellStates
<1>7. e.em.slot[v] = NoSlot /\ v \notin e.em.dirty /\ v \in e.mem
  BY <1>1
<1>8. s # NoSlot /\ v # Free /\ v # Held
  BY RegsAssumption DEF Slots, NoSlot, Guest
<1>9. \A u \in Guest : t.em.slot[u] = IF u = v THEN s
                                      ELSE IF c.em.slot[u] = s THEN NoSlot ELSE c.em.slot[u]
  BY <1>1, <1>2, <1>6
<1>10. \A r \in Slots : t.em.owner[r] = IF r = s THEN v ELSE c.em.owner[r]
  BY <1>2, <1>6
<1>11. Matched(t)
  <2>1. \A r \in Slots : t.em.owner[r] # Held
    BY <1>8, <1>10 DEF Sound, Matched
  <2>2. ASSUME NEW u \in Guest, t.em.slot[u] # NoSlot PROVE t.em.owner[t.em.slot[u]] = u
    <3>1. CASE u = v
      BY <1>9, <1>10, <3>1
    <3>2. CASE u # v
      <4>1. t.em.slot[u] = c.em.slot[u] /\ c.em.slot[u] # s /\ c.em.slot[u] # NoSlot
        BY <1>9, <2>2, <3>2
      <4>2. c.em.slot[u] \in Slots
        BY <4>1, CellTypes DEF Sound, SlotMaps, Slots, NoSlot
      <4> QED BY <1>10, <4>1, <4>2 DEF Sound, Matched
    <3> QED BY <3>1, <3>2
  <2>3. ASSUME NEW r \in Slots, t.em.owner[r] # Free PROVE t.em.slot[t.em.owner[r]] = r
    <3>1. CASE r = s
      BY <1>9, <1>10, <3>1
    <3>2. CASE r # s
      <4>1. t.em.owner[r] = c.em.owner[r] /\ c.em.owner[r] \in Guest
        BY <1>2, <1>10, <2>3, <3>2 DEF Sound, Matched, Owners
      <4>2. c.em.slot[c.em.owner[r]] = r /\ r # NoSlot
        BY <2>3, <4>1 DEF Sound, Matched, Slots, NoSlot
      <4> QED BY <1>9, <3>2, <4>1, <4>2
    <3> QED BY <3>1, <3>2
  <2>4. \A u \in t.em.dirty : t.em.slot[u] # NoSlot
    BY <1>1, <1>2, <1>6, <1>7
  <2>5. \A u \in Guest : u \notin t.em.dirty => u \in t.mem
    BY <1>1, <1>6
  <2> QED BY <2>1, <2>2, <2>3, <2>4, <2>5 DEF Matched
<1>12. \A u \in Guest : u # v /\ t.em.slot[u] # NoSlot => Holds(t, u)
  BY <1>6, <1>9 DEF Sound, Holds
<1>13. \A u \in Guest : u # v /\ c.em.slot[u] # NoSlot /\ c.em.owner[s] # u => t.em.slot[u] # NoSlot
  BY <1>9 DEF Sound, Matched
<1>14. Sound(t, {v})
  BY <1>6, <1>11, <1>12 DEF Sound
<1>15. t.em.dirty \subseteq c.em.dirty
  BY <1>1, <1>6
<1>16. TakenWell(c, v, s, t)
  BY <1>6, <1>7, <1>9, <1>13, <1>14, <1>15 DEF e, TakenWell
<1> QED BY <1>16 DEF t

\* A read leaves the guest cached with its current value, and the other operands cached.
LEMMA Reading ==
  ASSUME NEW c, Sound(c, {}), NEW v \in Guest, NEW a \in Guest, NEW b \in Guest,
         NEW keep, keep \subseteq {a, b}
  PROVE  /\ Sound(hreg_for_read(c, v, keep), {})
         /\ hreg_for_read(c, v, keep).em.slot[v] # NoSlot
         /\ \A u \in keep : c.em.slot[u] # NoSlot => hreg_for_read(c, v, keep).em.slot[u] # NoSlot
<1>1. CASE c.em.slot[v] # NoSlot
  BY <1>1 DEF hreg_for_read
<1>2. CASE c.em.slot[v] = NoSlot
  <2> DEFINE s == free_slot(c, keep)
             t == Taken(c, v, s)
             l == Loaded(c, v, s)
  <2>1. s \in Slots /\ c.em.owner[s] \notin keep /\ s # NoSlot
    BY FreeSlot DEF Slots, NoSlot
  <2> HIDE DEF s
  <2>2. /\ Sound(t, {v}) /\ t.host = c.host /\ t.em.slot[v] = s /\ v \in Evict(c, s).mem
        /\ \A u \in Guest : u # v /\ c.em.slot[u] # NoSlot /\ c.em.owner[s] # u => t.em.slot[u] # NoSlot
    <3>1. TakenWell(c, v, s, t)
      BY <1>2, <2>1, Taking
    <3> QED BY <3>1 DEF TakenWell
  <2>3. l = [t EXCEPT !.host[s] = v]
    BY <2>2 DEF Loaded, LoadInto, Taken
  <2>4. hreg_for_read(c, v, keep) = l
    BY <1>2 DEF hreg_for_read, s
  <2> HIDE DEF t, l
  <2>5. t \in CellStates /\ t.host \in [Slots -> Guest \union {Junk}]
    BY <2>2, CellTypes DEF Sound, HostMaps
  <2>6. [t.host EXCEPT ![s] = v] \in HostMaps
    BY <2>5, Zenon DEF HostMaps
  <2>7. l \in CellStates /\ l.host = [t.host EXCEPT ![s] = v] /\ l.em = t.em /\ l.mem = t.mem
    BY <2>3, <2>5, <2>6 DEF CellStates
  <2>8. Matched(l)
    BY <2>2, <2>7 DEF Sound, Matched
  <2>9. ASSUME NEW u \in Guest, l.em.slot[u] # NoSlot PROVE Holds(l, u)
    <3>1. CASE u = v
      BY <2>1, <2>2, <2>5, <2>7, <3>1 DEF Holds
    <3>2. CASE u # v
      <4>1. t.em.slot[u] # s
        BY <2>1, <2>2, <2>7, <2>9, <3>2 DEF Sound, Matched
      <4> QED BY <2>2, <2>5, <2>7, <2>9, <3>2, <4>1 DEF Sound, Holds
    <3> QED BY <3>1, <3>2
  <2>10. Sound(l, {})
    BY <2>7, <2>8, <2>9 DEF Sound
  <2>11. \A u \in keep : c.em.slot[u] # NoSlot => l.em.slot[u] # NoSlot
    BY <1>2, <2>1, <2>2, <2>7
  <2>12. l.em.slot[v] # NoSlot
    BY <2>1, <2>2, <2>7
  <2> QED BY <2>4, <2>10, <2>11, <2>12
<1> QED BY <1>1, <1>2

\* A destination gets a host register without being loaded; the operands stay.
LEMMA Writing ==
  ASSUME NEW c, Sound(c, {}), NEW v \in Guest, NEW a \in Guest, NEW b \in Guest,
         NEW keep, keep \subseteq {a, b}
  PROVE  /\ Sound(hreg_for_write(c, v, keep), {v})
         /\ hreg_for_write(c, v, keep).em.slot[v] # NoSlot
         /\ hreg_for_write(c, v, keep).em.dirty \subseteq c.em.dirty
         /\ \A u \in keep : c.em.slot[u] # NoSlot =>
              /\ hreg_for_write(c, v, keep).em.slot[u] # NoSlot
              /\ Holds(hreg_for_write(c, v, keep), u)
<1> DEFINE w == hreg_for_write(c, v, keep)
<1>1. CASE c.em.slot[v] # NoSlot
  <2>1. w = c
    BY <1>1 DEF hreg_for_write
  <2> QED BY <1>1, <2>1 DEF Sound
<1>2. CASE c.em.slot[v] = NoSlot
  <2> DEFINE s == free_slot(c, keep)
  <2>1. s \in Slots /\ c.em.owner[s] \notin keep /\ s # NoSlot
    BY FreeSlot DEF Slots, NoSlot
  <2>2. w = Taken(c, v, s)
    BY <1>2 DEF hreg_for_write
  <2> HIDE DEF s, w
  <2>3. /\ Sound(w, {v}) /\ w.em.slot[v] = s /\ w.em.dirty \subseteq c.em.dirty
        /\ \A u \in Guest : u # v /\ c.em.slot[u] # NoSlot /\ c.em.owner[s] # u => w.em.slot[u] # NoSlot
    <3>1. TakenWell(c, v, s, w)
      BY <1>2, <2>1, <2>2, Taking
    <3> QED BY <3>1 DEF TakenWell
  <2>4. \A u \in keep : c.em.slot[u] # NoSlot => w.em.slot[u] # NoSlot /\ Holds(w, u)
    BY <1>2, <2>1, <2>3 DEF Sound
  <2> QED BY <2>1, <2>3, <2>4 DEF w
<1> QED BY <1>1, <1>2

\* The new value of a destination makes its copy the current one, and dirty.
LEMMA WriteBack ==
  ASSUME NEW c, NEW rd \in Regs, Sound(c, {rd}), c.em.slot[rd] # NoSlot
  PROVE  Sound(Write(c, rd, TRUE), {})
<1> DEFINE w == Write(c, rd, TRUE)
           h == [s \in Slots |-> IF s = c.em.slot[rd] THEN rd
                                 ELSE IF c.host[s] = rd THEN Junk ELSE c.host[s]]
<1>1. /\ c \in CellStates /\ c.em.dirty \subseteq Regs /\ c.mem \subseteq Guest
      /\ c.host \in [Slots -> Guest \union {Junk}] /\ c.em.slot \in [Guest -> 0 .. Pool]
  BY CellTypes DEF Sound, DirtySets, MemSets, HostMaps, SlotMaps
<1>2. w = [c EXCEPT !.em.dirty = @ \union {rd}, !.mem = @ \ {rd}, !.host = h]
  BY DEF Write
<1>3. c.em.dirty \union {rd} \in DirtySets /\ c.mem \ {rd} \in MemSets
  BY <1>1 DEF DirtySets, MemSets
<1>4. h \in HostMaps
  BY <1>1 DEF HostMaps, Guest
<1>5. \A s \in Slots : h[s] = IF s = c.em.slot[rd] THEN rd
                              ELSE IF c.host[s] = rd THEN Junk ELSE c.host[s]
  OBVIOUS
<1> HIDE DEF w, h
<1>6. /\ w \in CellStates /\ w.em.slot = c.em.slot /\ w.em.owner = c.em.owner
      /\ w.em.dirty = c.em.dirty \union {rd} /\ w.mem = c.mem \ {rd} /\ w.host = h
  BY <1>1, <1>2, <1>3, <1>4, Zenon DEF CellStates
<1>7. Matched(w)
  BY <1>6 DEF Sound, Matched
<1>8. ASSUME NEW v \in Guest, c.em.slot[v] # NoSlot PROVE h[c.em.slot[v]] = v
  <2>1. c.em.slot[v] \in Slots
    BY <1>1, <1>8 DEF Slots, NoSlot
  <2>2. CASE v = rd
    BY <1>5, <2>1, <2>2
  <2>3. CASE v # rd
    <3>1. c.em.slot[v] # c.em.slot[rd]
      BY <1>8, <2>3 DEF Sound, Matched, Guest
    <3>2. c.host[c.em.slot[v]] = v
      BY <1>8, <2>3 DEF Sound, Holds
    <3> QED BY <1>5, <2>1, <2>3, <3>1, <3>2
  <2> QED BY <2>2, <2>3
<1>9. Sound(w, {})
  BY <1>6, <1>7, <1>8 DEF Sound, Holds
<1> QED BY <1>9, Zenon DEF w

\* What a miss may leave from: every dirty guest is current in its host register and
\* every clean one in the register file.
Committable(c) ==
  /\ c \in CellStates
  /\ \A v \in c.em.dirty : c.em.slot[v] # NoSlot /\ Holds(c, v)
  /\ \A v \in Guest : v \notin c.em.dirty => v \in c.mem

\* No two dirty guests share a host register, so the snapshot has room for all of
\* them, and the stub completes the register file (emit.cpp:394-453).
LEMMA Committing ==
  ASSUME NEW c, Committable(c)
  PROVE  Commit(c).mem = Guest
<1> DEFINE d == {v \in Regs : v \in c.em.dirty /\ c.em.slot[v] # NoSlot}
           f == [v \in d |-> c.em.slot[v]]
<1>1. /\ c \in CellStates /\ c.em.dirty \subseteq Regs /\ c.mem \subseteq Guest
      /\ c.em.slot \in [Guest -> 0 .. Pool]
  BY CellTypes DEF Committable, DirtySets, MemSets, SlotMaps
<1>2. d = c.em.dirty
  BY <1>1 DEF Committable
<1>3. f \in Injection(d, 1 .. Pool)
  <2>1. \A v \in d : c.em.slot[v] \in 1 .. Pool
    BY <1>1 DEF NoSlot, Guest
  <2>2. \A u, v \in d : c.em.slot[u] = c.em.slot[v] => u = v
    BY <1>2 DEF Committable, Holds
  <2> HIDE DEF d
  <2> QED BY <2>1, <2>2 DEF Injection, IsInjective
<1>4. IsFiniteSet(1 .. Pool) /\ Cardinality(1 .. Pool) = Pool
  BY FS_Interval, PoolAssumption
<1>5. IsFiniteSet(d) /\ Cardinality(d) <= Pool
  <2> HIDE DEF d, f
  <2>1. IsFiniteSet(d) /\ Cardinality(d) <= Cardinality(1 .. Pool)
    BY <1>3, <1>4, FS_Injection, Zenon
  <2> QED BY <1>4, <2>1
<1>6. Cardinality(d) \in Nat
  <2> HIDE DEF d
  <2> QED BY <1>5, FS_CardinalityType
<1>7. snapshot_dirty(c) = d
  <2>1. Cardinality(d) <= SnapMax
    BY <1>5, <1>6, PoolAssumption
  <2> QED BY <2>1 DEF snapshot_dirty
<1>8. {v \in d : Holds(c, v)} = c.em.dirty
  BY <1>2 DEF Committable
<1>9. Commit(c) = [c EXCEPT !.mem = (@ \ c.em.dirty) \union c.em.dirty]
  BY <1>2, <1>7, <1>8 DEF Commit
<1>10. (c.mem \ c.em.dirty) \union c.em.dirty = Guest
  BY <1>1 DEF Committable, Guest
<1> QED BY <1>1, <1>9, <1>10 DEF CellStates

\* Between instructions nothing stands in the way of a miss.
LEMMA SoundCommittable ==
  ASSUME NEW c, Sound(c, {})
  PROVE  Committable(c)
<1>1. c \in CellStates /\ c.em.dirty \subseteq Guest
  BY CellTypes DEF Sound, DirtySets, Guest
<1> QED BY <1>1 DEF Sound, Matched, Committable

\* A destination whose old value was written back may lose its host register.
LEMMA ClobberedCommittable ==
  ASSUME NEW c, NEW rd \in Guest, Sound(c, {rd}), c.em.slot[rd] # NoSlot, rd \notin c.em.dirty
  PROVE  Committable(Clobber(c, c.em.slot[rd]))
<1> DEFINE s == c.em.slot[rd]
           k == Clobber(c, s)
<1>1. /\ c \in CellStates /\ c.em.dirty \subseteq Guest /\ c.em.slot \in [Guest -> 0 .. Pool]
      /\ c.host \in [Slots -> Guest \union {Junk}]
  BY CellTypes, Zenon DEF Sound, DirtySets, HostMaps, SlotMaps, Guest
<1>2. k = [c EXCEPT !.host = [@ EXCEPT ![s] = Junk]]
  BY DEF Clobber
<1>3. [c.host EXCEPT ![s] = Junk] \in HostMaps
  BY <1>1, Zenon DEF HostMaps
<1> HIDE DEF k
<1>4. k \in CellStates /\ k.em = c.em /\ k.mem = c.mem /\ k.host = [c.host EXCEPT ![s] = Junk]
  BY <1>1, <1>2, <1>3 DEF CellStates
<1>5. ASSUME NEW v \in c.em.dirty PROVE c.em.slot[v] # NoSlot /\ Holds(k, v)
  <2>1. v \in Guest /\ v # rd /\ c.em.slot[v] # NoSlot
    BY <1>1, <1>5 DEF Sound, Matched
  <2>2. c.em.slot[v] # s
    BY <2>1 DEF Sound, Matched
  <2>3. c.em.slot[v] \in Slots /\ Holds(c, v)
    BY <1>1, <2>1 DEF Sound, Slots, NoSlot
  <2> QED BY <1>1, <1>4, <2>1, <2>2, <2>3 DEF Holds
<1>6. Committable(k)
  BY <1>4, <1>5 DEF Sound, Matched, Committable
<1> QED BY <1>6 DEF k

\* A scratch register for an address: the operands stay current, a miss may leave from
\* here, and releasing the register restores the cache.
ScratchWell(c, keep, s) ==
  /\ Committable(Clobber(Evict(c, s), s))
  /\ Sound(release_slot(Clobber(Evict(c, s), s), s), {})
  /\ \A u \in keep : c.em.slot[u] # NoSlot => Holds(Clobber(Evict(c, s), s), u)

\* A scratch register taken outside `keep`, clobbered and released again costs the
\* guest registers in `keep` nothing.
LEMMA Scratch ==
  ASSUME NEW c, Sound(c, {}), NEW a \in Guest, NEW b \in Guest, NEW keep, keep \subseteq {a, b}
  PROVE  ScratchWell(c, keep, free_slot(c, keep))
<1> DEFINE s == free_slot(c, keep)
           e == Evict(c, s)
           k == Clobber(e, s)
           r == release_slot(k, s)
<1>1. s \in Slots /\ c.em.owner[s] \notin keep
  BY FreeSlot
<1> HIDE DEF s
<1>2. /\ e \in CellStates /\ e.host = c.host
      /\ e.em.owner = [c.em.owner EXCEPT ![s] = Held]
      /\ \A u \in Guest : e.em.slot[u] = IF c.em.slot[u] = s THEN NoSlot ELSE c.em.slot[u]
      /\ \A u \in e.em.dirty : u \in c.em.dirty /\ e.em.slot[u] # NoSlot
      /\ \A u \in Guest : u \notin e.em.dirty => u \in e.mem
  BY <1>1, Evicting
<1>3. /\ c.em.owner \in [Slots -> Owners] /\ c.em.slot \in [Guest -> 0 .. Pool]
      /\ e.host \in [Slots -> Guest \union {Junk}] /\ e.em.dirty \subseteq Guest
  BY <1>2, CellTypes, Zenon DEF Sound, OwnerMaps, SlotMaps, HostMaps, DirtySets, Guest
<1>4. k = [e EXCEPT !.host = [@ EXCEPT ![s] = Junk]]
  BY DEF Clobber
<1>5. r = [k EXCEPT !.em.owner[s] = Free]
  BY DEF release_slot
<1> HIDE DEF e, k, r
<1>6. [e.host EXCEPT ![s] = Junk] \in HostMaps
  BY <1>3, Zenon DEF HostMaps
<1>7. k \in CellStates /\ k.em = e.em /\ k.mem = e.mem /\ k.host = [e.host EXCEPT ![s] = Junk]
  BY <1>2, <1>4, <1>6 DEF CellStates
<1>8. ASSUME NEW u \in Guest, e.em.slot[u] # NoSlot
      PROVE  /\ c.em.slot[u] # NoSlot /\ e.em.slot[u] = c.em.slot[u] /\ c.em.slot[u] # s
             /\ k.host[e.em.slot[u]] = u
  <2>1. c.em.slot[u] # NoSlot /\ e.em.slot[u] = c.em.slot[u] /\ c.em.slot[u] # s
    BY <1>2, <1>8
  <2>2. c.em.slot[u] \in Slots /\ c.host[c.em.slot[u]] = u
    BY <1>3, <2>1 DEF Sound, Holds, Slots, NoSlot
  <2> QED BY <1>2, <1>3, <1>7, <2>1, <2>2, SMTT(30)
<1>9. Committable(k)
  BY <1>2, <1>3, <1>7, <1>8 DEF Committable, Holds
<1>10. \A u \in keep : c.em.slot[u] # NoSlot => Holds(k, u)
  <2> SUFFICES ASSUME NEW u \in keep, c.em.slot[u] # NoSlot PROVE Holds(k, u)
    OBVIOUS
  <2>1. u \in Guest /\ c.em.slot[u] # s
    BY <1>1 DEF Sound, Matched
  <2> QED BY <1>2, <1>7, <1>8, <2>1 DEF Holds
<1>11. [e.em.owner EXCEPT ![s] = Free] = [c.em.owner EXCEPT ![s] = Free]
  BY <1>2, <1>3
<1>12. [c.em.owner EXCEPT ![s] = Free] \in OwnerMaps
  BY <1>3, Zenon DEF OwnerMaps, Owners
<1>13. /\ r \in CellStates /\ r.em.slot = e.em.slot /\ r.em.dirty = e.em.dirty
       /\ r.em.owner = [c.em.owner EXCEPT ![s] = Free] /\ r.mem = e.mem /\ r.host = k.host
  BY <1>5, <1>7, <1>11, <1>12 DEF CellStates
<1>14. \A q \in Slots : r.em.owner[q] = IF q = s THEN Free ELSE c.em.owner[q]
  BY <1>3, <1>13
<1>15. Matched(r)
  <2>1. \A q \in Slots : r.em.owner[q] # Held
    BY <1>14, RegsAssumption DEF Sound, Matched
  <2>2. ASSUME NEW u \in Guest, r.em.slot[u] # NoSlot PROVE r.em.owner[r.em.slot[u]] = u
    <3>1. c.em.slot[u] # NoSlot /\ r.em.slot[u] = c.em.slot[u] /\ c.em.slot[u] # s
      BY <1>8, <1>13, <2>2
    <3>2. c.em.slot[u] \in Slots
      BY <1>3, <3>1 DEF Slots, NoSlot
    <3> QED BY <1>14, <3>1, <3>2 DEF Sound, Matched
  <2>3. ASSUME NEW q \in Slots, r.em.owner[q] # Free PROVE r.em.slot[r.em.owner[q]] = q
    <3>1. q # s /\ r.em.owner[q] = c.em.owner[q]
      BY <1>14, <2>3
    <3>2. c.em.owner[q] \in Guest /\ c.em.slot[c.em.owner[q]] = q
      BY <1>3, <2>3, <3>1 DEF Sound, Matched, Owners
    <3> QED BY <1>2, <1>13, <3>1, <3>2
  <2>4. \A u \in r.em.dirty : r.em.slot[u] # NoSlot
    BY <1>2, <1>13
  <2>5. \A u \in Guest : u \notin r.em.dirty => u \in r.mem
    BY <1>2, <1>13
  <2> QED BY <2>1, <2>2, <2>3, <2>4, <2>5 DEF Matched
<1>16. \A u \in Guest : r.em.slot[u] # NoSlot => Holds(r, u)
  BY <1>8, <1>13 DEF Holds
<1>17. Sound(r, {})
  BY <1>13, <1>15, <1>16 DEF Sound
<1> QED BY <1>9, <1>10, <1>17 DEF ScratchWell, s, e, k, r

\* Both operands are loaded, with their current values.
LEMMA ReadingBoth ==
  ASSUME NEW c, Sound(c, {}), NEW a \in Guest, NEW b \in Guest
  PROVE  /\ Sound(ReadBoth(c, a, b), {})
         /\ ReadBoth(c, a, b).em.slot[a] # NoSlot /\ ReadBoth(c, a, b).em.slot[b] # NoSlot
<1> DEFINE c1 == hreg_for_read(c, a, {})
<1>1. Sound(c1, {}) /\ c1.em.slot[a] # NoSlot
  <2>1. {} \subseteq {a, b}
    OBVIOUS
  <2> QED BY <2>1, Reading
<1> HIDE DEF c1
<1>2. /\ Sound(hreg_for_read(c1, b, {a}), {})
      /\ hreg_for_read(c1, b, {a}).em.slot[b] # NoSlot
      /\ \A u \in {a} : c1.em.slot[u] # NoSlot => hreg_for_read(c1, b, {a}).em.slot[u] # NoSlot
  <2>1. {a} \subseteq {a, b}
    OBVIOUS
  <2> QED BY <1>1, <2>1, Reading
<1> QED BY <1>1, <1>2 DEF ReadBoth, c1

\* Both operands of a register-register instruction are in slots once they are read,
\* x0 excepted, which has none.
LEMMA ReadingR ==
  ASSUME NEW c, Sound(c, {}), NEW a \in Guest, NEW b \in Guest
  PROVE  /\ Sound(ReadR(c, a, b), {})
         /\ a = X0 \/ ReadR(c, a, b).em.slot[a] # NoSlot
         /\ b = X0 \/ ReadR(c, a, b).em.slot[b] # NoSlot
<1>1. CASE a = X0 /\ b = X0
  BY <1>1 DEF ReadR
<1>2. CASE a # X0 /\ b = X0
  <2>1. ReadR(c, a, b) = hreg_for_read(c, a, {})
    BY <1>2 DEF ReadR
  <2>2. Sound(hreg_for_read(c, a, {}), {}) /\ hreg_for_read(c, a, {}).em.slot[a] # NoSlot
    BY Reading
  <2> QED BY <1>2, <2>1, <2>2
<1>3. CASE a = X0 /\ b # X0
  <2>1. ReadR(c, a, b) = hreg_for_read(c, b, {X0})
    BY <1>3 DEF ReadR
  <2>2. Sound(hreg_for_read(c, b, {a}), {}) /\ hreg_for_read(c, b, {a}).em.slot[b] # NoSlot
    <3>1. {a} \subseteq {a, b}
      OBVIOUS
    <3> QED BY <3>1, Reading
  <2> QED BY <1>3, <2>1, <2>2
<1>4. CASE a # X0 /\ b # X0
  <2>1. ReadR(c, a, b) = ReadBoth(c, a, b)
    BY <1>4 DEF ReadR
  <2> QED BY <2>1, ReadingBoth
<1> QED BY <1>1, <1>2, <1>3, <1>4
-----------------------------------------------------------------------------
(***************************************************************************)
(* The exits and the steps.                                                *)
(***************************************************************************)
\* With nothing cached and a complete register file every cell is right.
LEMMA EmptySound ==
  ASSUME NEW c, c = [em |-> Empty, host |-> [s \in Slots |-> Junk], mem |-> Guest]
  PROVE  Sound(c, {})
<1>1. /\ c.em = Empty /\ c.host = [s \in Slots |-> Junk] /\ c.mem = Guest
  OBVIOUS
<1>2. /\ Empty.slot = [v \in Guest |-> NoSlot] /\ Empty.dirty = {}
      /\ Empty.owner = [s \in Slots |-> Free]
  BY DEF Empty
<1>3. /\ [v \in Guest |-> NoSlot] \in SlotMaps /\ {} \in DirtySets
      /\ [s \in Slots |-> Free] \in OwnerMaps /\ [s \in Slots |-> Junk] \in HostMaps
      /\ Guest \in MemSets
  BY PoolAssumption DEF SlotMaps, DirtySets, OwnerMaps, HostMaps, MemSets, Owners, NoSlot
<1>4. c \in CellStates
  BY <1>3 DEF CellStates, Empty
<1>5. Matched(c)
  BY <1>1, <1>2, RegsAssumption DEF Matched
<1>6. \A v \in Guest : c.em.slot[v] = NoSlot
  BY <1>1, <1>2
<1> QED BY <1>4, <1>5, <1>6 DEF Sound

\* Leaving with a complete register file.
LEMMA LeaveStep ==
  ASSUME NEW c, Leave(c), c.mem = Guest
  PROVE  /\ Sound(Cells, {})' /\ em' = Empty /\ mem' = Guest
         /\ index' = 0 /\ bytes' = 0 /\ nSuper' = 0
<1>1. Cells' = [em |-> Empty, host |-> [s \in Slots |-> Junk], mem |-> Guest]
  BY DEF Leave, Cells
<1>2. Sound(Cells', {})
  BY <1>1, EmptySound
<1>3. Sound(Cells, {})'
  BY <1>2 DEF Sound, Holds, Matched
<1> QED BY <1>3 DEF Leave

\* A miss reports the pc of the instruction that missed and charges the ones before it.
LEMMA MissStep ==
  ASSUME BlockInv, phase = "block", NEW c, Committable(c), Miss(c)
  PROVE  BlockInv'
<1>1. Leave(Commit(c)) /\ Commit(c).mem = Guest
  BY Committing DEF Miss
<1>2. /\ Sound(Cells, {})' /\ em' = Empty /\ mem' = Guest
      /\ index' = 0 /\ bytes' = 0 /\ nSuper' = 0
  BY <1>1, LeaveStep
<1> QED BY <1>2 DEF BlockInv, Miss

\* An exit tail leaves with the pc and the budget of the instruction that took it.
LEMMA TailStep ==
  ASSUME BlockInv, phase = "block", NEW c, c.mem = Guest, NEW target \in Int, NEW exits \in Nat,
         nExits + exits <= MAX_EXITS, ExitTail(c, target, index + 1, exits, target, TRUE)
  PROVE  BlockInv'
<1>1. /\ Sound(Cells, {})' /\ em' = Empty /\ mem' = Guest
      /\ index' = 0 /\ bytes' = 0 /\ nSuper' = 0
  BY LeaveStep DEF ExitTail
<1>2. right' = TRUE
  BY Zenon DEF BlockInv, ExitTail
<1>3. CADENCE - budget' = ran' /\ budget' \in Int /\ ran' \in Int /\ nExits' \in Int
  BY LimitsAssumption DEF BlockInv, ExitTail
<1> QED BY <1>1, <1>2, <1>3 DEF BlockInv, ExitTail

\* An instruction that completes inside the block.
LEMMA ContinueStep ==
  ASSUME BlockInv, phase = "block", NEW c, Sound(c, {}), NEW n \in Sizes,
         Continue(c, n, TRUE), nSuper' \in Int, nExits' = nSuper', nSuper' <= SUPERBLOCK_MAX
  PROVE  BlockInv'
<1>1. Cells' = [em |-> c.em, host |-> c.host, mem |-> c.mem]
  BY DEF Continue, SetCells, Cells
<1>2. Cells' = c
  BY <1>1 DEF Sound, CellStates
<1>3. Sound(Cells', {})
  BY <1>2
<1>4. Sound(Cells, {})'
  BY <1>3 DEF Sound, Holds, Matched
<1>5. n \in Int /\ SUPERBLOCK_MAX \in Int /\ SUPERBLOCK_MAX <= MAX_EXITS
  BY LimitsAssumption DEF Sizes, SUPERBLOCK_MAX
<1>6. pc' = entry' + bytes' /\ CADENCE - budget' = ran' - index'
  BY <1>5, LimitsAssumption DEF BlockInv, Continue
<1>7. right' = TRUE
  BY Zenon DEF BlockInv, Continue
<1>8. nExits' \in Int /\ nExits' <= MAX_EXITS
  BY <1>5, LimitsAssumption
<1>9. pc' \in Int /\ bytes' \in Int /\ index' \in Int /\ ran' \in Int
  BY <1>5 DEF BlockInv, Continue
<1> QED BY <1>4, <1>6, <1>7, <1>8, <1>9 DEF BlockInv, Continue

\* The facts about the block that a compiled instruction starts from.
LEMMA MoreFacts ==
  ASSUME BlockInv, More
  PROVE  phase = "block" /\ Sound(Cells, {}) /\ nExits = nSuper /\ nSuper <= SUPERBLOCK_MAX /\ nSuper \in Int
BY DEF BlockInv, More

\* A destination written from operands that are cached.
LEMMA Computed ==
  ASSUME NEW c, Sound(c, {}), NEW rd \in Regs, NEW a \in Guest, NEW b \in Guest,
         a = X0 \/ c.em.slot[a] # NoSlot, b = X0 \/ c.em.slot[b] # NoSlot
  PROVE  /\ Sound(Write(hreg_for_write(c, rd, {a, b}), rd, TRUE), {})
         /\ a = X0 \/ Holds(hreg_for_write(c, rd, {a, b}), a)
         /\ b = X0 \/ Holds(hreg_for_write(c, rd, {a, b}), b)
<1> DEFINE w == hreg_for_write(c, rd, {a, b})
<1>1. rd \in Guest /\ {a, b} \subseteq {a, b}
  BY DEF Guest
<1>2. /\ Sound(w, {rd}) /\ w.em.slot[rd] # NoSlot
      /\ \A u \in {a, b} : c.em.slot[u] # NoSlot => w.em.slot[u] # NoSlot /\ Holds(w, u)
  BY <1>1, Writing, Zenon
<1> HIDE DEF w
<1>3. Sound(Write(w, rd, TRUE), {})
  BY <1>2, WriteBack, Zenon
<1>4. (a = X0 \/ Holds(w, a)) /\ (b = X0 \/ Holds(w, b))
  BY <1>2
<1> QED BY <1>3, <1>4, Zenon DEF w

\* A register-register instruction of the block keeps the invariant.
LEMMA EmitR ==
  ASSUME BlockInv, NEW rd \in Regs, NEW rs1 \in Guest, NEW rs2 \in Guest, NEW n \in Sizes,
         emit_r(rd, rs1, rs2, n)
  PROVE  BlockInv'
<1> DEFINE c0 == ReadR(Cells, rs1, rs2)
           c  == hreg_for_write(c0, rd, {rs1, rs2})
<1>1. phase = "block" /\ Sound(Cells, {}) /\ nExits = nSuper /\ nSuper <= SUPERBLOCK_MAX /\ nSuper \in Int
  BY MoreFacts DEF emit_r
<1>2. /\ Continue(Write(c, rd, (rs1 = X0 \/ Holds(c, rs1)) /\ (rs2 = X0 \/ Holds(c, rs2))), n, TRUE)
      /\ UNCHANGED <<nSuper, nExits>>
  BY Zenon DEF emit_r
<1>3. Sound(c0, {}) /\ (rs1 = X0 \/ c0.em.slot[rs1] # NoSlot) /\ (rs2 = X0 \/ c0.em.slot[rs2] # NoSlot)
  BY <1>1, ReadingR
<1> HIDE DEF c0
<1>4. /\ Sound(Write(c, rd, TRUE), {})
      /\ (rs1 = X0 \/ Holds(c, rs1)) /\ (rs2 = X0 \/ Holds(c, rs2))
  BY <1>3, Computed, Zenon
<1> HIDE DEF c
<1>5. Write(c, rd, (rs1 = X0 \/ Holds(c, rs1)) /\ (rs2 = X0 \/ Holds(c, rs2))) = Write(c, rd, TRUE)
  BY <1>4, Zenon DEF Write
<1>6. Continue(Write(c, rd, TRUE), n, TRUE)
  BY <1>2, <1>5, Zenon
<1> QED BY <1>1, <1>2, <1>4, <1>6, ContinueStep, Zenon

\* A multiplication or a division of the block keeps the invariant.
LEMMA EmitM ==
  ASSUME BlockInv, NEW rd \in Regs, NEW rs1 \in Guest, NEW rs2 \in Guest, emit_m(rd, rs1, rs2)
  PROVE  BlockInv'
<1> DEFINE c0 == ReadBoth(Cells, rs1, rs2)
           c  == hreg_for_write(c0, rd, {rs1, rs2})
<1>1. phase = "block" /\ Sound(Cells, {}) /\ nExits = nSuper /\ nSuper <= SUPERBLOCK_MAX /\ nSuper \in Int
  BY MoreFacts DEF emit_m
<1>2. /\ Continue(Write(c, rd, Holds(c, rs1) /\ Holds(c, rs2)), 4, TRUE)
      /\ UNCHANGED <<nSuper, nExits>>
  BY Zenon DEF emit_m
<1>3. Sound(c0, {}) /\ c0.em.slot[rs1] # NoSlot /\ c0.em.slot[rs2] # NoSlot
  BY <1>1, ReadingBoth
<1> HIDE DEF c0
<1>4. /\ Sound(c, {rd}) /\ c.em.slot[rd] # NoSlot
      /\ \A u \in {rs1, rs2} : c0.em.slot[u] # NoSlot => c.em.slot[u] # NoSlot /\ Holds(c, u)
  <2>1. rd \in Guest /\ {rs1, rs2} \subseteq {rs1, rs2}
    BY DEF Guest
  <2> QED BY <1>3, <2>1, Writing, Zenon
<1> HIDE DEF c
<1>5. Sound(Write(c, rd, TRUE), {}) /\ Holds(c, rs1) /\ Holds(c, rs2)
  BY <1>3, <1>4, WriteBack, Zenon
<1>6. Write(c, rd, Holds(c, rs1) /\ Holds(c, rs2)) = Write(c, rd, TRUE)
  BY <1>5 DEF Write
<1>7. Continue(Write(c, rd, TRUE), 4, TRUE) /\ 4 \in Sizes
  BY <1>2, <1>6, Zenon DEF Sizes
<1> QED BY <1>1, <1>2, <1>5, <1>7, ContinueStep, Zenon

\* A load: the miss and the value, into a register or nowhere.
LEMMA EmitLoad ==
  ASSUME BlockInv, NEW rd \in Guest, NEW rs1 \in Guest, NEW n \in Sizes, emit_load(rd, rs1, n)
  PROVE  BlockInv'
<1> DEFINE c1 == hreg_for_read(Cells, rs1, {})
<1>1. phase = "block" /\ Sound(Cells, {}) /\ nExits = nSuper /\ nSuper <= SUPERBLOCK_MAX /\ nSuper \in Int
  BY MoreFacts DEF emit_load
<1>2. Sound(c1, {}) /\ c1.em.slot[rs1] # NoSlot
  <2>1. {} \subseteq {rs1, rs1}
    OBVIOUS
  <2> QED BY <1>1, <2>1, Reading
<1>3. CASE rd = X0
  <2> DEFINE t == free_slot(c1, {rs1})
             c == Clobber(Evict(c1, t), t)
  <2>1. \/ Miss(c)
        \/ Continue(release_slot(c, t), n, Holds(c, rs1)) /\ UNCHANGED <<nSuper, nExits>>
    BY <1>3 DEF emit_load
  <2> HIDE DEF c1
  <2>2. ScratchWell(c1, {rs1}, t)
    <3>1. {rs1} \subseteq {rs1, rs1}
      OBVIOUS
    <3> QED BY <1>2, <3>1, Scratch
  <2>3. Committable(c) /\ Sound(release_slot(c, t), {}) /\ Holds(c, rs1)
    BY <1>2, <2>2 DEF ScratchWell
  <2> HIDE DEF c, t
  <2>4. CASE Miss(c)
    BY <1>1, <2>3, <2>4, MissStep
  <2>5. CASE Continue(release_slot(c, t), n, Holds(c, rs1)) /\ UNCHANGED <<nSuper, nExits>>
    <3>1. Holds(c, rs1) = TRUE
      BY <2>3, Zenon
    <3>2. Continue(release_slot(c, t), n, TRUE)
      BY <2>5, <3>1, Zenon
    <3> QED BY <1>1, <2>3, <2>5, <3>2, ContinueStep, Zenon
  <2> QED BY <2>1, <2>4, <2>5
<1>4. CASE rd # X0
  <2> DEFINE f == flush_guest(c1, rd)
             c == hreg_for_write(f, rd, {rs1})
  <2>1. \/ Miss(Clobber(c, c.em.slot[rd]))
        \/ Continue(Write(c, rd, Holds(c, rs1)), n, Holds(c, rs1)) /\ UNCHANGED <<nSuper, nExits>>
    BY <1>4 DEF emit_load
  <2> HIDE DEF c1
  <2>2. Sound(f, {}) /\ rd \notin f.em.dirty /\ f.em.slot[rs1] # NoSlot
    <3>1. Sound(f, {}) /\ f.em.dirty = c1.em.dirty \ {rd} /\ f.em.slot = c1.em.slot
      BY <1>2, FlushGuest, Zenon
    <3> HIDE DEF f
    <3> QED BY <1>2, <3>1
  <2> HIDE DEF f
  <2>3. /\ Sound(c, {rd}) /\ c.em.slot[rd] # NoSlot /\ c.em.dirty \subseteq f.em.dirty
        /\ \A u \in {rs1} : f.em.slot[u] # NoSlot => c.em.slot[u] # NoSlot /\ Holds(c, u)
    <3>1. {rs1} \subseteq {rs1, rs1}
      OBVIOUS
    <3> QED BY <2>2, <3>1, Writing, ZenonT(30)
  <2> HIDE DEF c
  <2>4. rd \in Regs /\ rd \notin c.em.dirty /\ Holds(c, rs1)
    BY <1>4, <2>2, <2>3 DEF Guest
  <2>5. CASE Miss(Clobber(c, c.em.slot[rd]))
    <3>1. Committable(Clobber(c, c.em.slot[rd]))
      BY <2>3, <2>4, ClobberedCommittable
    <3> QED BY <1>1, <2>5, <3>1, MissStep
  <2>6. CASE Continue(Write(c, rd, Holds(c, rs1)), n, Holds(c, rs1)) /\ UNCHANGED <<nSuper, nExits>>
    <3>1. Holds(c, rs1) = TRUE
      BY <2>4, Zenon
    <3>2. Continue(Write(c, rd, TRUE), n, TRUE)
      BY <2>6, <3>1, Zenon
    <3>3. Sound(Write(c, rd, TRUE), {})
      BY <2>3, <2>4, WriteBack, Zenon
    <3> QED BY <1>1, <2>6, <3>2, <3>3, ContinueStep, Zenon
  <2> QED BY <2>1, <2>5, <2>6
<1> QED BY <1>3, <1>4

\* A store: the address and the value are current, or nothing was stored.
LEMMA EmitStore ==
  ASSUME BlockInv, NEW rs1 \in Guest, NEW rs2 \in Guest, NEW n \in Sizes, emit_store(rs1, rs2, n)
  PROVE  BlockInv'
<1> DEFINE c2 == ReadBoth(Cells, rs2, rs1)
           t  == free_slot(c2, {rs1, rs2})
           c  == Clobber(Evict(c2, t), t)
<1>1. phase = "block" /\ Sound(Cells, {}) /\ nExits = nSuper /\ nSuper <= SUPERBLOCK_MAX /\ nSuper \in Int
  BY MoreFacts DEF emit_store
<1>2. \/ Miss(c)
      \/ /\ Continue(release_slot(c, t), n, Holds(c, rs1) /\ Holds(c, rs2))
         /\ UNCHANGED <<nSuper, nExits>>
  BY DEF emit_store
<1>3. Sound(c2, {}) /\ c2.em.slot[rs1] # NoSlot /\ c2.em.slot[rs2] # NoSlot
  BY <1>1, ReadingBoth
<1> HIDE DEF c2
<1>4. ScratchWell(c2, {rs1, rs2}, t)
  <2>1. {rs1, rs2} \subseteq {rs1, rs2}
    OBVIOUS
  <2> QED BY <1>3, <2>1, Scratch
<1>5. Committable(c) /\ Sound(release_slot(c, t), {}) /\ Holds(c, rs1) /\ Holds(c, rs2)
  BY <1>3, <1>4 DEF ScratchWell
<1> HIDE DEF c, t
<1>6. CASE Miss(c)
  BY <1>1, <1>5, <1>6, MissStep
<1>7. CASE /\ Continue(release_slot(c, t), n, Holds(c, rs1) /\ Holds(c, rs2))
           /\ UNCHANGED <<nSuper, nExits>>
  <2>1. (Holds(c, rs1) /\ Holds(c, rs2)) = TRUE
    BY <1>5, Zenon
  <2>2. Continue(release_slot(c, t), n, TRUE)
    BY <1>7, <2>1, Zenon
  <2> QED BY <1>1, <1>5, <1>7, <2>2, ContinueStep, Zenon
<1> QED BY <1>2, <1>6, <1>7

\* A conditional branch: the comparison is right on every way on, and an exit tail is
\* left for the ones to come.
LEMMA EmitCondExit ==
  ASSUME BlockInv, NEW rs1 \in Guest, NEW rs2 \in Guest, NEW n \in Sizes, NEW target \in Targets,
         emit_cond_exit(rs1, rs2, n, target)
  PROVE  BlockInv'
<1> DEFINE c0 == ReadBoth(Cells, rs1, rs2)
           c == flush_all(c0)
           super == nSuper < SUPERBLOCK_MAX /\ ~full
           ok == Holds(c, rs1) /\ Holds(c, rs2)
<1>1. /\ phase = "block" /\ Sound(Cells, {}) /\ nExits = nSuper /\ nSuper <= SUPERBLOCK_MAX
      /\ nSuper \in Int /\ pc = entry + bytes /\ pc \in Int /\ entry \in Int /\ bytes \in Int
      /\ target \in Int /\ n \in Int
  <2>1. More
    BY Zenon DEF emit_cond_exit
  <2>2. target \in Int /\ n \in Int
    BY LimitsAssumption DEF Sizes
  <2> QED BY <2>1, <2>2, MoreFacts DEF BlockInv
<1>2. \/ target % 2 = 1 /\ Miss(c)
      \/ /\ target % 2 = 0
         /\ ExitTail(c, entry + bytes + (target - pc), index + 1, IF super THEN 1 ELSE 2, target, ok)
      \/ super /\ Continue(c, n, ok) /\ nSuper' = nSuper + 1 /\ nExits' = nExits + 1
      \/ ~super /\ ExitTail(flush_all(c), entry + bytes + n, index + 1, 2, pc + n, ok)
  BY Zenon DEF emit_cond_exit
<1>3. Sound(c0, {}) /\ c0.em.slot[rs1] # NoSlot /\ c0.em.slot[rs2] # NoSlot
  BY <1>1, ReadingBoth
<1> HIDE DEF c0
<1>4. Sound(c, {}) /\ c.mem = Guest /\ c.em.slot[rs1] # NoSlot /\ c.em.slot[rs2] # NoSlot
  BY <1>3, FlushAll
<1> HIDE DEF c
<1>5. flush_all(c).mem = Guest
  BY <1>4, FlushAll
<1>6. ok = TRUE
  <2>1. Holds(c, rs1) /\ Holds(c, rs2)
    BY <1>4 DEF Sound
  <2> QED BY <2>1, Zenon
<1>7. nExits + 2 <= MAX_EXITS /\ MAX_EXITS \in Int /\ SUPERBLOCK_MAX \in Int
  BY <1>1, LimitsAssumption DEF SUPERBLOCK_MAX
<1>8. entry + bytes + (target - pc) = target /\ entry + bytes + n = pc + n
  BY <1>1
<1> HIDE DEF ok
<1>9. CASE target % 2 = 1 /\ Miss(c)
  BY <1>1, <1>4, <1>9, SoundCommittable, MissStep
<1>10. CASE ExitTail(c, entry + bytes + (target - pc), index + 1, IF super THEN 1 ELSE 2, target, ok)
  <2>1. CASE super
    <3>1. ExitTail(c, target, index + 1, 1, target, TRUE)
      BY <1>6, <1>8, <1>10, <2>1, Zenon
    <3>2. nExits + 1 <= MAX_EXITS
      BY <1>1, <1>7
    <3> QED BY <1>1, <1>4, <3>1, <3>2, TailStep, Zenon
  <2>2. CASE ~super
    <3>1. ExitTail(c, target, index + 1, 2, target, TRUE)
      BY <1>6, <1>8, <1>10, <2>2, Zenon
    <3> QED BY <1>1, <1>4, <1>7, <3>1, TailStep, Zenon
  <2> QED BY <2>1, <2>2
<1>11. CASE super /\ Continue(c, n, ok) /\ nSuper' = nSuper + 1 /\ nExits' = nExits + 1
  <2>1. Continue(c, n, TRUE)
    BY <1>6, <1>11, Zenon
  <2>2. nSuper' \in Int /\ nExits' = nSuper' /\ nSuper' <= SUPERBLOCK_MAX
    BY <1>1, <1>7, <1>11
  <2> QED BY <1>1, <1>4, <2>1, <2>2, ContinueStep, Zenon
<1>12. CASE ~super /\ ExitTail(flush_all(c), entry + bytes + n, index + 1, 2, pc + n, ok)
  <2>1. ExitTail(flush_all(c), pc + n, index + 1, 2, pc + n, TRUE)
    BY <1>6, <1>8, <1>12, Zenon
  <2>2. pc + n \in Int
    BY <1>1
  <2> QED BY <1>1, <1>5, <1>7, <2>1, <2>2, TailStep, Zenon
<1> QED BY <1>2, <1>9, <1>10, <1>11, <1>12

\* A jump: the target is the register's current value, and the link comes after it.
LEMMA EmitJump ==
  ASSUME BlockInv, NEW link \in Guest, NEW rs1 \in Guest, NEW n \in Sizes, NEW target \in Targets,
         NEW f \in BOOLEAN, emit_jump(link, rs1, n, target, f)
  PROVE  BlockInv'
<1> DEFINE c0 == flush_all(Cells)
           c  == IF f THEN hreg_for_read(c0, rs1, {}) ELSE c0
           x  == IF link = X0 THEN c ELSE Write(hreg_for_write(c, link, {rs1}), link, TRUE)
           to == target - (target % 2)
           rax == IF ~f THEN entry + bytes + (target - pc) ELSE IF Holds(c, rs1) THEN to ELSE -1
<1>1. /\ phase = "block" /\ Sound(Cells, {}) /\ nExits = nSuper /\ nSuper <= SUPERBLOCK_MAX
      /\ nSuper \in Int /\ pc = entry + bytes /\ pc \in Int /\ entry \in Int /\ bytes \in Int
      /\ target \in Nat
  BY MoreFacts, LimitsAssumption DEF emit_jump, BlockInv
<1>2. IF ~f /\ target % 2 = 1 THEN Miss(c) ELSE ExitTail(flush_all(x), rax, index + 1, 1, to, TRUE)
  BY ZenonT(30) DEF emit_jump
<1>3. Sound(c0, {})
  BY <1>1, FlushAll
<1> HIDE DEF c0
<1>4. Sound(c, {}) /\ (f => Holds(c, rs1))
  <2>1. CASE f
    <3>1. {} \subseteq {rs1, rs1}
      OBVIOUS
    <3>2. Sound(hreg_for_read(c0, rs1, {}), {}) /\ hreg_for_read(c0, rs1, {}).em.slot[rs1] # NoSlot
      BY <1>3, <3>1, Reading
    <3>3. Sound(c, {}) /\ c.em.slot[rs1] # NoSlot
      BY <2>1, <3>2
    <3> QED BY <3>3 DEF Sound
  <2>2. CASE ~f
    BY <1>3, <2>2
  <2> QED BY <2>1, <2>2
<1> HIDE DEF c
<1>5. Sound(x, {})
  <2>1. CASE link = X0
    BY <1>4, <2>1
  <2>2. CASE link # X0
    <3> DEFINE w == hreg_for_write(c, link, {rs1})
    <3>1. {rs1} \subseteq {rs1, rs1} /\ link \in Regs
      BY <2>2 DEF Guest
    <3>2. Sound(w, {link}) /\ w.em.slot[link] # NoSlot
      BY <1>4, <3>1, Writing, Zenon
    <3> HIDE DEF w
    <3>3. Sound(Write(w, link, TRUE), {})
      BY <3>1, <3>2, WriteBack, Zenon
    <3> QED BY <2>2, <3>3, Zenon DEF w
  <2> QED BY <2>1, <2>2, Zenon
<1> HIDE DEF x
<1>6. flush_all(x).mem = Guest
  BY <1>5, FlushAll
<1>7. CASE ~f /\ target % 2 = 1
  <2>1. Miss(c)
    BY <1>2, <1>7, Zenon
  <2> QED BY <1>1, <1>4, <2>1, SoundCommittable, MissStep
<1>8. CASE ~(~f /\ target % 2 = 1)
  <2>1. ExitTail(flush_all(x), rax, index + 1, 1, to, TRUE)
    BY <1>2, <1>8, Zenon
  <2>2. target % 2 \in {0, 1} /\ to \in Int
    BY <1>1
  <2>3. rax = to
    <3>1. CASE f
      BY <1>4, <3>1
    <3>2. CASE ~f
      <4>1. target % 2 = 0
        BY <1>8, <2>2, <3>2
      <4> QED BY <1>1, <3>2, <4>1
    <3> QED BY <3>1, <3>2
  <2> HIDE DEF rax, to
  <2>4. ExitTail(flush_all(x), to, index + 1, 1, to, TRUE)
    BY <2>1, <2>3, Zenon
  <2>5. nExits + 1 <= MAX_EXITS
    BY <1>1, LimitsAssumption DEF SUPERBLOCK_MAX
  <2> QED BY <1>1, <1>6, <2>2, <2>4, <2>5, TailStep, Zenon
<1> QED BY <1>7, <1>8

\* The end of a block, the hop to the next one, and the runner.
LEMMA RunnerSteps ==
  ASSUME BlockInv, \/ emit_epilogue \/ Hop \/ Return \/ Call
                   \/ \E t \in Targets : Interpret(t)
  PROVE  BlockInv'
<1>1. CASE emit_epilogue
  <2>1. flush_all(Cells).mem = Guest
    BY FlushAll DEF BlockInv
  <2>2. /\ Sound(Cells, {})' /\ em' = Empty /\ mem' = Guest
        /\ index' = 0 /\ bytes' = 0 /\ nSuper' = 0
    BY <1>1, <2>1, LeaveStep DEF emit_epilogue
  <2>3. /\ nExits' \in Int /\ nExits' <= MAX_EXITS /\ CADENCE - budget' = ran' /\ budget' \in Int
        /\ exitPc' = pc' /\ entry' = pc'
    BY <1>1, LimitsAssumption DEF emit_epilogue, BlockInv, SUPERBLOCK_MAX
  <2> QED BY <1>1, <2>2, <2>3 DEF emit_epilogue, BlockInv
<1>2. ASSUME UNCHANGED <<em, host, mem>> PROVE Sound(Cells, {})'
  <2>1. Cells' = Cells
    BY <1>2 DEF Cells
  <2>2. Sound(Cells', {})
    BY <2>1 DEF BlockInv
  <2> QED BY <2>2 DEF Sound, Holds, Matched
<1>3. CASE Hop
  <2>1. Sound(Cells, {})'
    BY <1>2, <1>3 DEF Hop
  <2>2. /\ pc' = entry' + bytes' /\ CADENCE - budget' = ran' - index' /\ nExits' = nSuper'
        /\ nSuper' <= SUPERBLOCK_MAX /\ nExits' \in Int /\ nExits' <= MAX_EXITS
    BY <1>3, LimitsAssumption DEF Hop, BlockInv, SUPERBLOCK_MAX
  <2> QED BY <1>3, <2>1, <2>2 DEF Hop, BlockInv
<1>4. CASE Return
  <2>1. Sound(Cells, {})'
    BY <1>2, <1>4 DEF Return
  <2> QED BY <1>4, <2>1 DEF Return, BlockInv
<1>5. CASE Call
  <2>1. Sound(Cells, {})'
    BY <1>2, <1>5 DEF Call
  <2>2. /\ pc' = entry' + bytes' /\ CADENCE - budget' = ran' - index' /\ nExits' = nSuper'
        /\ nSuper' <= SUPERBLOCK_MAX /\ nExits' \in Int /\ nExits' <= MAX_EXITS
        /\ budget' \in Int /\ ran' \in Int /\ entry' \in Int
    BY <1>5, LimitsAssumption DEF Call, BlockInv, SUPERBLOCK_MAX
  <2> QED BY <1>5, <2>1, <2>2 DEF Call, BlockInv
<1>6. ASSUME NEW t \in Targets, Interpret(t) PROVE BlockInv'
  <2>1. Sound(Cells, {})'
    BY <1>2, <1>6 DEF Interpret
  <2>2. t \in Int
    BY LimitsAssumption
  <2> QED BY <1>6, <2>1, <2>2 DEF Interpret, BlockInv
<1> QED BY <1>1, <1>3, <1>4, <1>5, <1>6

\* Whichever way compiled code is left, the register file, the exit pc and the chain
\* budget are those of the guest, no stale register was used, and the exit table is
\* never overrun (emit.cpp:142-206, 330-470; rvjit.cpp): for every pool of at least
\* three host registers, every set of guest registers and every limit.
THEOREM BlockPreciseExit == BlockSpec => []PreciseExit
<1>1. BlockInit => BlockInv
  <2> SUFFICES ASSUME BlockInit PROVE BlockInv
    OBVIOUS
  <2>1. Cells = [em |-> Empty, host |-> [s \in Slots |-> Junk], mem |-> Guest]
    BY DEF BlockInit, Cells
  <2>2. Sound(Cells, {})
    BY <2>1, EmptySound
  <2> QED BY <2>2, LimitsAssumption DEF BlockInit, BlockInv, SUPERBLOCK_MAX
<1>2. BlockInv /\ [BlockNext]_blockVars => BlockInv'
  <2> SUFFICES ASSUME BlockInv, [BlockNext]_blockVars PROVE BlockInv'
    OBVIOUS
  <2>1. CASE UNCHANGED blockVars
    <3>1. Cells' = Cells
      BY <2>1 DEF blockVars, Cells
    <3>2. Sound(Cells', {})
      BY <3>1 DEF BlockInv
    <3>3. Sound(Cells, {})'
      BY <3>2 DEF Sound, Holds, Matched
    <3> QED BY <2>1, <3>3 DEF blockVars, BlockInv
  <2> QED BY <2>1, EmitR, EmitM, EmitLoad, EmitStore, EmitCondExit, EmitJump, RunnerSteps
          DEF BlockNext
<1>3. BlockInv => PreciseExit
  BY LimitsAssumption DEF BlockInv, PreciseExit
<1> QED BY <1>1, <1>2, <1>3, PTL DEF BlockSpec
=============================================================================
