------------------------- MODULE ApfsContainerProofs ------------------------
(***************************************************************************)
(* Proofs about what opening answers of the containers a driver leaves,    *)
(* over any ring and any number of blocks and transactions.                *)
(*                                                                         *)
(* Blocks are given to later transactions as soon as the live checkpoint   *)
(* no longer leads to them, so a superblock may name an object map another *)
(* now has; what keeps it from being read is its transaction. The first    *)
(* invariant says so of every superblock that is or will be on the disk.   *)
(* The second says what every superblock in the ring is: the live one, the *)
(* one being written, an older one, or one torn for good, since no mapping *)
(* block of its transaction will be written again.                         *)
(***************************************************************************)
EXTENDS ApfsContainer, SequenceTheorems, TLAPS

\* What a superblock names is its own or was taken by a later transaction.
Kept(sb, objects, held, n) ==
    /\ sb.xid \in 1..n
    /\ LET map == objects[sb.omap]
       IN  map.kind = "omap" /\ map.xid <= sb.xid => map.holds = held[sb.xid]

KeptBlock(b, objects, held, n) == b.kind = "super" /\ b.own => Kept(b, objects, held, n)

Named ==
    /\ Kept(live, blocks, holds, count) /\ live.own /\ blocks[live.omap].xid <= live.xid
    /\ next # Idle => /\ Kept(next, blocks, holds, count) /\ next.own
                      /\ blocks[next.omap].xid <= next.xid
    /\ \A s \in Slots : KeptBlock(ring[s], blocks, holds, count)
    /\ \A s \in DOMAIN pending : KeptBlock(pending[s], blocks, holds, count)

Answering == answer.outcome = "unasked" \/ power # "on"

\* A place in the ring stays in it, however far a checkpoint reaches.
LEMMA InRing == ASSUME NEW n \in Nat PROVE n % Ring \in Slots
BY RingAssumption DEF Slots

\* The blocks of a checkpoint are its mapping blocks and its superblock, in the ring.
LEMMA CheckpointBlocks ==
    ASSUME NEW sb \in Supers
    PROVE  /\ DOMAIN Checkpoint(sb) \subseteq Slots
           /\ Checkpoint(sb) \in [DOMAIN Checkpoint(sb) -> RingBlocks]
           /\ \A s \in DOMAIN Checkpoint(sb) : Checkpoint(sb)[s].kind = "super" => Checkpoint(sb)[s] = sb
<1>1. sb.start \in Nat /\ sb.len \in Nat /\ sb.len >= 1 /\ sb.xid \in Nat
  BY DEF Supers
<1>2. Last(sb) \in Slots
  <2>1. sb.start + sb.len - 1 \in Nat
    BY <1>1
  <2>. QED BY <2>1, InRing DEF Last
<1>3. MapSlots(sb) \subseteq Slots
  <2>1. ASSUME NEW k \in 0..(sb.len - 2) PROVE (sb.start + k) % Ring \in Slots
    <3>1. sb.start + k \in Nat
      BY <1>1
    <3>. QED BY <3>1, InRing
  <2>. QED BY <2>1 DEF MapSlots
<1>4. Map(sb.xid) \in RingBlocks /\ Map(sb.xid).kind # "super" /\ sb \in RingBlocks
  BY <1>1 DEF Map, RingBlocks
<1> HIDE DEF Supers, RingBlocks
<1>. QED BY <1>2, <1>3, <1>4 DEF Checkpoint

\* A superblock made for a transaction has its types.
LEMMA SuperType ==
    ASSUME NEW xid \in Nat, NEW start \in Nat, NEW len \in Nat \ {0}, NEW omap \in Addresses
    PROVE  Super(xid, start, len, omap) \in Supers
BY DEF Super, Supers

-----------------------------------------------------------------------------

\* The container a driver begins with, and the one it may have been written over.
LEMMA Beginnings ==
    /\ First \in Supers /\ Foreign \in Supers /\ First.own /\ ~Foreign.own
    /\ First.xid = 1 /\ First.omap \in Addresses
<1>1. (CHOOSE a \in Addresses : TRUE) \in Addresses
  BY AddressesAssumption
<1>2. First \in Supers /\ First.own /\ First.xid = 1 /\ First.omap \in Addresses
  BY <1>1, SuperType DEF First, Super
<1>3. Super(ForeignXid, 2, 2, First.omap) \in Supers
  BY <1>2, LengthsAssumption, SuperType
<1>4. Foreign \in Supers /\ ~Foreign.own
  BY <1>3 DEF Foreign, Supers
<1>. QED BY <1>2, <1>4

\* The first state has its types, and its one checkpoint names its own object map.
LEMMA InitHolds == Init => TypeOK /\ Named /\ Answering
<1> SUFFICES ASSUME Init PROVE TypeOK /\ Named /\ Answering
  OBVIOUS
<1>1. PICK foreign \in BOOLEAN, v \in Addresses \ {First.omap} :
        /\ ring = [s \in Slots |->
                     IF s \in DOMAIN Checkpoint(First) THEN Checkpoint(First)[s]
                     ELSE IF foreign /\ s \in DOMAIN Checkpoint(Foreign) THEN Checkpoint(Foreign)[s]
                     ELSE Unwritten]
        /\ blocks = [a \in Addresses |->
                       IF a = First.omap THEN ObjectMap(1, v, 1)
                       ELSE IF a = v THEN VolumeBlock(1) ELSE Unwritten]
  BY DEF Init
<1>2. blocks \in [Addresses -> Objects]
  <2>1. ObjectMap(1, v, 1) \in Objects /\ VolumeBlock(1) \in Objects /\ Unwritten \in Objects
    BY DEF ObjectMap, VolumeBlock, Unwritten, Objects
  <2>. QED BY <1>1, <2>1
<1>3. \A s \in Slots : ring[s] \in RingBlocks /\ (ring[s].kind = "super" /\ ring[s].own => ring[s] = First)
  <2> TAKE s \in Slots
  <2>0. Unwritten \in RingBlocks /\ Unwritten.kind = "none"
    BY DEF Unwritten, RingBlocks
  <2>1. CASE s \in DOMAIN Checkpoint(First)
    BY <1>1, <2>1, Beginnings, CheckpointBlocks
  <2>2. CASE s \notin DOMAIN Checkpoint(First) /\ foreign /\ s \in DOMAIN Checkpoint(Foreign)
    BY <1>1, <2>2, Beginnings, CheckpointBlocks
  <2>3. CASE s \notin DOMAIN Checkpoint(First) /\ ~(foreign /\ s \in DOMAIN Checkpoint(Foreign))
    BY <1>1, <2>0, <2>3
  <2>. QED BY <2>1, <2>2, <2>3
<1>4. Kept(First, blocks, holds, count)
  <2>1. blocks[First.omap].holds = 1 /\ holds[First.xid] = 1 /\ count = 1
    BY <1>1, Beginnings DEF ObjectMap, Init
  <2>. QED BY <2>1, Beginnings DEF Kept
<1>5. TypeOK
  <2>1. ring \in [Slots -> RingBlocks]
    BY <1>1, <1>3
  <2>2. holds \in Seq(Nat) /\ Len(holds) = count /\ count = 1
    BY DEF Init
  <2>. QED BY <1>2, <2>1, <2>2, Beginnings DEF Init, TypeOK
<1>6. Named
  <2>1. blocks[First.omap].xid = 1
    BY <1>1, Beginnings DEF ObjectMap
  <2>. QED BY <1>3, <1>4, <2>1, Beginnings DEF Init, Named, KeptBlock, Idle
<1>. QED BY <1>5, <1>6 DEF Init, Answering

-----------------------------------------------------------------------------

\* What a transaction does to the disk and to what the driver is at.
LEMMA BeginWrites ==
    ASSUME TypeOK, Named, Begin
    PROVE  \E m \in Addresses, v \in Addresses, h \in Nat :
             /\ m # live.omap /\ v # live.omap /\ m # v
             /\ m # blocks[live.omap].volume /\ v # blocks[live.omap].volume
             /\ \/ /\ blocks' = [blocks EXCEPT ![m] = ObjectMap(count + 1, v, count + 1),
                                               ![v] = VolumeBlock(count + 1)]
                   /\ next'.omap = m /\ h = count + 1
                \/ blocks' = blocks /\ next'.omap = live.omap /\ h = holds[live.xid]
             /\ next' \in Supers /\ next'.own /\ next'.xid = count + 1
             /\ next'.sound /\ next'.start = (Last(live) + 1) % Ring
             /\ live.len + next'.len <= Ring
             /\ fault' = IF next'.loads THEN fault ELSE "tool"
             /\ holds' = Append(holds, h)
<1>1. PICK len \in Lengths, writes \in BOOLEAN, loads \in BOOLEAN,
           m \in Addresses \ InUse, v \in Addresses \ InUse :
        /\ m # v
        /\ IF writes
           THEN blocks' = [blocks EXCEPT ![m] = ObjectMap(count + 1, v, count + 1),
                                         ![v] = VolumeBlock(count + 1)]
           ELSE UNCHANGED blocks
        /\ next' = [Super(count + 1, (Last(live) + 1) % Ring, len,
                          IF writes THEN m ELSE live.omap) EXCEPT !.loads = loads]
        /\ holds' = Append(holds, IF writes THEN count + 1 ELSE holds[live.xid])
        /\ live.len + len <= Ring
        /\ fault' = IF loads THEN fault ELSE "tool"
  BY DEF Begin
<1> DEFINE omap == IF writes THEN m ELSE live.omap
           start == (Last(live) + 1) % Ring
<1>2. live \in Supers /\ live.omap \in Addresses /\ omap \in Addresses
  BY DEF TypeOK, Supers
<1>3. start \in Nat
  <2>1. live.start + live.len - 1 \in Nat
    BY <1>2 DEF Supers
  <2>2. Last(live) + 1 \in Nat
    BY <2>1, InRing DEF Last, Slots
  <2>. QED BY <2>2, InRing DEF Slots
<1>4. count + 1 \in Nat /\ len \in Nat \ {0}
  BY LengthsAssumption DEF TypeOK
<1>5. next' = [Super(count + 1, start, len, omap) EXCEPT !.loads = loads]
  BY <1>1
<1> HIDE DEF omap, start
<1>6. Super(count + 1, start, len, omap) \in Supers
  BY <1>2, <1>3, <1>4, SuperType
<1>7. next' \in Supers
  BY <1>5, <1>6 DEF Supers
<1>8. /\ next'.own /\ next'.xid = count + 1 /\ next'.omap = omap
      /\ next'.sound /\ next'.start = start /\ next'.len = len /\ next'.loads = loads
  BY <1>5 DEF Super
<1>13. /\ next'.start = (Last(live) + 1) % Ring
       /\ live.len + next'.len <= Ring
       /\ fault' = IF next'.loads THEN fault ELSE "tool"
  BY <1>1, <1>8 DEF start
<1>9. holds[live.xid] \in Nat
  BY DEF TypeOK, Named, Kept
<1>10. /\ m # live.omap /\ v # live.omap
       /\ m # blocks[live.omap].volume /\ v # blocks[live.omap].volume
  BY <1>1 DEF InUse
<1>11. CASE writes
  BY <1>1, <1>4, <1>7, <1>8, <1>10, <1>11, <1>13 DEF omap
<1>12. CASE ~writes
  BY <1>1, <1>7, <1>8, <1>9, <1>10, <1>12, <1>13 DEF omap
<1>. QED BY <1>11, <1>12

\* A superblock that is kept stays so when a later transaction takes blocks.
LEMMA KeptAcrossBegin ==
    ASSUME TypeOK, NEW sb, sb.omap \in Addresses, Kept(sb, blocks, holds, count),
           NEW m \in Addresses, NEW v \in Addresses, NEW h \in Nat, m # v,
           \/ blocks' = [blocks EXCEPT ![m] = ObjectMap(count + 1, v, count + 1),
                                       ![v] = VolumeBlock(count + 1)]
           \/ blocks' = blocks,
           holds' = Append(holds, h), count' = count + 1
    PROVE  Kept(sb, blocks', holds', count')
<1>1. sb.xid \in 1..count /\ count \in Nat /\ Len(holds) = count /\ holds \in Seq(Nat)
  BY DEF Kept, TypeOK
<1>2. holds'[sb.xid] = holds[sb.xid]
  BY <1>1
<1>3. CASE blocks' = blocks
  BY <1>1, <1>2, <1>3 DEF Kept
<1>4. CASE blocks' = [blocks EXCEPT ![m] = ObjectMap(count + 1, v, count + 1),
                                    ![v] = VolumeBlock(count + 1)]
  <2>1. CASE sb.omap \in {m, v}
    <3>1. blocks'[sb.omap].xid = count + 1
      BY <1>4, <2>1 DEF TypeOK, ObjectMap, VolumeBlock
    <3>. QED BY <1>1, <3>1 DEF Kept
  <2>2. CASE sb.omap \notin {m, v}
    <3>1. blocks'[sb.omap] = blocks[sb.omap]
      BY <1>4, <2>2 DEF TypeOK
    <3>. QED BY <1>1, <1>2, <3>1 DEF Kept
  <2>. QED BY <2>1, <2>2
<1>. QED BY <1>3, <1>4

Safe == TypeOK /\ Named /\ Answering

\* A transaction begins: what it takes is not what the live checkpoint leads to.
LEMMA BeginKeeps == Safe /\ Begin => Safe'
<1> SUFFICES ASSUME Safe, Begin PROVE Safe'
  OBVIOUS
<1>. USE DEF Safe
<1>0. /\ ring' = ring /\ zero' = zero /\ live' = live /\ power' = "on" /\ answer' = answer
      /\ power = "on" /\ next = Idle /\ count' = count + 1 /\ pending' = Checkpoint(next')
      /\ answer.outcome = "unasked"
  BY DEF Begin, Running, Answering, asked
<1>1. PICK m \in Addresses, v \in Addresses, h \in Nat :
        /\ m # live.omap /\ v # live.omap /\ m # v
        /\ \/ /\ blocks' = [blocks EXCEPT ![m] = ObjectMap(count + 1, v, count + 1),
                                           ![v] = VolumeBlock(count + 1)]
              /\ next'.omap = m /\ h = count + 1
           \/ blocks' = blocks /\ next'.omap = live.omap /\ h = holds[live.xid]
        /\ next' \in Supers /\ next'.own /\ next'.xid = count + 1
        /\ holds' = Append(holds, h)
  BY BeginWrites
<1>2. count \in Nat /\ holds \in Seq(Nat) /\ Len(holds) = count /\ blocks \in [Addresses -> Objects]
      /\ live \in Supers
  BY DEF TypeOK
<1>3. blocks' \in [Addresses -> Objects]
  <2>1. ObjectMap(count + 1, v, count + 1) \in Objects /\ VolumeBlock(count + 1) \in Objects
    BY <1>2 DEF ObjectMap, VolumeBlock, Objects
  <2>. QED BY <1>1, <1>2, <2>1
<1>4. holds' \in Seq(Nat) /\ Len(holds') = count' /\ holds'[count + 1] = h
  BY <1>0, <1>1, <1>2
<1>5. TypeOK'
  <2>1. \A s \in DOMAIN pending' : s \in Slots /\ pending'[s] \in RingBlocks
    BY <1>0, <1>1, CheckpointBlocks
  <2>2. ring \in [Slots -> RingBlocks] /\ zero \in Supers /\ live \in Supers
    BY DEF TypeOK
  <2>3. count' \in Nat \ {0}
    BY <1>0, <1>2
  <2>. QED BY <1>0, <1>1, <1>3, <1>4, <2>1, <2>2, <2>3 DEF TypeOK
<1>6. ASSUME NEW sb, sb.omap \in Addresses, Kept(sb, blocks, holds, count)
      PROVE  Kept(sb, blocks', holds', count')
  BY <1>0, <1>1, <1>6, KeptAcrossBegin
<1>7. blocks'[live.omap] = blocks[live.omap] /\ live.omap \in Addresses
  BY <1>1, <1>2 DEF Supers
<1>8. Kept(next', blocks', holds', count') /\ blocks'[next'.omap].xid <= next'.xid
  <2>1. next'.xid \in 1..count' /\ holds'[next'.xid] = h
    BY <1>0, <1>1, <1>2, <1>4
  <2>2. CASE blocks' = [blocks EXCEPT ![m] = ObjectMap(count + 1, v, count + 1),
                                      ![v] = VolumeBlock(count + 1)]
             /\ next'.omap = m /\ h = count + 1
    <3>1. blocks'[next'.omap] = ObjectMap(count + 1, v, count + 1)
      BY <1>1, <1>2, <2>2
    <3>2. blocks'[next'.omap].holds = h /\ blocks'[next'.omap].xid = count + 1
      BY <2>2, <3>1 DEF ObjectMap
    <3>. QED BY <1>1, <1>2, <2>1, <3>2 DEF Kept
  <2>3. CASE blocks' = blocks /\ next'.omap = live.omap /\ h = holds[live.xid]
    <3>1. blocks[live.omap].xid <= live.xid /\ live.xid \in 1..count
          /\ (blocks[live.omap].kind = "omap" => blocks[live.omap].holds = holds[live.xid])
      BY DEF Named, Kept
    <3>2. blocks[live.omap].xid \in Nat
      BY <1>2, <1>7 DEF Objects
    <3>. QED BY <1>1, <1>2, <2>1, <2>3, <3>1, <3>2 DEF Kept
  <2>. QED BY <1>1, <2>2, <2>3
<1>9. \A s \in Slots : KeptBlock(ring[s], blocks', holds', count')
  <2> TAKE s \in Slots
  <2>1. ring[s].kind = "super" => ring[s].omap \in Addresses
    BY DEF TypeOK, RingBlocks, Supers
  <2>2. KeptBlock(ring[s], blocks, holds, count)
    BY DEF Named
  <2>. QED BY <1>6, <2>1, <2>2 DEF KeptBlock
<1>10. \A s \in DOMAIN pending' : KeptBlock(pending'[s], blocks', holds', count')
  BY <1>0, <1>1, <1>8, CheckpointBlocks DEF KeptBlock
<1>11. Named'
  <2>1. Kept(live, blocks', holds', count') /\ live.own /\ blocks'[live.omap].xid <= live.xid
    BY <1>6, <1>7 DEF Named
  <2>. QED BY <1>0, <1>1, <1>8, <1>9, <1>10, <2>1 DEF Named
<1>. QED BY <1>0, <1>5, <1>11 DEF Answering

\* The blocks of a checkpoint reach the ring.
LEMMA WriteKeeps == Safe /\ Write => Safe'
<1> SUFFICES ASSUME Safe, Write PROVE Safe'
  OBVIOUS
<1>. USE DEF Safe
<1>1. PICK s \in DOMAIN pending :
        /\ ring' = [ring EXCEPT ![s] = pending[s]]
        /\ pending' = [t \in DOMAIN pending \ {s} |-> pending[t]]
  BY DEF Write
<1>2. s \in Slots /\ pending[s] \in RingBlocks /\ ring \in [Slots -> RingBlocks]
      /\ DOMAIN pending' = DOMAIN pending \ {s} /\ DOMAIN pending \subseteq Slots
      /\ \A t \in DOMAIN pending' : pending'[t] = pending[t]
  BY <1>1 DEF TypeOK
<1>3. ring' \in [Slots -> RingBlocks] /\ \A t \in DOMAIN pending' : pending'[t] \in RingBlocks
  <2>1. \A t \in DOMAIN pending : pending[t] \in RingBlocks
    BY DEF TypeOK
  <2>. QED BY <1>1, <1>2, <2>1
<1>4. UNCHANGED <<blocks, zero, live, next, count, power, holds, answer>>
  BY DEF Write, Running, asked
<1>5. TypeOK'
  BY <1>2, <1>3, <1>4 DEF TypeOK
<1>6. \A t \in Slots : KeptBlock(ring'[t], blocks, holds, count)
  BY <1>1, <1>2 DEF Named
<1>7. Named'
  BY <1>2, <1>4, <1>6 DEF Named
<1>. QED BY <1>4, <1>5, <1>7 DEF Answering

\* The driver takes what it wrote for live, or is found again where it was.
LEMMA DriverKeeps == Safe /\ (Finish \/ Unmount \/ LosePower \/ Mount) => Safe'
<1> SUFFICES ASSUME Safe, Finish \/ Unmount \/ LosePower \/ Mount PROVE Safe'
  OBVIOUS
<1>. USE DEF Safe
<1>1. UNCHANGED <<ring, blocks, count, holds, answer>>
  BY DEF Finish, Unmount, LosePower, Mount, Running, image, asked
<1>2. Adopted \in {live, next} /\ (Adopted = next => next # Idle \/ Adopted = live)
  BY DEF Adopted, OnDisk
<1>3. Adopted \in Supers
  BY DEF Adopted, OnDisk, TypeOK
<1>4. live' \in {live, Adopted} /\ next' \in {next, Idle} /\ zero' \in {zero, live, next}
      /\ (zero' = next => next # Idle \/ zero' = zero \/ zero' = live)
  BY DEF Finish, Unmount, LosePower, Mount, OnDisk, image
<1>5. pending' = pending \/ pending' = << >>
  BY DEF Finish, Unmount, LosePower, Mount
<1>6. DOMAIN << >> = {}
  OBVIOUS
<1>7. TypeOK'
  <2>1. live' \in Supers /\ next' \in Supers \cup {Idle} /\ zero' \in Supers
    BY <1>3, <1>4 DEF TypeOK
  <2>2. \A s \in DOMAIN pending' : s \in Slots /\ pending'[s] \in RingBlocks
    BY <1>5, <1>6 DEF TypeOK
  <2>. QED BY <1>1, <2>1, <2>2 DEF TypeOK
<1>8. Named'
  <2>1. Kept(Adopted, blocks, holds, count) /\ Adopted.own /\ blocks[Adopted.omap].xid <= Adopted.xid
    BY <1>2 DEF Named
  <2>2. \A t \in DOMAIN pending' : KeptBlock(pending'[t], blocks, holds, count)
    BY <1>5, <1>6 DEF Named
  <2>. QED BY <1>1, <1>4, <2>1, <2>2 DEF Named
<1>9. Answering'
  BY DEF Finish, Unmount, LosePower, Mount, Running, asked, Answering
<1>. QED BY <1>7, <1>8, <1>9

\* A block that goes bad keeps its type and says what it said.
LEMMA GoneBad ==
    /\ \A b \in RingBlocks : LET d == [b EXCEPT !.sound = FALSE]
                             IN  d \in RingBlocks /\ (d.kind = "super" => d.kind = b.kind /\ d.own = b.own
                                                       /\ d.xid = b.xid /\ d.omap = b.omap)
    /\ \A b \in Objects : LET d == [b EXCEPT !.sound = FALSE]
                          IN  d \in Objects /\ d.kind = b.kind /\ d.xid = b.xid
                              /\ (d.kind = "omap" => d.holds = b.holds)
    /\ \A b \in Supers : [b EXCEPT !.sound = FALSE] \in Supers
BY DEF RingBlocks, Supers, Objects

\* A block of the container goes bad: what it names is not changed by that.
LEMMA DamageKeeps == Safe /\ Damage => Safe'
<1> SUFFICES ASSUME Safe, Damage PROVE Safe'
  OBVIOUS
<1>1. UNCHANGED <<live, next, pending, count, power, holds, answer>>
  BY DEF Damage, driver, asked
<1>2. ring \in [Slots -> RingBlocks] /\ blocks \in [Addresses -> Objects] /\ zero \in Supers
  BY DEF Safe, TypeOK
<1>3. ring' \in [Slots -> RingBlocks]
      /\ \A s \in Slots : ring'[s] = ring[s] \/ ring'[s] = [ring[s] EXCEPT !.sound = FALSE]
  <2>1. ring' = ring \/ \E s \in Slots : ring' = [ring EXCEPT ![s].sound = FALSE]
    BY DEF Damage
  <2>2. ASSUME NEW s \in Slots, ring' = [ring EXCEPT ![s] = [ring[s] EXCEPT !.sound = FALSE]] PROVE <1>3
    BY <1>2, <2>2, GoneBad
  <2>. QED BY <1>2, <2>1, <2>2
<1>4. blocks' \in [Addresses -> Objects]
      /\ \A a \in Addresses : blocks'[a] = blocks[a] \/ blocks'[a] = [blocks[a] EXCEPT !.sound = FALSE]
  <2>1. blocks' = blocks \/ \E a \in Addresses : blocks' = [blocks EXCEPT ![a].sound = FALSE]
    BY DEF Damage
  <2>2. ASSUME NEW a \in Addresses, blocks' = [blocks EXCEPT ![a] = [blocks[a] EXCEPT !.sound = FALSE]] PROVE <1>4
    BY <1>2, <2>2, GoneBad
  <2>. QED BY <1>2, <2>1, <2>2
<1>5. zero' \in Supers
  BY <1>2, GoneBad DEF Damage
<1>6. TypeOK'
  BY <1>1, <1>3, <1>4, <1>5 DEF Safe, TypeOK
<1>7. ASSUME NEW sb, sb.omap \in Addresses, Kept(sb, blocks, holds, count)
      PROVE  Kept(sb, blocks', holds, count) /\ blocks'[sb.omap].xid = blocks[sb.omap].xid
  BY <1>2, <1>4, <1>7, GoneBad DEF Kept
<1>8. \A s \in Slots : KeptBlock(ring'[s], blocks', holds, count)
  <2> SUFFICES ASSUME NEW s \in Slots, ring'[s].kind = "super", ring'[s].own
               PROVE  Kept(ring'[s], blocks', holds, count)
    BY DEF KeptBlock
  <2>1. ring[s].kind = "super" /\ ring[s].own /\ ring'[s].xid = ring[s].xid /\ ring'[s].omap = ring[s].omap
    BY <1>2, <1>3, GoneBad
  <2>2. ring[s].omap \in Addresses
    BY <1>2, <2>1 DEF RingBlocks, Supers
  <2>3. Kept(ring[s], blocks', holds, count)
    BY <1>7, <2>1, <2>2 DEF Safe, Named, KeptBlock
  <2>. QED BY <2>1, <2>3 DEF Kept
<1>9. \A s \in DOMAIN pending : KeptBlock(pending[s], blocks', holds, count)
  <2> SUFFICES ASSUME NEW s \in DOMAIN pending, pending[s].kind = "super", pending[s].own
               PROVE  Kept(pending[s], blocks', holds, count)
    BY DEF KeptBlock
  <2>1. pending[s].omap \in Addresses
    BY DEF Safe, TypeOK, RingBlocks, Supers
  <2>. QED BY <1>7, <2>1 DEF Safe, Named, KeptBlock
<1>10. live.omap \in Addresses /\ (next # Idle => next.omap \in Addresses)
  BY DEF Safe, TypeOK, Supers
<1>11. Named'
  <2>1. Kept(live, blocks', holds, count) /\ live.own /\ blocks'[live.omap].xid <= live.xid
    BY <1>7, <1>10 DEF Safe, Named
  <2>2. next # Idle => Kept(next, blocks', holds, count) /\ next.own /\ blocks'[next.omap].xid <= next.xid
    BY <1>7, <1>10 DEF Safe, Named
  <2>. QED BY <1>1, <1>8, <1>9, <2>1, <2>2 DEF Named
<1>. QED BY <1>1, <1>6, <1>11 DEF Safe, Answering

\* A copy of the live checkpoint elsewhere in the ring names what it names.
LEMMA DoubleKeeps == Safe /\ Double => Safe'
<1> SUFFICES ASSUME Safe, Double PROVE Safe'
  OBVIOUS
<1> DEFINE copy == [live EXCEPT !.start = (Last(live) + 1) % Ring]
<1>1. UNCHANGED <<blocks, zero, live, next, pending, count, power, holds, answer>>
  BY DEF Double, driver, asked
<1>2. ring \in [Slots -> RingBlocks] /\ live \in Supers
  BY DEF Safe, TypeOK
<1>3. copy \in Supers /\ copy.xid = live.xid /\ copy.omap = live.omap
  <2>1. (Last(live) + 1) % Ring \in Nat
    <3>1. live.start + live.len - 1 \in Nat
      BY <1>2 DEF Supers
    <3>2. Last(live) + 1 \in Nat
      BY <3>1, InRing DEF Last, Slots
    <3>. QED BY <3>2, InRing DEF Slots
  <2>. QED BY <1>2, <2>1 DEF Supers
<1>4. ring' = Laid(Checkpoint(copy))
  BY DEF Double
<1> HIDE DEF copy
<1>5. \A s \in Slots : ring'[s] \in RingBlocks /\ (ring'[s] = ring[s] \/ (ring'[s].kind = "super" => ring'[s] = copy))
  BY <1>2, <1>3, <1>4, CheckpointBlocks DEF Laid
<1>6. ring' \in [Slots -> RingBlocks]
  BY <1>4, <1>5 DEF Laid
<1>7. Kept(copy, blocks, holds, count)
  BY <1>3 DEF Safe, Named, Kept
<1>8. \A s \in Slots : KeptBlock(ring'[s], blocks, holds, count)
  BY <1>5, <1>7 DEF Safe, Named, KeptBlock
<1>9. TypeOK' /\ Named'
  BY <1>1, <1>6, <1>8 DEF Safe, TypeOK, Named
<1>. QED BY <1>1, <1>9 DEF Safe, Answering

\* Opening changes nothing but the answer, which it gives with the power off.
LEMMA OpenKeeps == Safe /\ (Open \/ UNCHANGED vars) => Safe'
<1>1. ASSUME Safe, Open PROVE Safe'
  <2>1. UNCHANGED <<ring, blocks, zero, live, next, pending, count, power, holds>> /\ power # "on"
    BY <1>1 DEF Open, Resting, image, driver
  <2>. QED BY <1>1, <2>1 DEF Safe, TypeOK, Named, Answering
<1>2. ASSUME Safe, UNCHANGED vars PROVE Safe'
  <2>1. UNCHANGED <<ring, blocks, zero, live, next, pending, count, power, holds, answer>>
    BY <1>2 DEF vars, image, driver, asked
  <2>. QED BY <1>2, <2>1 DEF Safe, TypeOK, Named, Answering
<1>. QED BY <1>1, <1>2

\* Every step keeps all three.
LEMMA NextKeeps == Safe /\ [Next]_vars => Safe'
BY BeginKeeps, WriteKeeps, DriverKeeps, DamageKeeps, DoubleKeeps, OpenKeeps DEF Next, Settled

\* The variables of the container, its driver and its opening keep their types, for any ring,
\* any blocks and any number of transactions.
THEOREM TypeCorrect == Spec => []TypeOK
<1>1. Init => Safe
  BY InitHolds DEF Safe
<1>2. Safe => TypeOK
  BY DEF Safe
<1>. QED BY <1>1, <1>2, NextKeeps, PTL DEF Spec

-----------------------------------------------------------------------------

\* A refusal is not an opened container.
LEMMA RefusedIsNotOpen ==
    ASSUME NEW a, a.outcome = "open"
    PROVE  a # Refused("bad checksum") /\ a # Refused("no checkpoint")
<1>1. ASSUME NEW w, a = Refused(w) PROVE w = "open"
  BY <1>1 DEF Refused
<1>2. "bad checksum" # "open" /\ "no checkpoint" # "open"
  OBVIOUS
<1>. QED BY <1>1, <1>2, Zenon

\* What opening answers was named by a superblock the container wrote.
LEMMA OpenServes == Safe /\ Open => ServesItsTransaction'
<1> SUFFICES ASSUME Safe, Open, IsOpen' PROVE ServesItsTransaction'
  BY DEF ServesItsTransaction
<1>1. UNCHANGED <<ring, blocks, holds, count>>
  BY DEF Open, image, driver
<1>2. PICK s \in Slots : IsLive(s) /\ answer' = OpenedAt(s, policy' = "strict")
  <2>0. answer'.outcome = "open"
    BY DEF IsOpen
  <2>1. answer' # Refused("bad checksum") /\ answer' # Refused("no checkpoint")
    BY <2>0, RefusedIsNotOpen
  <2>. QED BY <2>1, Zenon DEF Open
<1>3. ring[s].kind = "super" /\ ring[s].own
  BY <1>2 DEF IsLive, Loaded, Candidates, Whole
<1>4. Kept(ring[s], blocks, holds, count)
  BY <1>3 DEF Safe, Named, KeptBlock
<1>5. ReadsMap(ring[s].omap, ring[s].xid) /\ answer' = Opened(s)
  BY <1>2 DEF OpenedAt, Refused, IsOpen
<1>6. answer'.xid = ring[s].xid /\ answer'.volume = Volume(blocks[ring[s].omap])
  BY <1>5 DEF Opened
<1>7. blocks[ring[s].omap].holds = holds[ring[s].xid]
  BY <1>4, <1>5 DEF ReadsMap, Kept
<1>8. answer'.volume \in {0, holds[ring[s].xid]}
  BY <1>6, <1>7 DEF Volume, ReadsVolume
<1>. QED BY <1>1, <1>4, <1>6, <1>8 DEF Kept, ServesItsTransaction

\* Nothing the driver does is done once a container has been opened.
LEMMA AnswerStands == Safe /\ ServesItsTransaction /\ [Next]_vars => ServesItsTransaction'
<1> SUFFICES ASSUME Safe, ServesItsTransaction, [Next]_vars PROVE ServesItsTransaction'
  OBVIOUS
<1>1. CASE Open
  BY <1>1, OpenServes
<1>2. CASE ~Open
  <2>1. UNCHANGED answer
    BY <1>2 DEF Next, Begin, Write, Finish, Unmount, LosePower, Mount, Damage, Double, Settled,
               Running, asked, vars
  <2>2. IsOpen => UNCHANGED <<holds, count>>
    BY <1>2 DEF Next, Begin, Write, Finish, Unmount, LosePower, Mount, Damage, Double, Settled,
               Running, Safe, Answering, IsOpen, driver, vars
  <2>. QED BY <2>1, <2>2 DEF ServesItsTransaction, IsOpen
<1>. QED BY <1>1, <1>2

\* What is opened is served as of its own transaction: a block that was freed and reused since
\* is never taken for the object map or the volume superblock the checkpoint named.
THEOREM ServedAsOfItsTransaction == Spec => []ServesItsTransaction
<1>1. Init => Safe /\ ServesItsTransaction
  BY InitHolds DEF Safe, Init, ServesItsTransaction, IsOpen
<1>. QED BY <1>1, NextKeeps, AnswerStands, PTL DEF Spec

-----------------------------------------------------------------------------
\* The ring: what is less than a round away is elsewhere in it.

\* A number is a quotient's worth of rounds and what is left of it.
LEMMA Rounds ==
    ASSUME NEW R \in Nat \ {0}, NEW x \in Nat
    PROVE  \E q \in Nat : x % R \in 0..(R - 1) /\ x = R * q + (x % R)
<1> DEFINE q == x \div R
           r == x % R
<1>1. q \in Int /\ r \in 0..(R - 1) /\ x = R * q + r
  OBVIOUS
<1> HIDE DEF q, r
<1>2. ASSUME q < 0 PROVE FALSE
  <2>1. R * q <= R * (-1)
    BY <1>1, <1>2
  <2> QED BY <1>1, <2>1
<1>3. q \in Nat
  BY <1>1, <1>2
<1> QED
  BY <1>1, <1>3 DEF r

\* Only one way.
LEMMA OneWayRound ==
    ASSUME NEW R \in Nat \ {0}, NEW q \in Int, NEW p \in Int, NEW r \in 0..(R - 1),
           NEW t \in 0..(R - 1), R * q + r = R * p + t
    PROVE  q = p /\ r = t
<1>0. ASSUME NEW i \in Int, i >= 1 PROVE R * i >= R
  <2>1. R * i >= R * 1
    BY <1>0
  <2> QED BY <2>1
<1>1. ASSUME q < p PROVE FALSE
  <2>1. p - q \in Int /\ p - q >= 1 /\ R * (p - q) = r - t
    BY <1>1
  <2> QED BY <1>0, <2>1
<1>2. ASSUME p < q PROVE FALSE
  <2>1. q - p \in Int /\ q - p >= 1 /\ R * (q - p) = t - r
    BY <1>2
  <2> QED BY <1>0, <2>1
<1> QED
  BY <1>1, <1>2

\* Going on from where going round left is going on.
LEMMA RoundAndOn ==
    ASSUME NEW R \in Nat \ {0}, NEW x \in Nat, NEW y \in Nat
    PROVE  ((x % R) + y) % R = (x + y) % R
<1>1. PICK q \in Nat : x % R \in 0..(R - 1) /\ x = R * q + (x % R)
  BY Rounds
<1> DEFINE s == x % R
           z == s + y
           w == x + y
<1>2. z \in Nat /\ w \in Nat /\ w = R * q + z
  <2>1. s \in 0..(R - 1) /\ x = R * q + s
    BY <1>1
  <2> HIDE DEF s
  <2> QED BY <2>1
<1> HIDE DEF z, w
<1>3. PICK u \in Nat : z % R \in 0..(R - 1) /\ z = R * u + (z % R)
  BY <1>2, Rounds
<1>4. PICK v \in Nat : w % R \in 0..(R - 1) /\ w = R * v + (w % R)
  BY <1>2, Rounds
<1> DEFINE r == z % R
           t == w % R
<1>5. r \in 0..(R - 1) /\ t \in 0..(R - 1) /\ z = R * u + r /\ w = R * v + t
  BY <1>3, <1>4
<1> HIDE DEF r, t
<1>6. R * (q + u) + r = R * v + t
  BY <1>2, <1>5
<1>7. q + u \in Int /\ v \in Int
  OBVIOUS
<1> DEFINE p == q + u
<1>8. p \in Int /\ R * p + r = R * v + t
  BY <1>6, <1>7
<1> HIDE DEF p
<1>9. r = t
  BY <1>5, <1>7, <1>8, OneWayRound
<1> QED
  BY <1>9 DEF r, t, z, w, s

\* Less than a round away is elsewhere.
LEMMA ElsewhereWithinRound ==
    ASSUME NEW R \in Nat \ {0}, NEW x \in Nat, NEW d \in 1..(R - 1)
    PROVE  (x + d) % R # x % R
<1> DEFINE w == x + d
           r == x % R
<1>1. PICK q \in Nat : x % R \in 0..(R - 1) /\ x = R * q + (x % R)
  BY Rounds
<1>2. w \in Nat /\ w = x + d
  OBVIOUS
<1> HIDE DEF w
<1>3. PICK v \in Nat : w % R \in 0..(R - 1) /\ w = R * v + (w % R)
  BY <1>2, Rounds
<1>4. r \in 0..(R - 1) /\ x = R * q + r
  BY <1>1
<1> HIDE DEF r
<1> SUFFICES ASSUME w % R = r PROVE FALSE
  BY DEF w, r
<1>5. R * q + r + d = R * v + r
  BY <1>2, <1>3, <1>4
<1> DEFINE p == v - q
<1>6. p \in Int /\ R * p + 0 = R * 0 + d
  BY <1>4, <1>5
<1> HIDE DEF p
<1>7. d \in 0..(R - 1) /\ 0 \in 0..(R - 1) /\ 0 \in Int
  OBVIOUS
<1>8. 0 = d
  BY <1>6, <1>7, OneWayRound
<1> QED
  BY <1>8

-----------------------------------------------------------------------------
\* What a driver that was stopped, at any moment, leaves in the ring.

Sealed(sb) == sb \in Supers /\ sb.sound /\ sb.own /\ sb.len \in 1..Ring /\ sb.start \in Slots

\* A checkpoint takes as many slots as it is long, the last for its superblock.
LEMMA SlotsOf ==
    ASSUME NEW sb, Sealed(sb)
    PROVE  /\ Last(sb) \in Slots /\ MapSlots(sb) \subseteq Slots /\ Last(sb) \notin MapSlots(sb)
           /\ DOMAIN Checkpoint(sb) = MapSlots(sb) \cup {Last(sb)}
           /\ Checkpoint(sb)[Last(sb)] = sb
           /\ \A s \in MapSlots(sb) : Checkpoint(sb)[s] = Map(sb.xid)
           /\ \A s \in DOMAIN Checkpoint(sb) : \E k \in 0..(sb.len - 1) : s = (sb.start + k) % Ring
<1>1. sb.start \in Nat /\ sb.len \in Nat /\ sb.len >= 1 /\ sb.len <= Ring /\ Ring \in Nat \ {0}
  BY RingAssumption DEF Sealed, Supers
<1>2. Last(sb) \in Slots
  <2>1. sb.start + sb.len - 1 \in Nat
    BY <1>1
  <2> QED BY <2>1, InRing DEF Last
<1>3. ASSUME NEW k \in 0..(sb.len - 2)
      PROVE  (sb.start + k) % Ring \in Slots /\ (sb.start + k) % Ring # Last(sb)
  <2>1. sb.start + k \in Nat
    BY <1>1
  <2> DEFINE x == sb.start + k
             d == sb.len - 1 - k
  <2>2. d \in 1..(Ring - 1) /\ x + d = sb.start + sb.len - 1
    BY <1>1
  <2> HIDE DEF x, d
  <2>3. x \in Nat
    BY <2>1 DEF x
  <2>4. (x + d) % Ring # x % Ring
    BY <1>1, <2>2, <2>3, ElsewhereWithinRound
  <2>5. Last(sb) # x % Ring
    BY <2>2, <2>4 DEF Last
  <2> QED
    BY <2>1, <2>5, InRing DEF x
<1>4. MapSlots(sb) \subseteq Slots /\ Last(sb) \notin MapSlots(sb)
  BY <1>3 DEF MapSlots
<1>5. DOMAIN Checkpoint(sb) = MapSlots(sb) \cup {Last(sb)}
  BY DEF Checkpoint
<1>6. Checkpoint(sb)[Last(sb)] = sb /\ \A s \in MapSlots(sb) : Checkpoint(sb)[s] = Map(sb.xid)
  BY <1>4 DEF Checkpoint
<1>7. ASSUME NEW s \in DOMAIN Checkpoint(sb)
      PROVE  \E k \in 0..(sb.len - 1) : s = (sb.start + k) % Ring
  <2>1. CASE s = Last(sb)
    <3>1. sb.len - 1 \in 0..(sb.len - 1) /\ sb.start + (sb.len - 1) = sb.start + sb.len - 1
      BY <1>1
    <3> QED BY <2>1, <3>1 DEF Last
  <2>2. CASE s \in MapSlots(sb)
    <3>1. PICK k \in 0..(sb.len - 2) : s = (sb.start + k) % Ring
      BY <2>2 DEF MapSlots
    <3>2. k \in 0..(sb.len - 1)
      BY <1>1
    <3> QED BY <3>1, <3>2
  <2> QED BY <1>5, <2>1, <2>2
<1> QED
  BY <1>2, <1>4, <1>5, <1>6, <1>7

\* A checkpoint begun where another ends takes none of its slots, if both fit in the ring.
LEMMA TakesOtherSlots ==
    ASSUME NEW sb, NEW nx, Sealed(sb), Sealed(nx),
           nx.start = (Last(sb) + 1) % Ring, sb.len + nx.len <= Ring
    PROVE  \A s \in DOMAIN Checkpoint(sb) : s \notin DOMAIN Checkpoint(nx)
<1>1. /\ sb.start \in Nat /\ sb.len \in Nat /\ sb.len >= 1
      /\ nx.start \in Nat /\ nx.len \in Nat /\ nx.len >= 1 /\ Ring \in Nat \ {0}
  BY RingAssumption DEF Sealed, Supers
<1>2. nx.start = (sb.start + sb.len) % Ring
  <2> DEFINE x == sb.start + sb.len - 1
  <2>1. x \in Nat /\ x + 1 = sb.start + sb.len /\ 1 \in Nat
    BY <1>1
  <2>2. nx.start = ((x % Ring) + 1) % Ring
    BY DEF Last
  <2> HIDE DEF x
  <2> QED BY <1>1, <2>1, <2>2, RoundAndOn
<1> SUFFICES ASSUME NEW s \in DOMAIN Checkpoint(sb), s \in DOMAIN Checkpoint(nx) PROVE FALSE
  OBVIOUS
<1>3. PICK k \in 0..(sb.len - 1) : s = (sb.start + k) % Ring
  BY SlotsOf
<1>4. PICK j \in 0..(nx.len - 1) : s = (nx.start + j) % Ring
  BY SlotsOf
<1> DEFINE y == sb.start + sb.len
           x == sb.start + k
           d == sb.len + j - k
<1>5. y \in Nat /\ j \in Nat /\ x \in Nat /\ d \in 1..(Ring - 1) /\ x + d = y + j
  BY <1>1
<1> HIDE DEF y, x, d
<1>6. s = (y + j) % Ring
  <2>1. nx.start = y % Ring
    BY <1>2 DEF y
  <2>2. s = ((y % Ring) + j) % Ring
    BY <1>4, <2>1
  <2>3. ((y % Ring) + j) % Ring = (y + j) % Ring
    BY <1>1, <1>5, RoundAndOn
  <2> QED BY <2>2, <2>3
<1>7. s = x % Ring
  BY <1>3 DEF x
<1>8. (x + d) % Ring # x % Ring
  BY <1>1, <1>5, ElsewhereWithinRound
<1>9. (x + d) % Ring = (y + j) % Ring
  BY <1>5
<1> QED
  BY <1>6, <1>7, <1>8, <1>9

\* A checkpoint all of whose blocks are on the disk.
Standing(sb) == \A s \in DOMAIN Checkpoint(sb) : ring[s] = Checkpoint(sb)[s]

\* The checkpoint being written goes where the live one ends, and is on the disk but for what
\* is pending.
Writing ==
    /\ next = Idle => DOMAIN pending = {}
    /\ next # Idle =>
          /\ Sealed(next) /\ next.xid = count /\ live.xid < count /\ count <= MaxTx
          /\ next.start = (Last(live) + 1) % Ring /\ live.len + next.len <= Ring
          /\ \A s \in DOMAIN pending : s \in DOMAIN Checkpoint(next) /\ pending[s] = Checkpoint(next)[s]
          /\ \A s \in DOMAIN Checkpoint(next) : s \notin DOMAIN pending => ring[s] = Checkpoint(next)[s]

\* A superblock of a checkpoint no driver finished, short of a block of it: none will be made
\* of its transaction again.
Torn(s) ==
    /\ ring[s].loads /\ ring[s].xid # live.xid /\ ring[s].xid <= count
    /\ next # Idle => ring[s].xid < count
    /\ ~Whole(ring[s], s)

\* What a superblock of the container's own is.
Known(s) ==
    \/ s = Last(live) /\ ring[s] = live
    \/ next # Idle /\ s = Last(next) /\ s \notin DOMAIN pending /\ ring[s] = next
    \/ ring[s].loads /\ ring[s].xid < live.xid
    \/ Torn(s)

SupersKnown == \A s \in Slots : ring[s].kind = "super" /\ ring[s].own => Known(s)

\* No mapping block has the transaction being written but that transaction's.
MapsKnown ==
    \A s \in Slots : ring[s].kind = "map" =>
        \/ ring[s].xid = ForeignXid
        \/ ring[s].xid < count
        \/ ring[s].xid = count /\ (next # Idle => s \in MapSlots(next) /\ s \notin DOMAIN pending)

\* The object map and the volume a superblock leads to are as its transaction left them.
Reads(sb) ==
    LET map == blocks[sb.omap]
        volume == blocks[map.volume]
    IN  /\ map.sound /\ map.kind = "omap"
        /\ volume.sound /\ volume.kind = "volume" /\ volume.xid = map.holds

Intact ==
    /\ Sealed(live) /\ live.loads /\ Standing(live) /\ Writing /\ SupersKnown /\ MapsKnown
    /\ Reads(live) /\ (next # Idle => Reads(next))

\* Block zero is written after a checkpoint, so it is never ahead of one; and a checkpoint no
\* driver loads is the last thing written.
Marked ==
    /\ fault = "none" =>
          /\ next # Idle => next.loads
          /\ zero.sound /\ (zero = live \/ zero.xid < live.xid)
          /\ power = "off" => next = Idle /\ zero = live
    /\ fault = "tool" => next # Idle /\ ~next.loads

\* What is left of an unmounted container one thing was lost of, or found twice in.
Spoiled ==
    /\ next = Idle /\ zero.xid = live.xid
    /\ \A s \in Slots : ring[s].kind = "super" /\ ring[s].own => ring[s].loads
    /\ \A s \in Loaded : ring[s].xid <= live.xid
    /\ zero.sound \/ (Last(live) \in Loaded /\ ring[Last(live)].xid = live.xid)

Left ==
    /\ fault \in {"none", "tool", "damage", "doubled"}
    /\ fault \in {"none", "tool"} => Intact /\ Marked
    /\ fault \in {"damage", "doubled"} => power # "on" /\ (power = "off" => Spoiled)

-----------------------------------------------------------------------------

\* The checkpoint the container begins with is whole, and it is all there is of its own.
LEMMA InitLeft == Init => Left
<1> SUFFICES ASSUME Init PROVE Left
  OBVIOUS
<1>1. PICK foreign \in BOOLEAN, v \in Addresses \ {First.omap} :
        /\ ring = [s \in Slots |->
                     IF s \in DOMAIN Checkpoint(First) THEN Checkpoint(First)[s]
                     ELSE IF foreign /\ s \in DOMAIN Checkpoint(Foreign) THEN Checkpoint(Foreign)[s]
                     ELSE Unwritten]
        /\ blocks = [a \in Addresses |->
                       IF a = First.omap THEN ObjectMap(1, v, 1)
                       ELSE IF a = v THEN VolumeBlock(1) ELSE Unwritten]
  BY DEF Init
<1>2. /\ live = First /\ zero = First /\ next = Idle /\ pending = << >> /\ count = 1
      /\ power = "on" /\ fault = "none"
  BY DEF Init
<1>3. First.sound /\ First.loads /\ First.start = 0 /\ First.len = 2 /\ Foreign.len = 2 /\ Foreign.xid = ForeignXid
  BY DEF First, Foreign, Super
<1>4. Sealed(First)
  <2>1. 0 \in Slots /\ 2 \in 1..Ring
    BY RingAssumption, FirstFits DEF Slots
  <2> QED BY <1>3, <2>1, Beginnings DEF Sealed
<1>5. DOMAIN Checkpoint(First) \subseteq Slots
  BY Beginnings, CheckpointBlocks
<1>6. Standing(First)
  BY <1>1, <1>5 DEF Standing
<1>7. ASSUME NEW s \in Slots
      PROVE  \/ s \in DOMAIN Checkpoint(First) /\ ring[s] = Checkpoint(First)[s]
             \/ s \in DOMAIN Checkpoint(Foreign) /\ ring[s] = Checkpoint(Foreign)[s]
             \/ ring[s] = Unwritten
  BY <1>1
<1>8. ASSUME NEW s \in Slots, ring[s].kind = "super", ring[s].own
      PROVE  s = Last(live) /\ ring[s] = live
  <2>1. Unwritten.kind # "super"
    BY DEF Unwritten
  <2>2. \A t \in DOMAIN Checkpoint(Foreign) :
           Checkpoint(Foreign)[t].kind = "super" => ~Checkpoint(Foreign)[t].own
    BY Beginnings, CheckpointBlocks
  <2>3. s \in DOMAIN Checkpoint(First) /\ ring[s] = Checkpoint(First)[s]
    BY <1>7, <1>8, <2>1, <2>2
  <2>4. Map(First.xid).kind # "super"
    BY DEF Map
  <2>5. s = Last(First)
    <3>1. Checkpoint(First)[s].kind = "super"
      BY <1>8, <2>3
    <3>2. DOMAIN Checkpoint(First) = MapSlots(First) \cup {Last(First)}
          /\ \A t \in MapSlots(First) : Checkpoint(First)[t] = Map(First.xid)
      BY <1>4, SlotsOf
    <3>3. ASSUME s \in MapSlots(First) PROVE FALSE
      BY <2>4, <3>1, <3>2, <3>3
    <3> QED BY <2>3, <3>2, <3>3
  <2> QED BY <1>2, <1>4, <2>3, <2>5, SlotsOf
<1>9. SupersKnown
  BY <1>8 DEF SupersKnown, Known
<1>10. ASSUME NEW sb, NEW t \in DOMAIN Checkpoint(sb), Checkpoint(sb)[t].kind = "map", sb.kind = "super"
       PROVE  Checkpoint(sb)[t].xid = sb.xid
  BY <1>10 DEF Checkpoint, Map
<1>11. First.kind = "super" /\ Foreign.kind = "super" /\ Unwritten.kind # "map"
  BY DEF First, Foreign, Super, Unwritten
<1>12. ASSUME NEW s \in Slots, ring[s].kind = "map" PROVE ring[s].xid = ForeignXid \/ ring[s].xid = 1
  BY <1>3, <1>7, <1>10, <1>11, <1>12, Beginnings
<1>13. MapsKnown
  BY <1>2, <1>12 DEF MapsKnown
<1>14. Reads(First)
  <2>1. blocks[First.omap] = ObjectMap(1, v, 1) /\ blocks[v] = VolumeBlock(1)
    BY <1>1, Beginnings
  <2>2. ObjectMap(1, v, 1).volume = v
    BY DEF ObjectMap
  <2> QED BY <2>1, <2>2 DEF Reads, ObjectMap, VolumeBlock
<1>15. Writing
  BY <1>2 DEF Writing
<1>16. Intact
  BY <1>2, <1>3, <1>4, <1>6, <1>9, <1>13, <1>14, <1>15 DEF Intact
<1>17. Marked
  BY <1>2, <1>3 DEF Marked
<1> QED
  BY <1>2, <1>16, <1>17 DEF Left

\* What is not whole does not become it as other transactions write.
LEMMA NotWholeStays ==
    ASSUME NEW sb, NEW s, ~Whole(sb, s), ring \in [Slots -> RingBlocks], MapSlots(sb) \subseteq Slots,
           \A t \in Slots : ring'[t] = ring[t] \/ ~(ring'[t].sound /\ ring'[t].kind = "map" /\ ring'[t].xid = sb.xid)
    PROVE  ~(Whole(sb, s)')
BY DEF Whole, MapSlots

\* Nothing to fear from a transaction that begins: it writes nothing in the ring, and takes none
\* of the blocks the live checkpoint leads to.
LEMMA BeginLeaves == Safe /\ Left /\ Begin => Left'
<1> SUFFICES ASSUME Safe, Left, Begin PROVE Left'
  OBVIOUS
<1>1. /\ ring' = ring /\ zero' = zero /\ live' = live /\ power' = power
      /\ power = "on" /\ next = Idle /\ count' = count + 1 /\ pending' = Checkpoint(next') /\ count < MaxTx
  BY DEF Begin, Running, asked
<1>2. PICK m \in Addresses, v \in Addresses, h \in Nat :
        /\ m # live.omap /\ v # live.omap /\ m # v
        /\ m # blocks[live.omap].volume /\ v # blocks[live.omap].volume
        /\ \/ /\ blocks' = [blocks EXCEPT ![m] = ObjectMap(count + 1, v, count + 1),
                                           ![v] = VolumeBlock(count + 1)]
              /\ next'.omap = m /\ h = count + 1
           \/ blocks' = blocks /\ next'.omap = live.omap /\ h = holds[live.xid]
        /\ next' \in Supers /\ next'.own /\ next'.xid = count + 1
        /\ next'.sound /\ next'.start = (Last(live) + 1) % Ring
        /\ live.len + next'.len <= Ring
        /\ fault' = IF next'.loads THEN fault ELSE "tool"
        /\ holds' = Append(holds, h)
  BY BeginWrites DEF Safe
<1>3. /\ count \in Nat /\ live \in Supers /\ blocks \in [Addresses -> Objects]
      /\ ring \in [Slots -> RingBlocks] /\ live.xid \in 1..count
  BY DEF Safe, TypeOK, Named, Kept
<1>4. fault = "none" /\ Intact /\ Marked
  BY <1>1 DEF Left, Marked
<1>5. next' # Idle
  <2>1. next'.kind = "super"
    BY <1>2 DEF Supers
  <2> QED BY <2>1 DEF Idle
<1>6. Sealed(next')
  <2>1. next'.len \in Nat /\ next'.len >= 1 /\ live.len \in Nat /\ live.len >= 1 /\ Ring \in Nat
    BY <1>2, <1>3, RingAssumption DEF Supers
  <2>2. next'.len \in 1..Ring
    BY <1>2, <2>1
  <2>3. Last(live) \in Nat
    <3>1. Sealed(live)
      BY <1>4 DEF Intact
    <3>2. Last(live) \in Slots
      BY <3>1, SlotsOf
    <3> QED BY <3>2, RingAssumption DEF Slots
  <2>4. (Last(live) + 1) % Ring \in Slots
    <3>1. Last(live) + 1 \in Nat
      BY <2>3
    <3> QED BY <3>1, InRing
  <2> QED BY <1>2, <2>2, <2>4 DEF Sealed
<1>7. \A s \in DOMAIN Checkpoint(next') : s \in DOMAIN pending' /\ pending'[s] = Checkpoint(next')[s]
  BY <1>1
<1>8. Writing'
  <2>1. live'.xid < count' /\ count' <= MaxTx /\ next'.xid = count'
    BY <1>1, <1>2, <1>3, LengthsAssumption
  <2>2. DOMAIN pending' = DOMAIN Checkpoint(next')
    BY <1>1
  <2>3. next'.start = (Last(live') + 1) % Ring /\ live'.len + next'.len <= Ring
    BY <1>1, <1>2
  <2> QED BY <1>5, <1>6, <1>7, <2>1, <2>2, <2>3 DEF Writing
<1>9. SupersKnown'
  <2> SUFFICES ASSUME NEW s \in Slots, ring[s].kind = "super", ring[s].own PROVE Known(s)'
    BY <1>1 DEF SupersKnown
  <2>1. Known(s)
    BY <1>4 DEF Intact, SupersKnown
  <2>2. CASE s = Last(live) /\ ring[s] = live
    BY <1>1, <2>2 DEF Known
  <2>3. CASE ring[s].loads /\ ring[s].xid < live.xid
    BY <1>1, <2>3 DEF Known
  <2>4. CASE Torn(s)
    <3>1. ring[s].xid <= count /\ ring[s].xid \in Nat
      BY <1>3, <2>4 DEF Torn, RingBlocks, Supers
    <3>2. ring[s].xid < count' /\ ring[s].xid <= count'
      BY <1>1, <1>3, <3>1
    <3>3. ~(Whole(ring[s], s)')
      BY <1>1, <2>4 DEF Torn, Whole
    <3> QED BY <1>1, <2>4, <3>2, <3>3 DEF Known, Torn
  <2> QED BY <1>1, <2>1, <2>2, <2>3, <2>4 DEF Known
<1>10. MapsKnown'
  <2> SUFFICES ASSUME NEW s \in Slots, ring[s].kind = "map" PROVE ring[s].xid = ForeignXid \/ ring[s].xid < count'
    BY <1>1 DEF MapsKnown
  <2>1. ring[s].xid \in Nat
    BY <1>3 DEF RingBlocks, Supers
  <2> QED BY <1>1, <1>3, <1>4, <2>1 DEF Intact, MapsKnown
<1>11. blocks'[live.omap] = blocks[live.omap] /\ live.omap \in Addresses
       /\ blocks[live.omap].volume \in Addresses
       /\ blocks'[blocks[live.omap].volume] = blocks[blocks[live.omap].volume]
  <2>1. live.omap \in Addresses
    BY <1>3 DEF Supers
  <2>2. blocks[live.omap].kind = "omap"
    BY <1>4 DEF Intact, Reads
  <2>3. blocks[live.omap].volume \in Addresses
    BY <1>3, <2>1, <2>2 DEF Objects
  <2> QED BY <1>2, <1>3, <2>1, <2>3
<1>12. Reads(live)'
  BY <1>1, <1>4, <1>11 DEF Intact, Reads
<1>13. Reads(next)'
  <2>1. CASE blocks' = blocks /\ next'.omap = live.omap
    BY <1>1, <1>12, <2>1 DEF Reads
  <2>2. CASE /\ blocks' = [blocks EXCEPT ![m] = ObjectMap(count + 1, v, count + 1),
                                         ![v] = VolumeBlock(count + 1)]
             /\ next'.omap = m
    <3>1. blocks'[m] = ObjectMap(count + 1, v, count + 1) /\ blocks'[v] = VolumeBlock(count + 1)
      BY <1>2, <1>3, <2>2
    <3>2. blocks'[m].sound /\ blocks'[m].kind = "omap" /\ blocks'[m].volume = v /\ blocks'[m].holds = count + 1
      BY <3>1 DEF ObjectMap
    <3>3. blocks'[v].sound /\ blocks'[v].kind = "volume" /\ blocks'[v].xid = count + 1
      BY <3>1 DEF VolumeBlock
    <3> QED BY <2>2, <3>2, <3>3 DEF Reads
  <2> QED BY <1>2, <2>1, <2>2
<1>14. Standing(live)'
  BY <1>1, <1>4 DEF Intact, Standing
<1>15. Intact'
  BY <1>1, <1>4, <1>8, <1>9, <1>10, <1>12, <1>13, <1>14 DEF Intact
<1>16. Marked'
  BY <1>1, <1>2, <1>4, <1>5 DEF Marked
<1> QED
  BY <1>2, <1>4, <1>15, <1>16 DEF Left

\* A block of the checkpoint being written reaches the disk: outside the live one, and of a
\* transaction nothing else in the ring has.
LEMMA WriteLeaves == Safe /\ Left /\ Write => Left'
<1> SUFFICES ASSUME Safe, Left, Write PROVE Left'
  OBVIOUS
<1>1. PICK p \in DOMAIN pending :
        /\ ring' = [ring EXCEPT ![p] = pending[p]]
        /\ pending' = [t \in DOMAIN pending \ {p} |-> pending[t]]
  BY DEF Write
<1>2. UNCHANGED <<blocks, zero, live, next, count, power, fault>> /\ power = "on"
  BY DEF Write, Running
<1>3. /\ ring \in [Slots -> RingBlocks] /\ live.xid \in 1..count /\ count \in Nat
      /\ p \in Slots /\ pending[p] \in RingBlocks
  BY <1>1 DEF Safe, TypeOK, Named, Kept
<1>4. Intact /\ Marked
  BY <1>2 DEF Left
<1>5. next # Idle
  BY <1>1, <1>4 DEF Intact, Writing
<1>6. /\ Sealed(live) /\ Sealed(next) /\ next.xid = count /\ live.xid < count
      /\ next.start = (Last(live) + 1) % Ring /\ live.len + next.len <= Ring
  BY <1>4, <1>5 DEF Intact, Writing
<1>7. p \in DOMAIN Checkpoint(next) /\ pending[p] = Checkpoint(next)[p]
  BY <1>1, <1>4, <1>5 DEF Intact, Writing
<1>8. p \notin DOMAIN Checkpoint(live)
  BY <1>6, <1>7, TakesOtherSlots
<1>9. ring'[p] = Checkpoint(next)[p] /\ \A s \in Slots \ {p} : ring'[s] = ring[s]
  BY <1>1, <1>3, <1>7
<1>10. /\ DOMAIN Checkpoint(next) = MapSlots(next) \cup {Last(next)}
       /\ Checkpoint(next)[Last(next)] = next
       /\ \A s \in MapSlots(next) : Checkpoint(next)[s] = Map(next.xid)
       /\ Last(next) \notin MapSlots(next) /\ Last(live) \in DOMAIN Checkpoint(live)
       /\ DOMAIN Checkpoint(live) \subseteq Slots /\ DOMAIN Checkpoint(next) \subseteq Slots
  <2>1. live \in Supers /\ next \in Supers
    BY <1>6 DEF Sealed
  <2>2. DOMAIN Checkpoint(live) \subseteq Slots /\ DOMAIN Checkpoint(next) \subseteq Slots
    BY <2>1, CheckpointBlocks
  <2>3. Last(live) \in DOMAIN Checkpoint(live)
    BY <1>6, SlotsOf
  <2> QED BY <1>6, <2>2, <2>3, SlotsOf
<1>11. Map(next.xid).kind = "map" /\ Map(next.xid).xid = count /\ next.kind = "super" /\ next.xid = count
  BY <1>6 DEF Map, Sealed, Supers
<1>12. DOMAIN pending' = DOMAIN pending \ {p} /\ \A t \in DOMAIN pending' : pending'[t] = pending[t]
  BY <1>1
<1>13. Standing(live)'
  <2>1. \A s \in DOMAIN Checkpoint(live) : ring[s] = Checkpoint(live)[s]
    BY <1>4 DEF Intact, Standing
  <2>2. \A s \in DOMAIN Checkpoint(live) : ring'[s] = Checkpoint(live)[s]
    BY <1>8, <1>9, <1>10, <2>1
  <2> QED BY <1>2, <2>2 DEF Standing
<1>14. Writing'
  <2>1. \A s \in DOMAIN pending' : s \in DOMAIN Checkpoint(next) /\ pending'[s] = Checkpoint(next)[s]
    BY <1>4, <1>5, <1>12 DEF Intact, Writing
  <2>2. \A s \in DOMAIN Checkpoint(next) : s \notin DOMAIN pending' => ring'[s] = Checkpoint(next)[s]
    BY <1>4, <1>5, <1>7, <1>9, <1>10, <1>12 DEF Intact, Writing
  <2>3. count <= MaxTx
    BY <1>4, <1>5 DEF Intact, Writing
  <2> QED BY <1>2, <1>5, <1>6, <2>1, <2>2, <2>3 DEF Writing
<1>15. MapsKnown'
  <2> SUFFICES ASSUME NEW s \in Slots, ring'[s].kind = "map"
               PROVE  \/ ring'[s].xid = ForeignXid
                      \/ ring'[s].xid < count
                      \/ ring'[s].xid = count /\ s \in MapSlots(next) /\ s \notin DOMAIN pending'
    BY <1>2, <1>5 DEF MapsKnown
  <2>1. CASE s = p
    <3>1. s \in MapSlots(next)
      BY <1>7, <1>9, <1>10, <1>11, <2>1
    <3>2. ring'[s].xid = count
      BY <1>9, <1>10, <1>11, <2>1, <3>1
    <3> QED BY <1>12, <2>1, <3>1, <3>2
  <2>2. CASE s # p
    <3>1. ring'[s] = ring[s]
      BY <1>9, <2>2
    <3> QED BY <1>4, <1>5, <1>12, <3>1 DEF Intact, MapsKnown
  <2> QED BY <2>1, <2>2
<1>16. SupersKnown'
  <2> SUFFICES ASSUME NEW s \in Slots, ring'[s].kind = "super", ring'[s].own PROVE Known(s)'
    BY DEF SupersKnown
  <2>1. CASE s = p
    <3>1. s = Last(next) /\ ring'[s] = next
      BY <1>7, <1>9, <1>10, <1>11, <2>1
    <3> QED BY <1>2, <1>5, <1>12, <2>1, <3>1 DEF Known
  <2>2. CASE s # p
    <3>1. ring'[s] = ring[s]
      BY <1>9, <2>2
    <3>2. Known(s)
      BY <1>4, <3>1 DEF Intact, SupersKnown
    <3>3. CASE Torn(s)
      <4>1. PICK b : b = ring[s]
        OBVIOUS
      <4>2. ~Whole(b, s) /\ b.xid < count /\ b \in RingBlocks /\ b.kind = "super"
        BY <1>5, <1>3, <3>1, <3>3, <4>1 DEF Torn
      <4>3. b.xid \in Nat /\ b \in Supers
        BY <4>2 DEF RingBlocks, Supers
      <4>4. b.start \in Nat
        BY <4>3 DEF Supers
      <4>5. MapSlots(b) \subseteq Slots
        <5> SUFFICES ASSUME NEW k \in 0..(b.len - 2) PROVE (b.start + k) % Ring \in Slots
          BY DEF MapSlots
        <5>1. b.start + k \in Nat
          BY <4>3 DEF Supers
        <5> QED BY <5>1, InRing
      <4>6. \A t \in Slots : ring'[t] = ring[t] \/ ~(ring'[t].sound /\ ring'[t].kind = "map" /\ ring'[t].xid = b.xid)
        <5>1. ring'[p].kind = "map" => ring'[p].xid = count
          BY <1>7, <1>9, <1>10, <1>11
        <5> QED BY <1>3, <1>9, <4>2, <4>3, <5>1
      <4>7. ~(Whole(b, s)')
        BY <1>3, <4>2, <4>5, <4>6, NotWholeStays
      <4>8. ~(Whole(ring[s], s)')
        BY <3>1, <4>1, <4>7 DEF Whole, MapSlots
      <4> QED BY <1>2, <3>1, <3>3, <4>8 DEF Torn, Known
    <3> QED BY <1>2, <1>12, <3>1, <3>2, <3>3 DEF Known
  <2> QED BY <2>1, <2>2
<1>17. Intact'
  <2>1. (Reads(live) /\ (next # Idle => Reads(next)))'
    BY <1>2, <1>4 DEF Intact, Reads
  <2>2. (Sealed(live) /\ live.loads)'
    BY <1>2, <1>4 DEF Intact
  <2> QED BY <1>13, <1>14, <1>15, <1>16, <2>1, <2>2 DEF Intact
<1>18. Marked'
  BY <1>2, <1>4 DEF Marked
<1> QED
  BY <1>2, <1>17, <1>18 DEF Left

\* What a checkpoint short of a block is missing is a mapping block nothing else stands in for.
LEMMA HalfWritten ==
    ASSUME Safe, Intact, next # Idle, Last(next) \notin DOMAIN pending, DOMAIN pending # {}
    PROVE  ~Whole(next, Last(next))
<1>1. PICK p \in DOMAIN pending : TRUE
  OBVIOUS
<1>2. Sealed(next) /\ next.xid = count /\ p \in DOMAIN Checkpoint(next) /\ count <= MaxTx
  BY <1>1 DEF Intact, Writing
<1>3. p \in MapSlots(next) /\ MapSlots(next) \subseteq Slots
  BY <1>1, <1>2, SlotsOf
<1>4. ASSUME ring[p].kind = "map", ring[p].xid = next.xid PROVE FALSE
  <2>1. \/ ring[p].xid = ForeignXid
        \/ ring[p].xid < count
        \/ p \notin DOMAIN pending
    BY <1>3, <1>4 DEF Intact, MapsKnown
  <2>2. count \in Nat /\ ForeignXid \in Nat /\ MaxTx \in Nat
    BY LengthsAssumption DEF Safe, TypeOK
  <2> QED BY <1>1, <1>2, <1>4, <2>1, <2>2, ForeignIsLater
<1> QED
  BY <1>3, <1>4 DEF Whole

\* A driver goes on from the checkpoint it was writing once all of it is there, and otherwise
\* from the one before, with what it wrote of the other left torn.
LEMMA AdoptLeaves ==
    ASSUME Safe, Intact, Marked, fault = "none", UNCHANGED <<ring, blocks, zero, count, fault>>,
           live' = Adopted, next' = Idle, DOMAIN pending' = {}, power' = "on"
    PROVE  Intact' /\ Marked'
<1>1. /\ ring \in [Slots -> RingBlocks] /\ live.xid \in 1..count /\ count \in Nat /\ zero \in Supers
  BY DEF Safe, TypeOK, Named, Kept
<1>2. zero.xid \in Nat
  BY <1>1 DEF Supers
<1>3. CASE OnDisk
  <2>1. next # Idle /\ DOMAIN pending = {} /\ next.loads
    BY <1>3 DEF OnDisk, Marked
  <2>2. live' = next
    BY <1>3, <2>1 DEF Adopted
  <2>3. Sealed(next) /\ next.xid = count /\ live.xid < count
    BY <2>1 DEF Intact, Writing
  <2>4. Standing(next)
    BY <2>1 DEF Intact, Writing, Standing
  <2>5. SupersKnown'
    <3> SUFFICES ASSUME NEW s \in Slots, ring[s].kind = "super", ring[s].own PROVE Known(s)'
      BY DEF SupersKnown
    <3>1. Known(s)
      BY DEF Intact, SupersKnown
    <3>2. CASE s = Last(live) /\ ring[s] = live
      BY <2>2, <2>3, <3>2 DEF Known, Intact
    <3>3. CASE s = Last(next) /\ ring[s] = next
      BY <2>2, <3>3 DEF Known
    <3>4. CASE ring[s].loads /\ ring[s].xid < live.xid
      <4>1. ring[s].xid \in Nat
        BY <1>1 DEF RingBlocks, Supers
      <4>2. ring[s].xid < next.xid
        BY <1>1, <2>3, <3>4, <4>1
      <4> QED BY <2>2, <3>4, <4>2 DEF Known
    <3>5. CASE Torn(s)
      BY <2>1, <2>2, <2>3, <3>5 DEF Known, Torn
    <3> QED BY <3>1, <3>2, <3>3, <3>4, <3>5 DEF Known
  <2>6. MapsKnown'
    BY <2>1 DEF Intact, MapsKnown
  <2>7. Reads(next)
    BY <2>1 DEF Intact
  <2>8. Intact'
    BY <2>1, <2>2, <2>3, <2>4, <2>5, <2>6, <2>7 DEF Intact, Writing, Standing, Reads
  <2>9. zero'.xid < live'.xid
    BY <1>1, <1>2, <2>2, <2>3 DEF Marked
  <2> QED BY <2>8, <2>9 DEF Marked
<1>4. CASE ~OnDisk
  <2>1. live' = live /\ (next = Idle \/ (next # Idle /\ DOMAIN pending # {}))
    BY <1>4 DEF Adopted, OnDisk
  <2>2. SupersKnown'
    <3> SUFFICES ASSUME NEW s \in Slots, ring[s].kind = "super", ring[s].own PROVE Known(s)'
      BY DEF SupersKnown
    <3>1. Known(s)
      BY DEF Intact, SupersKnown
    <3>2. CASE s = Last(live) /\ ring[s] = live
      BY <2>1, <3>2 DEF Known
    <3>3. CASE next # Idle /\ s = Last(next) /\ s \notin DOMAIN pending /\ ring[s] = next
      <4>1. ~Whole(next, s)
        BY <2>1, <3>3, HalfWritten
      <4>2. ~(Whole(ring[s], s)')
        BY <3>3, <4>1 DEF Whole
      <4>3. next.xid = count /\ live.xid < count /\ next.loads
        BY <3>3 DEF Intact, Writing, Marked
      <4> QED BY <1>1, <2>1, <3>3, <4>2, <4>3 DEF Known, Torn
    <3>4. CASE ring[s].loads /\ ring[s].xid < live.xid
      BY <2>1, <3>4 DEF Known
    <3>5. CASE Torn(s)
      <4>1. ~(Whole(ring[s], s)')
        BY <3>5 DEF Torn, Whole
      <4> QED BY <2>1, <3>5, <4>1 DEF Known, Torn
    <3> QED BY <3>1, <3>2, <3>3, <3>4, <3>5 DEF Known
  <2>3. MapsKnown'
    BY DEF Intact, MapsKnown
  <2>4. Intact'
    BY <2>1, <2>2, <2>3 DEF Intact, Writing, Standing, Reads
  <2> QED BY <2>1, <2>4 DEF Marked
<1> QED
  BY <1>3, <1>4

\* Finishing, unmounting, losing power and mounting again.
LEMMA DriverLeaves == Safe /\ Left /\ (Finish \/ Unmount \/ LosePower \/ Mount) => Left'
<1>1. ASSUME Safe, Left, Finish PROVE Left'
  <2>1. /\ UNCHANGED <<ring, blocks, zero, count, fault, pending>> /\ live' = Adopted /\ next' = Idle
        /\ power = "on" /\ power' = "on" /\ OnDisk /\ next.loads
    BY <1>1 DEF Finish, Running, image
  <2>2. Intact /\ Marked /\ fault = "none" /\ DOMAIN pending' = {}
    BY <1>1, <2>1 DEF Left, Marked, OnDisk
  <2>3. Intact' /\ Marked'
    BY <1>1, <2>1, <2>2, AdoptLeaves
  <2> QED BY <2>1, <2>2, <2>3 DEF Left
<1>2. ASSUME Safe, Left, Mount PROVE Left'
  <2>1. /\ UNCHANGED <<ring, blocks, zero, count, fault>> /\ live' = Adopted /\ next' = Idle
        /\ power' = "on" /\ fault = "none" /\ DOMAIN pending' = {}
    BY <1>2 DEF Mount, image
  <2>2. Intact /\ Marked
    BY <1>2, <2>1 DEF Left
  <2>3. Intact' /\ Marked'
    BY <1>2, <2>1, <2>2, AdoptLeaves
  <2> QED BY <2>1, <2>3 DEF Left
<1>3. ASSUME Safe, Left, LosePower PROVE Left'
  <2>1. UNCHANGED <<ring, blocks, zero, live, pending, next, count, fault>> /\ power = "on" /\ power' = "lost"
    BY <1>3 DEF LosePower, Running, image
  <2>2. Intact /\ Marked
    BY <1>3, <2>1 DEF Left
  <2>3. Intact'
    BY <2>1, <2>2 DEF Intact, Sealed, Standing, Writing, SupersKnown, Known, Torn, Whole, MapsKnown, Reads
  <2> QED BY <1>3, <2>1, <2>2, <2>3 DEF Left, Marked
<1>4. ASSUME Safe, Left, Unmount PROVE Left'
  <2>1. /\ UNCHANGED <<ring, blocks, live, pending, next, count, fault>> /\ power = "on" /\ power' = "off"
        /\ zero' = IF OnDisk THEN next ELSE live
    BY <1>4 DEF Unmount, Running
  <2>5. next = Idle \/ (OnDisk /\ ~next.loads)
    BY <1>4, Zenon DEF Unmount
  <2>2. Intact /\ Marked
    BY <1>4, <2>1 DEF Left
  <2>3. Intact'
    BY <2>1, <2>2 DEF Intact, Sealed, Standing, Writing, SupersKnown, Known, Torn, Whole, MapsKnown, Reads
  <2>4. fault = "none" => next = Idle /\ zero' = live /\ live.sound
    BY <2>1, <2>2, <2>5 DEF Marked, OnDisk, Intact, Sealed
  <2> QED BY <1>4, <2>1, <2>2, <2>3, <2>4 DEF Left, Marked
<1> QED
  BY <1>1, <1>2, <1>3, <1>4

-----------------------------------------------------------------------------
\* What opening finds.

\* Of what a driver left, the checkpoint it would go on from is the newest that is whole and
\* loads, and no other has its transaction.
LEMMA AdoptedIsFound ==
    ASSUME Safe, Intact, fault = "none" => (next # Idle => next.loads)
    PROVE  /\ Sealed(Adopted) /\ Adopted.loads /\ Reads(Adopted) /\ Last(Adopted) \in Loaded
           /\ ring[Last(Adopted)] = Adopted /\ live.xid <= Adopted.xid
           /\ \A s \in Loaded : s # Last(Adopted) => ring[s].xid < Adopted.xid
<1>1. ring \in [Slots -> RingBlocks] /\ live.xid \in 1..count /\ count \in Nat
  BY DEF Safe, TypeOK, Named, Kept
<1>2. CASE Adopted = live /\ ~(OnDisk /\ next.loads)
  <2>1. Sealed(live) /\ live.loads /\ Reads(live) /\ Standing(live)
    BY DEF Intact
  <2>2. /\ Last(live) \in Slots /\ MapSlots(live) \subseteq Slots
        /\ DOMAIN Checkpoint(live) = MapSlots(live) \cup {Last(live)}
        /\ Checkpoint(live)[Last(live)] = live
        /\ \A s \in MapSlots(live) : Checkpoint(live)[s] = Map(live.xid)
    BY <2>1, SlotsOf
  <2>3. ring[Last(live)] = live /\ \A s \in MapSlots(live) : ring[s] = Map(live.xid)
    BY <2>1, <2>2 DEF Standing
  <2>4. Last(live) \in Loaded
    BY <2>1, <2>2, <2>3 DEF Loaded, Candidates, Whole, Sealed, Supers, Map, Last
  <2>5. ASSUME NEW s \in Loaded, s # Last(live) PROVE ring[s].xid < live.xid
    <3>1. s \in Slots /\ ring[s].kind = "super" /\ ring[s].own /\ Whole(ring[s], s) /\ ring[s].loads
      BY <2>5 DEF Loaded, Candidates, Whole
    <3>2. Known(s)
      BY <3>1 DEF Intact, SupersKnown
    <3>3. ASSUME next # Idle, s = Last(next), s \notin DOMAIN pending, ring[s] = next PROVE FALSE
      <4>1. next.loads /\ Whole(next, Last(next)) /\ Last(next) \notin DOMAIN pending
        BY <3>1, <3>3
      <4>2. DOMAIN pending # {}
        BY <1>2, <3>3, <4>1 DEF OnDisk
      <4> QED BY <3>3, <4>1, <4>2, HalfWritten
    <3>4. ~Torn(s) /\ ~(s = Last(live) /\ ring[s] = live)
      BY <2>5, <3>1 DEF Torn
    <3> QED BY <3>2, <3>3, <3>4 DEF Known
  <2> QED BY <1>1, <1>2, <2>1, <2>3, <2>4, <2>5
<1>3. CASE Adopted = next /\ OnDisk /\ next.loads
  <2>0. next # Idle /\ DOMAIN pending = {}
    BY <1>3 DEF OnDisk
  <2>1. Sealed(next) /\ next.loads /\ Reads(next) /\ Standing(next) /\ next.xid = count /\ live.xid < count
    BY <1>3, <2>0 DEF Intact, Writing, Standing
  <2>2. /\ Last(next) \in Slots /\ MapSlots(next) \subseteq Slots
        /\ DOMAIN Checkpoint(next) = MapSlots(next) \cup {Last(next)}
        /\ Checkpoint(next)[Last(next)] = next
        /\ \A s \in MapSlots(next) : Checkpoint(next)[s] = Map(next.xid)
    BY <2>1, SlotsOf
  <2>3. ring[Last(next)] = next /\ \A s \in MapSlots(next) : ring[s] = Map(next.xid)
    BY <2>1, <2>2 DEF Standing
  <2>4. Last(next) \in Loaded
    BY <2>1, <2>2, <2>3 DEF Loaded, Candidates, Whole, Sealed, Supers, Map, Last
  <2>5. ASSUME NEW s \in Loaded, s # Last(next) PROVE ring[s].xid < next.xid
    <3>1. s \in Slots /\ ring[s].kind = "super" /\ ring[s].own /\ Whole(ring[s], s) /\ ring[s].loads
      BY <2>5 DEF Loaded, Candidates, Whole
    <3>2. Known(s)
      BY <3>1 DEF Intact, SupersKnown
    <3>3. ring[s].xid \in Nat
      BY <1>1, <3>1 DEF RingBlocks, Supers
    <3> QED BY <1>1, <2>1, <2>5, <3>1, <3>2, <3>3 DEF Known, Torn
  <2> QED BY <1>1, <1>3, <2>1, <2>3, <2>4, <2>5
<1> QED
  BY <1>2, <1>3 DEF Adopted

\* So it is what opening takes.
LEMMA AdoptedIsLive ==
    ASSUME Safe, Intact, fault = "none" => (next # Idle => next.loads), NEW s \in Slots
    PROVE  IsLive(s) <=> s = Last(Adopted)
<1>1. /\ Sealed(Adopted) /\ Last(Adopted) \in Loaded /\ ring[Last(Adopted)] = Adopted
      /\ \A t \in Loaded : t # Last(Adopted) => ring[t].xid < Adopted.xid
  BY AdoptedIsFound
<1>2. Adopted.xid \in Nat /\ \A t \in Loaded : ring[t].xid \in Nat
  BY <1>1 DEF Sealed, Safe, TypeOK, RingBlocks, Supers, Loaded, Candidates
<1>3. IsLive(Last(Adopted))
  BY <1>1, <1>2 DEF IsLive, Sooner
<1>4. ASSUME IsLive(s), s # Last(Adopted) PROVE FALSE
  <2>1. s \in Loaded /\ Sooner(s, Last(Adopted))
    BY <1>1, <1>4 DEF IsLive
  <2> QED BY <1>1, <1>2, <1>4, <2>1 DEF Sooner
<1> QED
  BY <1>3, <1>4

-----------------------------------------------------------------------------
\* What an unmounted container is like after a loss.

\* All of the container's own superblocks load while nothing but a driver has written it.
LEMMA OwnLoad ==
    ASSUME Intact, next = Idle, NEW s \in Slots, ring[s].kind = "super", ring[s].own
    PROVE  ring[s].loads
BY DEF Intact, SupersKnown, Known, Torn

\* One block going bad leaves no checkpoint loading that did not.
LEMMA DamageLeaves == Safe /\ Left /\ Damage => Left'
<1> SUFFICES ASSUME Safe, Left, Damage PROVE Left'
  OBVIOUS
<1>1. /\ UNCHANGED <<live, next, pending, count, power>> /\ power # "on" /\ fault = "none" /\ fault' = "damage"
  BY DEF Damage, Resting, driver
<1>2. ring \in [Slots -> RingBlocks] /\ zero \in Supers
  BY DEF Safe, TypeOK
<1>3. Intact /\ Marked
  BY <1>1 DEF Left
<1> SUFFICES ASSUME power = "off" PROVE Spoiled'
  BY <1>1 DEF Left
<1>4. next = Idle /\ zero = live /\ zero.sound
  BY <1>1, <1>3 DEF Marked
<1>5. Adopted = live
  BY <1>4 DEF Adopted, OnDisk
<1>6. /\ Last(live) \in Loaded /\ ring[Last(live)] = live
      /\ \A s \in Loaded : s # Last(live) => ring[s].xid < live.xid
  BY <1>1, <1>3, <1>4, <1>5, AdoptedIsFound
<1>7. live.xid \in Nat
  BY <1>2, <1>4 DEF Supers
<1>8. ASSUME NEW s \in Slots
      PROVE  \/ ring'[s] = ring[s]
             \/ /\ ring'[s] = [ring[s] EXCEPT !.sound = FALSE] /\ ~ring'[s].sound
                /\ ring'[s].kind = ring[s].kind
                /\ ring[s].kind = "super" => ring'[s].own = ring[s].own /\ ring'[s].loads = ring[s].loads
  <2>1. ring' = ring \/ \E t \in Slots : ring' = [ring EXCEPT ![t].sound = FALSE]
    BY DEF Damage
  <2>2. ring'[s] = ring[s] \/ ring'[s] = [ring[s] EXCEPT !.sound = FALSE]
    BY <1>2, <2>1
  <2>3. ring[s] \in RingBlocks
    BY <1>2
  <2> QED BY <2>2, <2>3 DEF RingBlocks, Supers
<1>9. \A s \in Slots : ring'[s].kind = "super" /\ ring'[s].own => ring'[s].loads
  <2> SUFFICES ASSUME NEW s \in Slots, ring'[s].kind = "super", ring'[s].own PROVE ring'[s].loads
    OBVIOUS
  <2>1. ring[s].kind = "super" /\ ring[s].own /\ ring'[s].loads = ring[s].loads
    BY <1>8
  <2> QED BY <1>3, <1>4, <2>1, OwnLoad
<1>10. ASSUME NEW s \in Loaded' PROVE s \in Loaded /\ ring'[s] = ring[s]
  <2>1. s \in Slots /\ ring'[s].sound /\ ring'[s].kind = "super" /\ Whole(ring[s], s)' /\ ring'[s].loads
    BY DEF Loaded, Candidates
  <2>2. ring'[s] = ring[s]
    BY <1>8, <2>1
  <2>3. ring[s] \in Supers
    BY <1>2, <2>1, <2>2 DEF RingBlocks
  <2>4. MapSlots(ring[s]) \subseteq Slots
    <3> SUFFICES ASSUME NEW k \in 0..(ring[s].len - 2) PROVE (ring[s].start + k) % Ring \in Slots
      BY DEF MapSlots
    <3>1. ring[s].start + k \in Nat
      BY <2>3 DEF Supers
    <3> QED BY <3>1, InRing
  <2>5. /\ ring[s].own /\ ring[s].len \in 1..Ring /\ ring[s].start \in Slots
        /\ (ring[s].start + ring[s].len - 1) % Ring = s
        /\ \A t \in MapSlots(ring[s]) : ring'[t].sound /\ ring'[t].kind = "map" /\ ring'[t].xid = ring[s].xid
    BY <2>1, <2>2 DEF Whole, MapSlots
  <2>6. \A t \in MapSlots(ring[s]) : ring[t].sound /\ ring[t].kind = "map" /\ ring[t].xid = ring[s].xid
    BY <1>8, <2>4, <2>5
  <2>7. Whole(ring[s], s)
    BY <2>5, <2>6 DEF Whole
  <2> QED BY <2>1, <2>2, <2>7 DEF Loaded, Candidates
<1>11. \A s \in Loaded' : ring'[s].xid <= live.xid
  <2> SUFFICES ASSUME NEW s \in Loaded' PROVE ring'[s].xid <= live.xid
    OBVIOUS
  <2>1. s \in Loaded /\ ring'[s] = ring[s] /\ ring[s].xid \in Nat
    BY <1>2, <1>10 DEF Loaded, Candidates, RingBlocks, Supers
  <2> QED BY <1>6, <1>7, <2>1
<1>12. zero'.xid = live.xid
  BY <1>2, <1>4 DEF Damage, Supers
<1>13. zero'.sound \/ (Last(live) \in Loaded' /\ ring'[Last(live)].xid = live.xid)
  <2>1. CASE UNCHANGED zero
    BY <1>4, <2>1
  <2>2. CASE UNCHANGED ring
    BY <1>6, <2>2 DEF Loaded, Candidates, Whole
  <2> QED BY <2>1, <2>2 DEF Damage
<1> QED
  BY <1>1, <1>4, <1>9, <1>11, <1>12, <1>13 DEF Spoiled

\* A second copy of the live checkpoint is of its transaction, and what was not whole is not.
LEMMA DoubleLeaves == Safe /\ Left /\ Double => Left'
<1> SUFFICES ASSUME Safe, Left, Double PROVE Left'
  OBVIOUS
<1> DEFINE copy == [live EXCEPT !.start = (Last(live) + 1) % Ring]
<1>1. /\ UNCHANGED <<blocks, zero, live, next, pending, count, power>> /\ power # "on"
      /\ fault = "none" /\ fault' = "doubled" /\ ring' = Laid(Checkpoint(copy))
  BY DEF Double, Resting, driver
<1>2. ring \in [Slots -> RingBlocks] /\ live \in Supers
  BY DEF Safe, TypeOK
<1>3. Intact /\ Marked
  BY <1>1 DEF Left
<1> SUFFICES ASSUME power = "off" PROVE Spoiled'
  BY <1>1 DEF Left
<1>4. next = Idle /\ zero = live /\ zero.sound /\ live.loads /\ live.xid \in Nat
  BY <1>1, <1>2, <1>3 DEF Marked, Intact, Supers
<1>5. copy \in Supers /\ copy.xid = live.xid /\ copy.loads = live.loads
  <2>1. (Last(live) + 1) % Ring \in Nat
    <3>1. live.start + live.len - 1 \in Nat
      BY <1>2 DEF Supers
    <3>2. Last(live) + 1 \in Nat
      BY <3>1, InRing DEF Last, Slots
    <3> QED BY <3>2, InRing DEF Slots
  <2> QED BY <1>2, <2>1 DEF Supers
<1> HIDE DEF copy
<1>6. ASSUME NEW s \in Slots
      PROVE  \/ ring'[s] = ring[s]
             \/ ring'[s] = copy
             \/ ring'[s].kind = "map" /\ ring'[s].xid = live.xid
  BY <1>1, <1>5 DEF Laid, Checkpoint, Map
<1>7. ASSUME NEW s \in Slots, ring'[s].kind = "super", ring'[s].own PROVE ring'[s].loads
  <2>1. CASE ring'[s] = ring[s]
    BY <1>3, <1>4, <1>7, <2>1, OwnLoad
  <2>2. CASE ring'[s] = copy
    BY <1>4, <1>5, <2>2
  <2> QED BY <1>6, <1>7, <2>1, <2>2
<1>8. ASSUME NEW s \in Loaded' PROVE ring'[s].xid <= live.xid
  <2>1. s \in Slots /\ ring'[s].kind = "super" /\ ring'[s].own /\ Whole(ring[s], s)'
    BY DEF Loaded, Candidates, Whole
  <2>2. CASE ring'[s] = copy
    BY <1>4, <1>5, <2>2
  <2>3. CASE ring'[s] = ring[s]
    <3>1. Known(s)
      BY <1>3, <2>1, <2>3 DEF Intact, SupersKnown
    <3>2. PICK b : b = ring[s]
      OBVIOUS
    <3>3. b \in Supers /\ b.xid \in Nat
      BY <1>2, <2>1, <2>3, <3>2 DEF RingBlocks, Supers
    <3>4. MapSlots(b) \subseteq Slots
      <4> SUFFICES ASSUME NEW k \in 0..(b.len - 2) PROVE (b.start + k) % Ring \in Slots
        BY DEF MapSlots
      <4>1. b.start + k \in Nat
        BY <3>3 DEF Supers
      <4> QED BY <4>1, InRing
    <3>5. ASSUME Torn(s) PROVE FALSE
      <4>1. ~Whole(b, s) /\ b.xid # live.xid
        BY <3>2, <3>5 DEF Torn
      <4>2. copy.kind = "super"
        BY <1>5 DEF Supers
      <4>3. \A t \in Slots : ring'[t] = ring[t] \/ ~(ring'[t].sound /\ ring'[t].kind = "map" /\ ring'[t].xid = b.xid)
        BY <1>6, <4>1, <4>2
      <4>4. ~(Whole(b, s)')
        BY <1>2, <3>4, <4>1, <4>3, NotWholeStays
      <4>5. ~(Whole(ring[s], s)')
        BY <2>3, <3>2, <4>4 DEF Whole, MapSlots
      <4> QED BY <2>1, <4>5
    <3>6. ring[s].xid <= live.xid
      BY <1>4, <3>1, <3>2, <3>3, <3>5 DEF Known
    <3> QED BY <2>3, <3>6
  <2> QED BY <1>6, <2>1, <2>2, <2>3
<1> QED
  BY <1>1, <1>4, <1>7, <1>8 DEF Spoiled

\* Every step keeps it.
LEMMA NextLeaves == Safe /\ Left /\ [Next]_vars => Left'
<1>1. ASSUME Left, UNCHANGED <<image, driver, fault>> PROVE Left'
  BY <1>1 DEF image, driver, Left, Intact, Marked, Spoiled, Sealed, Standing, Writing, SupersKnown, Known, Torn,
              Whole, Loaded, Candidates, MapsKnown, Reads
<1>2. (Open \/ Settled \/ UNCHANGED vars) => UNCHANGED <<image, driver, fault>>
  BY DEF Open, Settled, vars
<1> QED
  BY <1>1, <1>2, BeginLeaves, WriteLeaves, DriverLeaves, DamageLeaves, DoubleLeaves DEF Next

-----------------------------------------------------------------------------
\* What opening answers.

\* Opening takes the live checkpoint, unless it is refused before one is chosen.
LEMMA OpenChooses ==
    ASSUME Open
    PROVE  /\ UNCHANGED <<ring, blocks, zero, live, pending, next, count, power, holds, fault>>
           /\ power # "on" /\ policy' \in {"strict", "lenient"}
           /\ \/ answer' = Refused("bad checksum") /\ policy' = "strict" /\ ~zero.sound
              \/ answer' = Refused("no checkpoint") /\ Loaded = {}
              \/ /\ policy' = "strict" => zero.sound
                 /\ \E s \in Slots : IsLive(s) /\ answer' = OpenedAt(s, policy' = "strict")
BY DEF Open, Resting, image, driver

\* After a crash: the checkpoint the driver would go on from, with its volume.
LEMMA OpenAfterCrash == Safe /\ Left /\ Open => CrashOpensACommit'
<1> SUFFICES ASSUME Safe, Left, Open, fault = "none" PROVE CrashOpensACommit'
  BY OpenChooses DEF CrashOpensACommit
<1>1. /\ Intact /\ Marked /\ (next # Idle => next.loads) /\ zero.sound
      /\ (zero = live \/ zero.xid < live.xid)
  BY DEF Left, Marked
<1>2. /\ UNCHANGED <<ring, blocks, zero, live, pending, next, holds>> /\ policy' \in {"strict", "lenient"}
  BY OpenChooses
<1>3. /\ Sealed(Adopted) /\ Reads(Adopted) /\ Last(Adopted) \in Loaded
      /\ ring[Last(Adopted)] = Adopted /\ live.xid <= Adopted.xid
  BY <1>1, AdoptedIsFound
<1> DEFINE s == Last(Adopted)
<1>4. IsLive(s) /\ answer' = OpenedAt(s, policy' = "strict")
  <2>1. \E t \in Slots : IsLive(t) /\ answer' = OpenedAt(t, policy' = "strict")
    BY <1>1, <1>3, OpenChooses
  <2> QED BY <1>1, <2>1, AdoptedIsLive
<1> HIDE DEF s
<1>5. ring[s] = Adopted
  BY <1>3 DEF s
<1>6. /\ Adopted.xid \in 1..count /\ Adopted.xid \in Nat
      /\ LET map == blocks[Adopted.omap]
         IN  map.kind = "omap" /\ map.xid <= Adopted.xid /\ map.holds = holds[Adopted.xid]
  <2>1. /\ Kept(Adopted, blocks, holds, count) /\ blocks[Adopted.omap].xid <= Adopted.xid
    BY DEF Adopted, OnDisk, Safe, Named
  <2>2. blocks[Adopted.omap].kind = "omap"
    BY <1>3 DEF Reads
  <2>3. count \in Nat
    BY DEF Safe, TypeOK
  <2> QED BY <2>1, <2>2, <2>3 DEF Kept
<1>7. zero = ring[s] \/ zero.xid < ring[s].xid
  <2>1. live.xid \in Nat /\ zero.xid \in Nat
    BY DEF Safe, TypeOK, Supers
  <2>2. Adopted = live \/ live.xid < Adopted.xid
    BY <1>1 DEF Adopted, OnDisk, Intact, Writing
  <2> QED BY <1>1, <1>5, <1>6, <2>1, <2>2
<1>8. Stands(s) \in {"current", "older"}
  BY <1>1, <1>5, <1>6, <1>7 DEF Stands
<1>9. ~Disagrees(Stands(s))
  BY <1>8 DEF Disagrees
<1>10. ReadsMap(ring[s].omap, ring[s].xid)
  BY <1>3, <1>5, <1>6 DEF Reads, ReadsMap
<1>11. answer' = Opened(s)
  BY <1>4, <1>9, <1>10 DEF OpenedAt
<1>12. answer'.outcome = "open" /\ answer'.xid = Adopted.xid /\ answer'.volume = Volume(blocks[Adopted.omap])
  BY <1>5, <1>11 DEF Opened
<1>13. answer'.volume = holds[Adopted.xid]
  BY <1>3, <1>6, <1>12 DEF Volume, ReadsVolume, Reads
<1>14. Adopted' = Adopted
  BY <1>2 DEF Adopted, OnDisk
<1> QED
  BY <1>2, <1>12, <1>13, <1>14 DEF CrashOpensACommit, IsOpen

\* After a crash, what was passed over on the way is what the crash left of a checkpoint.
LEMMA CrashGraded == Safe /\ Left /\ Open => CrashIsNotDamage'
<1> SUFFICES ASSUME Safe, Left, Open, fault = "none", IsOpen', \A s \in Candidates : ring[s].own
             PROVE  "integrity" \notin answer'.findings
  BY OpenChooses DEF CrashIsNotDamage, Candidates
<1>1. /\ Intact /\ Marked /\ (next # Idle => next.loads) /\ zero.sound
      /\ (zero = live \/ zero.xid < live.xid)
  BY DEF Left, Marked
<1>2. /\ Sealed(Adopted) /\ Last(Adopted) \in Loaded
      /\ ring[Last(Adopted)] = Adopted /\ live.xid <= Adopted.xid
      /\ \A t \in Loaded : t # Last(Adopted) => ring[t].xid < Adopted.xid
  BY <1>1, AdoptedIsFound
<1> DEFINE s == Last(Adopted)
<1>3. IsLive(s) /\ answer' = OpenedAt(s, policy' = "strict")
  <2>1. \E t \in Slots : IsLive(t) /\ answer' = OpenedAt(t, policy' = "strict")
    BY <1>1, <1>2, OpenChooses
  <2> QED BY <1>1, <2>1, AdoptedIsLive
<1> HIDE DEF s
<1>4. ring[s] = Adopted /\ s \in Slots
  BY <1>2 DEF s, Loaded, Candidates
<1>5. answer' = Opened(s)
  BY <1>3 DEF OpenedAt, Refused, IsOpen
<1>6. live.xid \in Nat /\ zero.xid \in Nat /\ Adopted.xid \in Nat
  BY <1>2 DEF Safe, TypeOK, Supers, Sealed
<1>7. Adopted = live \/ (Adopted = next /\ next # Idle /\ live.xid < Adopted.xid /\ Adopted.xid = count)
  BY <1>1 DEF Adopted, OnDisk, Intact, Writing
<1>8. Stands(s) \in {"current", "older"}
  <2>1. zero = ring[s] \/ zero.xid < ring[s].xid
    BY <1>1, <1>4, <1>6, <1>7
  <2> QED BY <1>1, <1>4, <1>6, <2>1 DEF Stands
<1>9. ASSUME NEW t \in PassedOver(s) PROVE Reason(t) = "not whole" /\ ring[t].xid > Adopted.xid
  <2>1. t \in Slots /\ ring[t].kind = "super" /\ ring[t].own /\ t # s /\ ring[t].sound
    BY DEF PassedOver, Candidates
  <2>2. ring[t].xid \in Nat
    BY <2>1 DEF Safe, TypeOK, RingBlocks, Supers
  <2>3. t \notin Loaded
    <3> SUFFICES ASSUME t \in Loaded PROVE FALSE
      OBVIOUS
    <3>1. ring[t].xid < Adopted.xid
      BY <1>2, <2>1 DEF s
    <3> QED BY <1>4, <1>6, <2>2, <3>1 DEF PassedOver, Sooner
  <2>4. ring[t].xid >= Adopted.xid
    BY <1>4, <1>6, <2>2, <2>3 DEF PassedOver, Sooner
  <2>5. Known(t)
    BY <1>1, <2>1 DEF Intact, SupersKnown
  <2>6. ~Whole(ring[t], t) /\ ring[t].loads /\ ring[t].xid # Adopted.xid
    <3>1. CASE t = Last(live) /\ ring[t] = live
      <4>1. Adopted # live
        BY <2>1, <3>1 DEF s
      <4> QED BY <1>6, <1>7, <2>4, <3>1, <4>1
    <3>2. CASE next # Idle /\ t = Last(next) /\ t \notin DOMAIN pending /\ ring[t] = next
      <4>1. Adopted = live
        BY <1>7, <2>1, <3>2 DEF s
      <4>2. next.loads /\ next.xid = count /\ live.xid < count
        BY <1>1, <3>2 DEF Intact, Writing
      <4>3. ~Whole(ring[t], t)
        BY <2>1, <2>3, <3>2, <4>2 DEF Loaded, Candidates
      <4> QED BY <1>6, <3>2, <4>1, <4>2, <4>3
    <3>3. CASE ring[t].loads /\ ring[t].xid < live.xid
      BY <1>2, <1>6, <2>2, <2>4, <3>3
    <3>4. CASE Torn(t)
      <4>1. next # Idle => ring[t].xid < count
        BY <3>4 DEF Torn
      <4>2. Adopted = live
        BY <1>6, <1>7, <2>2, <2>4, <4>1
      <4> QED BY <3>4, <4>2 DEF Torn
    <3> QED BY <2>5, <3>1, <3>2, <3>3, <3>4 DEF Known
  <2>7. Reason(t) = "not whole"
    BY <2>1, <2>3, <2>6 DEF Reason
  <2>8. ring[t].xid # Adopted.xid
    BY <2>6
  <2>9. ring[t].xid > Adopted.xid
    BY <1>6, <2>2, <2>4, <2>8
  <2> QED BY <2>7, <2>9
<1>10. ASSUME NEW t \in PassedOver(s) PROVE Grade(s, t) = "cosmetic"
  BY <1>4, <1>8, <1>9 DEF Grade
<1>11. "integrity" \notin Findings(s)
  BY <1>8, <1>10 DEF Findings
<1> QED
  BY <1>5, <1>11 DEF Opened

\* After a loss: only a lenient opening takes less than was there, and it says so.
LEMMA LossReported == Safe /\ Left /\ Open => LossIsNotACrash'
<1> SUFFICES ASSUME Safe, Left, Open, IsOpen', power = "off", answer'.xid # Adopted.xid
             PROVE  policy' = "lenient" /\ "integrity" \in answer'.findings
  BY OpenChooses DEF LossIsNotACrash, Adopted, OnDisk
<1>1. fault \in {"damage", "doubled"} /\ Spoiled
  <2>1. ASSUME fault \in {"none", "tool"} PROVE FALSE
    <3>1. Intact /\ (fault = "none" => (next # Idle => next.loads))
      BY <2>1 DEF Left, Marked
    <3>2. ring[Last(Adopted)] = Adopted
      BY <3>1, AdoptedIsFound
    <3>3. PICK s \in Slots : IsLive(s) /\ answer' = OpenedAt(s, policy' = "strict")
      <4>0. answer'.outcome = "open"
        BY DEF IsOpen
      <4>1. answer' # Refused("bad checksum") /\ answer' # Refused("no checkpoint")
        BY <4>0, RefusedIsNotOpen
      <4> QED BY <4>1, OpenChooses
    <3>4. ring[s] = Adopted
      BY <3>1, <3>2, <3>3, AdoptedIsLive
    <3>5. answer' = Opened(s)
      BY <3>3 DEF OpenedAt, Refused, IsOpen
    <3> QED BY <3>4, <3>5 DEF Opened
  <2> QED BY <2>1 DEF Left
<1>2. Adopted = live
  BY <1>1 DEF Spoiled, Adopted, OnDisk
<1>3. PICK s \in Slots : /\ IsLive(s) /\ answer' = OpenedAt(s, policy' = "strict")
                         /\ policy' = "strict" => zero.sound
  <2>0. answer'.outcome = "open"
    BY DEF IsOpen
  <2>1. answer' # Refused("bad checksum") /\ answer' # Refused("no checkpoint")
    BY <2>0, RefusedIsNotOpen
  <2> QED BY <2>1, OpenChooses
<1>4. answer' = Opened(s) /\ ~(policy' = "strict" /\ Disagrees(Stands(s)))
  BY <1>3 DEF OpenedAt, Refused, IsOpen
<1>5. ring[s].xid # live.xid
  BY <1>2, <1>4 DEF Opened
<1>6. s \in Loaded /\ \A t \in Loaded \ {s} : Sooner(s, t)
  BY <1>3 DEF IsLive
<1>7. ring[s].xid \in Nat /\ live.xid \in Nat /\ ring[s].xid <= live.xid
  BY <1>1, <1>6 DEF Safe, TypeOK, RingBlocks, Supers, Loaded, Candidates, Spoiled
<1>8. zero.sound /\ zero.xid = live.xid /\ zero.xid > ring[s].xid
  <2>1. ASSUME Last(live) \in Loaded, ring[Last(live)].xid = live.xid PROVE FALSE
    BY <1>5, <1>6, <1>7, <2>1 DEF Sooner
  <2> QED BY <1>1, <1>5, <1>7, <2>1 DEF Spoiled
<1>9. ASSUME NEW t \in PassedOver(s) PROVE Reason(t) # "queue limits"
  <2>1. t \in Slots /\ ring[t].kind = "super" /\ t \in Candidates
    BY DEF PassedOver, Candidates
  <2> SUFFICES ASSUME t \notin Loaded, ring[t].own, Whole(ring[t], t) PROVE FALSE
    BY DEF Reason
  <2>2. ring[t].loads
    BY <1>1, <2>1 DEF Spoiled
  <2> QED BY <2>1, <2>2 DEF Loaded
<1>10. Stands(s) = "newer"
  <2>1. ~(zero.xid < ring[s].xid) /\ zero.xid > ring[s].xid
    BY <1>7, <1>8
  <2>2. ~(\E t \in PassedOver(s) : ring[t].xid = zero.xid /\ Reason(t) = "queue limits")
    BY <1>9
  <2> QED BY <1>8, <2>1, <2>2, Zenon DEF Stands
<1>11. Disagrees(Stands(s)) /\ "integrity" \in Findings(s)
  BY <1>10 DEF Disagrees, Findings
<1>12. policy' # "strict"
  BY <1>4, <1>11
<1>13. policy' \in {"strict", "lenient"}
  BY OpenChooses
<1> QED
  BY <1>4, <1>11, <1>12, <1>13 DEF Opened

\* What was answered is about what still is: once a container is opened nothing writes it.
LEMMA AnsweredIsOver ==
    ASSUME Safe, [Next]_vars, ~Open, answer.outcome # "unasked"
    PROVE  UNCHANGED <<ring, live, pending, next, power, holds, fault, policy, answer>>
BY DEF Safe, Answering, Next, Begin, Write, Finish, Unmount, LosePower, Mount, Damage, Double, Settled, Running,
       Resting, vars, image, driver, asked

\* Nothing but an opening answers.
LEMMA OnlyOpenAnswers ==
    ASSUME Safe, [Next]_vars, ~Open
    PROVE  UNCHANGED answer
BY DEF Next, Begin, Write, Finish, Unmount, LosePower, Mount, Damage, Double, Settled, Running, asked, vars

\* Both properties stay what the opening made them.
LEMMA OpenedStays ==
    Safe /\ Left /\ CrashOpensACommit /\ CrashAndLossToldApart /\ [Next]_vars
        => CrashOpensACommit' /\ CrashAndLossToldApart'
<1> SUFFICES ASSUME Safe, Left, CrashOpensACommit, CrashAndLossToldApart, [Next]_vars
             PROVE  CrashOpensACommit' /\ CrashAndLossToldApart'
  OBVIOUS
<1>1. CASE Open
  BY <1>1, OpenAfterCrash, CrashGraded, LossReported DEF CrashAndLossToldApart
<1>2. CASE ~Open /\ answer.outcome = "unasked"
  <2>1. answer'.outcome = "unasked" /\ "unasked" # "open"
    BY <1>2, OnlyOpenAnswers
  <2> QED
    BY <2>1 DEF CrashOpensACommit, CrashAndLossToldApart, CrashIsNotDamage, LossIsNotACrash, IsOpen
<1>3. CASE ~Open /\ answer.outcome # "unasked"
  BY <1>3, AnsweredIsOver DEF CrashOpensACommit, CrashAndLossToldApart, CrashIsNotDamage, LossIsNotACrash, IsOpen,
                              Adopted, OnDisk, Candidates
<1> QED
  BY <1>1, <1>2, <1>3

\* The invariant both theorems rest on.
LEMMA OpeningInvariant == Spec => [](Safe /\ Left /\ CrashOpensACommit /\ CrashAndLossToldApart)
<1>1. Init => Safe /\ Left /\ CrashOpensACommit /\ CrashAndLossToldApart
  <2>1. Init => answer.outcome = "unasked"
    BY DEF Init
  <2>2. "unasked" # "open"
    OBVIOUS
  <2> QED BY <2>1, <2>2, InitHolds, InitLeft
          DEF Safe, CrashOpensACommit, CrashAndLossToldApart, CrashIsNotDamage, LossIsNotACrash, IsOpen
<1>2. Safe /\ Left /\ CrashOpensACommit /\ CrashAndLossToldApart /\ [Next]_vars
        => (Safe /\ Left /\ CrashOpensACommit /\ CrashAndLossToldApart)'
  BY NextKeeps, NextLeaves, OpenedStays
<1> QED
  BY <1>1, <1>2, PTL DEF Spec

\* However a driver stopped, and in whatever order the blocks of a checkpoint reached the disk,
\* what it left opens under either policy, at the last checkpoint that was all on the disk and
\* with the volume as of it: for any ring, any lengths of checkpoint and any number of them.
THEOREM CrashesOpenACommit == Spec => []CrashOpensACommit
BY OpeningInvariant, PTL

\* A driver that lost power leaves nothing a scan calls damage, and a container that was
\* unmounted and lost its last checkpoint since is never taken for one a write was cut off in.
THEOREM CrashesAndLossesApart == Spec => []CrashAndLossToldApart
BY OpeningInvariant, PTL
=============================================================================
