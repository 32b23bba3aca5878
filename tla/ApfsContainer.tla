--------------------------- MODULE ApfsContainer ----------------------------
(***************************************************************************)
(* ApfsOpen over the containers a driver leaves. The driver is outside     *)
(* this repository and is modelled from what container.rs says of it:      *)
(* transactions that copy on write, an object map and a volume superblock  *)
(* on the disk before the checkpoint naming them, the checkpoint's blocks  *)
(* written to the ring in any order after the live one's, transaction      *)
(* numbers used once, and block zero written after a checkpoint on a clean *)
(* unmount. Power may be lost at any moment, and a block may go bad after. *)
(* The container may have been written over another's ring.                *)
(***************************************************************************)
EXTENDS ApfsOpen, Sequences

CONSTANTS
    MaxTx,      \* transactions the driver runs
    Lengths,    \* blocks a checkpoint takes in the ring
    ForeignXid  \* the transaction of the checkpoint left by another container

ASSUME AddressesAssumption == Addresses # {}
ASSUME LengthsAssumption == Lengths \subseteq Nat \ {0} /\ MaxTx \in Nat /\ ForeignXid \in Nat

\* The first checkpoint is a mapping block and its superblock; what an older container left
\* in the ring is "whole and at later transactions" (container.rs, checkpoint_is_whole).
ASSUME FirstFits == Ring >= 2
ASSUME ForeignIsLater == ForeignXid > MaxTx

VARIABLES
    live,       \* the superblock of the checkpoint the driver is at
    pending,    \* the checkpoint being written: its blocks, by slot, that are not on the disk
    next,       \* the checkpoint being written: its superblock
    count,      \* transactions begun
    power,      \* whether the driver is running, was unmounted, or lost power
    fault,      \* what happened to the container besides
    holds,      \* history: the transaction of the volume superblock each transaction holds
    policy,     \* the policy it is opened under
    answer      \* what opening answered

driver == <<live, pending, next, count, power, holds>>
asked == <<policy, answer>>
vars == <<image, driver, fault, asked>>

Super(xid, start, len, omap) ==
    [kind |-> "super", sound |-> TRUE, xid |-> xid, own |-> TRUE, start |-> start, len |-> len,
     loads |-> TRUE, omap |-> omap]
Map(xid) == [kind |-> "map", sound |-> TRUE, xid |-> xid]
Unwritten == [kind |-> "none", sound |-> FALSE, xid |-> 0]

ObjectMap(xid, volume, held) ==
    [kind |-> "omap", sound |-> TRUE, xid |-> xid, volume |-> volume, holds |-> held]
VolumeBlock(xid) == [kind |-> "volume", sound |-> TRUE, xid |-> xid]

Last(sb) == (sb.start + sb.len - 1) % Ring
Idle == [kind |-> "none"]

\* The blocks of a checkpoint, by slot.
Checkpoint(sb) ==
    [s \in MapSlots(sb) \cup {Last(sb)} |-> IF s = Last(sb) THEN sb ELSE Map(sb.xid)]

First == Super(1, 0, 2, CHOOSE a \in Addresses : TRUE)
Foreign == [Super(ForeignXid, 2, 2, First.omap) EXCEPT !.own = FALSE]

Laid(slots) == [s \in Slots |-> IF s \in DOMAIN slots THEN slots[s] ELSE ring[s]]

Init ==
    /\ live = First
    /\ \E foreign \in BOOLEAN, v \in Addresses \ {First.omap} :
          /\ ring = [s \in Slots |->
                        IF s \in DOMAIN Checkpoint(First) THEN Checkpoint(First)[s]
                        ELSE IF foreign /\ s \in DOMAIN Checkpoint(Foreign) THEN Checkpoint(Foreign)[s]
                        ELSE Unwritten]
          /\ blocks = [a \in Addresses |->
                          IF a = First.omap THEN ObjectMap(1, v, 1)
                          ELSE IF a = v THEN VolumeBlock(1) ELSE Unwritten]
    /\ zero = First
    /\ pending = << >> /\ next = Idle /\ count = 1
    /\ power = "on" /\ fault = "none"
    /\ holds = <<1>>
    /\ policy = "none" /\ answer = [outcome |-> "unasked"]

-----------------------------------------------------------------------------
\* The driver.

Running == power = "on" /\ UNCHANGED asked

\* The blocks the live checkpoint leads to.
InUse == {live.omap, blocks[live.omap].volume}

\* A transaction that writes the volume writes a new superblock of it and a new map; one that
\* does not keeps both. What they take is free in the live checkpoint.
Begin ==
    /\ Running /\ next = Idle /\ count < MaxTx
    /\ \E len \in Lengths, writes \in BOOLEAN, loads \in BOOLEAN :
          /\ live.len + len <= Ring
          /\ \E m, v \in Addresses \ InUse :
                /\ m # v
                /\ IF writes
                   THEN blocks' = [blocks EXCEPT ![m] = ObjectMap(count + 1, v, count + 1),
                                                 ![v] = VolumeBlock(count + 1)]
                   ELSE UNCHANGED blocks
                /\ next' = [Super(count + 1, (Last(live) + 1) % Ring, len,
                                  IF writes THEN m ELSE live.omap) EXCEPT !.loads = loads]
                /\ holds' = Append(holds, IF writes THEN count + 1 ELSE holds[live.xid])
          /\ fault' = IF loads THEN fault ELSE "tool"
    /\ pending' = Checkpoint(next')
    /\ count' = count + 1
    /\ UNCHANGED <<ring, zero, live, power>>

\* The blocks of the checkpoint reach the disk in any order.
Write ==
    /\ Running
    /\ \E s \in DOMAIN pending :
          /\ ring' = [ring EXCEPT ![s] = pending[s]]
          /\ pending' = [t \in DOMAIN pending \ {s} |-> pending[t]]
    /\ UNCHANGED <<blocks, zero, live, next, count, power, holds, fault>>

OnDisk == next # Idle /\ DOMAIN pending = {}

\* What a driver takes for live: the checkpoint it was writing once all of it is there. One
\* whose queue limits no driver gives was written by another tool, and none goes on from it.
Adopted == IF OnDisk /\ next.loads THEN next ELSE live

Finish ==
    /\ Running /\ OnDisk /\ next.loads
    /\ live' = Adopted /\ next' = Idle
    /\ UNCHANGED <<image, pending, count, power, holds, fault>>

Unmount ==
    /\ Running /\ (next = Idle \/ (OnDisk /\ ~next.loads))
    /\ zero' = IF OnDisk THEN next ELSE live
    /\ power' = "off"
    /\ UNCHANGED <<ring, blocks, live, pending, next, count, holds, fault>>

LosePower ==
    /\ Running
    /\ power' = "lost"
    /\ UNCHANGED <<image, live, pending, next, count, holds, fault>>

Mount ==
    /\ power # "on" /\ fault = "none" /\ answer.outcome = "unasked"
    /\ power' = "on"
    /\ live' = Adopted /\ next' = Idle /\ pending' = << >>
    /\ UNCHANGED <<image, count, holds, fault, asked>>

-----------------------------------------------------------------------------

Resting == power # "on" /\ answer.outcome = "unasked"

\* One block goes bad: of the ring, of the objects, or block zero.
Damage ==
    /\ Resting /\ fault = "none" /\ fault' = "damage"
    /\ \/ \E s \in Slots : ring[s].sound /\ ring' = [ring EXCEPT ![s].sound = FALSE] /\ UNCHANGED <<blocks, zero>>
       \/ \E a \in Addresses :
             blocks[a].sound /\ blocks' = [blocks EXCEPT ![a].sound = FALSE] /\ UNCHANGED <<ring, zero>>
       \/ zero' = [zero EXCEPT !.sound = FALSE] /\ UNCHANGED <<ring, blocks>>
    /\ UNCHANGED <<driver, asked>>

\* The live checkpoint is found a second time, in the slots after it.
Double ==
    /\ Resting /\ fault = "none" /\ fault' = "doubled"
    /\ 2 * live.len <= Ring
    /\ ring' = Laid(Checkpoint([live EXCEPT !.start = (Last(live) + 1) % Ring]))
    /\ UNCHANGED <<blocks, zero, driver, asked>>

Open ==
    /\ Resting
    /\ policy' \in {"strict", "lenient"}
    /\ \/ /\ policy' = "strict" /\ ~zero.sound
          /\ answer' = Refused("bad checksum")
       \/ /\ policy' = "strict" => zero.sound
          /\ Loaded = {}
          /\ answer' = Refused("no checkpoint")
       \/ /\ policy' = "strict" => zero.sound
          /\ \E s \in Slots : IsLive(s) /\ answer' = OpenedAt(s, policy' = "strict")
    /\ UNCHANGED <<image, driver, fault>>

Settled == answer.outcome # "unasked" /\ UNCHANGED vars

Next == \/ Begin \/ Write \/ Finish \/ Unmount \/ LosePower \/ Mount
        \/ Damage \/ Double \/ Open \/ Settled

Spec == Init /\ [][Next]_vars

-----------------------------------------------------------------------------

Supers == [kind : {"super"}, sound : BOOLEAN, xid : Nat, own : BOOLEAN, start : Nat, len : Nat \ {0},
           loads : BOOLEAN, omap : Addresses]
RingBlocks == Supers \cup [kind : {"map", "none"}, sound : BOOLEAN, xid : Nat]
Objects == [kind : {"omap"}, sound : BOOLEAN, xid : Nat, volume : Addresses, holds : Nat]
           \cup [kind : {"volume", "none"}, sound : BOOLEAN, xid : Nat]

TypeOK ==
    /\ ring \in [Slots -> RingBlocks]
    /\ blocks \in [Addresses -> Objects]
    /\ zero \in Supers /\ live \in Supers /\ next \in Supers \cup {Idle}
    /\ \A s \in DOMAIN pending : s \in Slots /\ pending[s] \in RingBlocks
    /\ count \in Nat \ {0}
    /\ holds \in Seq(Nat) /\ Len(holds) = count

IsOpen == answer.outcome = "open"

\* However a driver stopped, what it left opens, under a strict policy too, at the last
\* checkpoint it finished or the one it was finishing, with the volume as of then.
CrashOpensACommit ==
    fault = "none" /\ answer.outcome # "unasked" =>
        IsOpen /\ answer.xid = Adopted.xid /\ answer.volume = holds[Adopted.xid]

\* What is opened is served as of its own transaction: an object map or a volume superblock
\* whose block was freed and reused since is never taken for the one the checkpoint named.
ServesItsTransaction ==
    IsOpen => answer.xid \in 1..count /\ answer.volume \in {0, holds[answer.xid]}

\* A driver that lost power leaves nothing a scan calls damage, short of another container's
\* checkpoint, which a driver reading the ring would take.
CrashIsNotDamage ==
    fault = "none" /\ IsOpen /\ (\A s \in Candidates : ring[s].own) => "integrity" \notin answer.findings

\* A container that was unmounted and opens at less than it held then is never passed off as
\* one a write was interrupted in, and a strict open refuses it.
LossIsNotACrash ==
    IsOpen /\ power = "off" /\ answer.xid # Adopted.xid =>
        policy = "lenient" /\ "integrity" \in answer.findings

\* What a crash leaves and what was lost are told apart, both ways.
CrashAndLossToldApart == CrashIsNotDamage /\ LossIsNotACrash
=============================================================================
