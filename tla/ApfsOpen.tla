------------------------------ MODULE ApfsOpen ------------------------------
(***************************************************************************)
(* How an APFS container is opened (apfs/container.rs): the checkpoint     *)
(* that is live among those the descriptor ring holds, how block zero      *)
(* stands to it, the object map and the volume read through it, and how a  *)
(* scan grades what opening passed over (apfs/fs.rs, scan_checkpoint).     *)
(*                                                                         *)
(* A ring block is what the one pass over the ring learns of it: whether   *)
(* its checksum covers it, its type and transaction, and of a superblock   *)
(* the fields a checkpoint is judged by. A data block is an object map or  *)
(* a volume superblock with its transaction; the container has one volume. *)
(***************************************************************************)
EXTENDS Integers, FiniteSets

CONSTANTS
    Ring,       \* blocks in the descriptor ring
    Addresses   \* blocks objects are kept at

ASSUME RingAssumption == Ring \in Nat \ {0}

VARIABLES
    ring,       \* the descriptor area, by slot
    blocks,     \* the objects, by address
    zero        \* block zero's copy of the container superblock

image == <<ring, blocks, zero>>

Slots == 0..(Ring - 1)

-----------------------------------------------------------------------------
\* Choosing the live checkpoint.

\* The checkpoint a superblock ends: its mapping blocks' slots, in the ring.
MapSlots(sb) == {(sb.start + k) % Ring : k \in 0..(sb.len - 2)}

\* Mutant: mapping blocks are not asked for their transaction.
WholeOfAnyTransaction(sb, index) ==
    /\ sb.own
    /\ sb.len \in 1..Ring /\ sb.start \in Slots
    /\ (sb.start + sb.len - 1) % Ring = index
    /\ \A s \in MapSlots(sb) : ring[s].sound /\ ring[s].kind = "map"

\* The container's own, the last block of what it describes, after as many mapping blocks of
\* its transaction as it says.
Whole(sb, index) ==
    /\ sb.own
    /\ sb.len \in 1..Ring /\ sb.start \in Slots
    /\ (sb.start + sb.len - 1) % Ring = index
    /\ \A s \in MapSlots(sb) : ring[s].sound /\ ring[s].kind = "map" /\ ring[s].xid = sb.xid

Candidates == {s \in Slots : ring[s].sound /\ ring[s].kind = "super"}
Loaded == {s \in Candidates : Whole(ring[s], s) /\ ring[s].loads}

\* Candidates are judged from the newest transaction on, the lower slot of two first.
Sooner(s, t) == ring[s].xid > ring[t].xid \/ (ring[s].xid = ring[t].xid /\ s < t)

\* The live one is the first found whole that its space manager does not keep from loading.
IsLive(s) == s \in Loaded /\ \A t \in Loaded \ {s} : Sooner(s, t)

\* Why opening did not take a candidate it judged.
Reason(s) ==
    IF s \in Loaded THEN "same transaction"
    ELSE IF ~ring[s].own THEN "foreign"
    ELSE IF Whole(ring[s], s) THEN "queue limits"
    ELSE "not whole"

PassedOver(live) ==
    {s \in Candidates \ {live} : Sooner(s, live) \/ (s \in Loaded /\ ring[s].xid = ring[live].xid)}

-----------------------------------------------------------------------------
\* Block zero against the live checkpoint.

Stands(live) ==
    IF ~zero.sound THEN "unverified"
    ELSE IF zero.xid < ring[live].xid THEN "older"
    ELSE IF zero.xid > ring[live].xid
    THEN IF \E s \in PassedOver(live) : ring[s].xid = zero.xid /\ Reason(s) = "queue limits"
         THEN "not loaded" ELSE "newer"
    ELSE IF zero = ring[live] THEN "current" ELSE "differs"

Disagrees(stands) == stands \in {"differs", "newer", "unverified"}

-----------------------------------------------------------------------------
\* Reading objects: each is held against what led to it.

\* Mutant: an object map is not asked for its transaction.
ReadsAnyMap(address, xid) == blocks[address].sound /\ blocks[address].kind = "omap"

ReadsMap(address, xid) ==
    blocks[address].sound /\ blocks[address].kind = "omap" /\ blocks[address].xid <= xid
ReadsVolume(address, xid) ==
    blocks[address].sound /\ blocks[address].kind = "volume" /\ blocks[address].xid = xid

-----------------------------------------------------------------------------
\* The whole of opening, and the findings of a scan of what it opened.

Refused(why) == [outcome |-> why]

\* Mutant: what is passed over above block zero's transaction is the damage.
GradeReversed(live, s) ==
    LET stands == Stands(live)
        written == IF stands \in {"newer", "not loaded"} THEN zero.xid ELSE ring[live].xid
    IN  IF Reason(s) = "not whole" /\ ring[s].xid <= written THEN "cosmetic" ELSE "integrity"

\* A checkpoint block zero was written after is one a write finished: one of those is damage.
Grade(live, s) ==
    LET stands == Stands(live)
        written == IF stands \in {"newer", "not loaded"} THEN zero.xid ELSE ring[live].xid
    IN  IF Reason(s) = "not whole" /\ ring[s].xid > written THEN "cosmetic" ELSE "integrity"

\* Mutant: a block zero newer than the live checkpoint is an unclean unmount as well.
FindingsOfAnyOrder(live) ==
    (CASE Stands(live) = "current" -> {}
       [] Stands(live) \in {"older", "newer"} -> {"cosmetic"}
       [] OTHER -> {"integrity"})
    \cup {Grade(live, s) : s \in PassedOver(live)}

Findings(live) ==
    (CASE Stands(live) = "current" -> {}
       [] Stands(live) = "older" -> {"cosmetic"}
       [] OTHER -> {"integrity"})
    \cup {Grade(live, s) : s \in PassedOver(live)}

\* A volume that cannot be read is set aside, and the container opens without it.
Volume(map) ==
    IF ReadsVolume(map.volume, map.holds) THEN blocks[map.volume].xid ELSE 0

Opened(live) ==
    [outcome |-> "open", xid |-> ring[live].xid, volume |-> Volume(blocks[ring[live].omap]),
     findings |-> Findings(live)]

OpenedAt(live, strict) ==
    IF strict /\ Disagrees(Stands(live)) THEN Refused("block zero disagrees")
    ELSE IF ~ReadsMap(ring[live].omap, ring[live].xid) THEN Refused("wrong object")
    ELSE Opened(live)
=============================================================================
