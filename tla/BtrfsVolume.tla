---------------------------- MODULE BtrfsVolume -----------------------------
(***************************************************************************)
(* Reading a btrfs volume: which copy of the superblock is taken, how each *)
(* tree block is fetched through its copies and checked (volume.rs), the   *)
(* descent of a tree (btree.rs) and the scan over every tree (fs.rs). The  *)
(* same image is read twice, strictly and leniently.                       *)
(*                                                                         *)
(* A tree block is what it is called in the tree it belongs to, and the    *)
(* pointers in it. Keys, items and the chunk map are left out: addresses   *)
(* are logical, and a block has one place for each of its copies. `epoch`  *)
(* is history: the transaction a driver really wrote the block in, which   *)
(* no reader sees; the number it records is `gen`.                         *)
(***************************************************************************)
EXTENDS BlockCache, FiniteSets

CONSTANTS
    Addresses,  \* logical addresses of tree blocks
    Mirrors,    \* locations of the superblock, 1 the first
    Room,       \* how many of them the device has room for
    Copies,     \* copies of each tree block
    Capacity    \* tree blocks the volume's cache holds

ASSUME VolumeAssumption ==
    /\ Mirrors \in Nat \ {0} /\ Room \in 1..Mirrors
    /\ Copies \in Nat \ {0} /\ Capacity \in Nat

VARIABLES
    supers,     \* the superblock's locations
    disk,       \* each tree block's copies
    reader,     \* the reading under way
    answers     \* what each reading answered, by policy

image == <<supers, disk>>
asked == <<reader, answers>>

Policies == {"strict", "lenient"}
Unread == [outcome |-> "unread"]

Closed == [pc |-> "closed", policy |-> "none", trees |-> << >>, stack |-> << >>, visited |-> {},
           cache |-> Empty, got |-> {}, refused |-> {}, through |-> {}]

-----------------------------------------------------------------------------
\* Which superblock.

\* The copies that verify and say they live where they are. One that is missing, damaged or
\* another place's is bad.
Whole == {m \in 1..Mirrors : supers[m].state = "whole"}

\* Mutant: the first copy that verifies, as a mount takes it.
FirstWhole == CHOOSE m \in Whole : \A k \in Whole : m <= k

\* The newest, and of those the earliest.
Chosen ==
    CHOOSE m \in Whole : \A k \in Whole \ {m} :
        supers[m].gen > supers[k].gen \/ (supers[m].gen = supers[k].gen /\ m < k)

\* What a copy is, once the live one is known.
Judged(m) ==
    IF m > Room THEN "outside"
    ELSE IF m \notin Whole THEN "bad"
    ELSE IF supers[m].gen = supers[Chosen].gen /\ supers[m] # supers[Chosen] THEN "diverged"
    ELSE "present"

Behind(m) == Judged(m) = "present" /\ supers[m].gen < supers[Chosen].gen

\* Mutant: a copy that is behind is let pass.
MirrorAllowsLag(m) == Judged(m) \in {"bad", "diverged"}

\* What a strict open will not have of a copy.
MirrorDisagreement(m) == Judged(m) \in {"bad", "diverged"} \/ Behind(m)

\* What a scan reports of one.
MirrorAnomaly(m) == CASE Judged(m) = "outside" -> FALSE
                      [] Judged(m) = "present" -> Behind(m)
                      [] OTHER -> TRUE

RootTree(sb) == sb.root

-----------------------------------------------------------------------------
\* One tree block.

\* Mutant: a block of another transaction will do.
VerifiesAnywhen(block, p) == block.sound /\ block.at = p.at

\* Covered by its checksum, where it says it is, and of the transaction the pointer names.
Verifies(block, p) == block.sound /\ block.at = p.at /\ block.gen = p.gen

Good(p) == {c \in 1..Copies : Verifies(disk[p.at][c], p)}

\* A block held answers only where it is of the transaction asked for.
Held(p) ==
    /\ p.at \in Keys(reader.cache)
    /\ Verifies(reader.cache[Slot(reader.cache, p.at)].value, p)

\* Mutant: a lenient read stops at the first copy as well.
FetchesFirst(p) == Held(p) \/ 1 \in Good(p)

Fetches(p) == Held(p) \/ (IF reader.policy = "strict" THEN 1 \in Good(p) ELSE Good(p) # {})

TakenCopy(p) == CHOOSE c \in Good(p) : \A k \in Good(p) : c <= k

Block(p) == IF Held(p) THEN reader.cache[Slot(reader.cache, p.at)].value ELSE disk[p.at][TakenCopy(p)]

\* Mutant: reading past a copy is not noted.
ThroughNothing(p) == {}

Through(p) == IF Held(p) \/ TakenCopy(p) = 1 THEN {} ELSE {p.at}

\* The reader once it has fetched what p leads to, and once it has taken it.
Fetched(p) ==
    LET asked_for == IF p.at \in Keys(reader.cache) THEN Get(reader.cache, p.at) ELSE reader.cache
    IN  [reader EXCEPT !.cache = IF Held(p) THEN asked_for ELSE Insert(asked_for, Capacity, p.at, Block(p)),
                       !.through = @ \cup Through(p)]

Took(p) == [Fetched(p) EXCEPT !.got = @ \cup {[asked |-> p.name, block |-> Block(p)]}]

-----------------------------------------------------------------------------
\* The two readings.

Answer(policy, answer) ==
    /\ answers' = [answers EXCEPT ![policy] = answer]
    /\ reader' = Closed

Refused == [outcome |-> "refused"]

\* Volume::open_with. The strict reading comes first, the lenient one after it.
Open(policy) ==
    /\ reader.pc = "closed" /\ answers[policy] = Unread
    /\ policy = "lenient" => answers["strict"] # Unread
    /\ IF Whole = {} \/ (policy = "strict" /\ \E m \in 1..Mirrors : MirrorDisagreement(m))
       THEN Answer(policy, Refused)
       ELSE reader' = [Closed EXCEPT !.pc = "roots", !.policy = policy] /\ UNCHANGED answers
    /\ UNCHANGED image

\* Volume::tree_roots: the root tree is one leaf here, of a record for each other tree.
ReadRoots ==
    /\ reader.pc = "roots"
    /\ LET p == RootTree(supers[Chosen])
       IN  IF ~Fetches(p) \/ Block(p).level # p.level THEN Answer(reader.policy, Refused)
           ELSE /\ reader' = [Took(p) EXCEPT !.pc = "trees", !.stack = <<p>>, !.trees = Block(p).items]
                /\ UNCHANGED answers
    /\ UNCHANGED image

\* Once the walk of a tree is through, that of the next begins.
Onward(after) ==
    IF after.stack # << >> \/ after.trees = << >> THEN after
    ELSE [after EXCEPT !.stack = <<Head(after.trees)>>, !.trees = Tail(@), !.visited = {}]

\* The walk of a tree ends at a block that cannot be taken.
GivesUp(after, p) == [after EXCEPT !.stack = << >>, !.refused = @ \cup {p.at}]

\* Tree::drive, a block at a time: a block's children come before what is left. A block reached
\* twice, not to be read, or at another height than the pointer to it says is not taken.
Descend ==
    /\ reader.pc = "trees" /\ reader.stack # << >>
    /\ LET p == Head(reader.stack)
       IN  reader' = Onward(
               IF p.at \in reader.visited \/ ~Fetches(p) THEN GivesUp(reader, p)
               ELSE IF Block(p).level # p.level THEN GivesUp(Fetched(p), p)
               ELSE [Took(p) EXCEPT !.stack = Block(p).children \o Tail(@),
                                    !.visited = @ \cup {p.at}])
    /\ UNCHANGED <<answers, image>>

\* Reader::scan's report.
Report ==
    /\ reader.pc = "trees" /\ reader.stack = << >>
    /\ Answer(reader.policy, [outcome |-> "read", got |-> reader.got, refused |-> reader.refused,
                              through |-> reader.through, faulty |-> {m \in 1..Mirrors : MirrorAnomaly(m)}])
    /\ UNCHANGED image

Read == (\E policy \in Policies : Open(policy)) \/ ReadRoots \/ Descend \/ Report

\* A reading that was refused nothing, and one that reports nothing.
Accepted(answer) == answer.outcome = "read" /\ answer.refused = {}
Clean(answer) == Accepted(answer) /\ answer.through = {} /\ answer.faulty = {}
=============================================================================
