---------------------------- MODULE BtrfsCommits ----------------------------
(***************************************************************************)
(* BtrfsVolume over the images a driver leaves. The driver is outside this *)
(* repository and is modelled from what volume.rs says of it: it copies on *)
(* write, gives an address out again once the transaction that freed it is *)
(* the live one, has its tree blocks on the disk before the superblock,    *)
(* writes every copy of the superblock the device has room for, the first  *)
(* location first, and takes the newest copy when it mounts. Power may be  *)
(* lost at any moment. A write may be lost though it was acknowledged, and *)
(* what was written may go bad.                                            *)
(***************************************************************************)
EXTENDS BtrfsVolume

CONSTANTS
    Blocks,             \* the tree blocks of a filesystem, by name
    Roots,              \* the root tree's block
    Height,             \* how far above the leaves of its tree each is
    Below,              \* for each block, those its pointers lead to, in order
    MaxTransactions,    \* bound on the transactions the driver begins
    MaxFaults           \* bound on lost writes and bad places

ASSUME TreesAssumption ==
    /\ Roots \in Blocks /\ Height \in [Blocks -> Nat] /\ Below \in [Blocks -> Seq(Blocks)]
    /\ MaxTransactions \in Nat /\ MaxFaults \in Nat

Set(seq) == {seq[i] : i \in 1..Len(seq)}

\* The blocks of the tree under each: what pointers lead to from it, and no more.
Under ==
    [top \in Blocks |-> {n \in Blocks : \A part \in SUBSET Blocks :
        top \in part /\ (\A m \in part : Set(Below[m]) \subseteq part) => n \in part}]

\* The root tree leads to every other tree, and a block has one place in a tree. Two trees may
\* share blocks, as snapshots do.
ASSUME PlacesAssumption ==
    /\ \A n \in Blocks : Roots \notin Set(Below[n])
    /\ \A n \in Blocks \ {Roots} : \E top \in Set(Below[Roots]) : n \in Under[top]
    /\ \A top \in Set(Below[Roots]) : \A m, n \in Under[top] :
          /\ top \notin Set(Below[n])
          /\ \A i \in 1..Len(Below[m]), j \in 1..Len(Below[n]) : Below[m][i] = Below[n][j] => m = n /\ i = j

VARIABLES
    power,      \* "on", or "off": unmounted or lost
    live,       \* where each block of the live transaction is
    next,       \* where each block of the one being committed is
    written,    \* how many copies of the superblock it has
    begun,      \* history: transactions begun
    rewound,    \* history: whether a transaction number was used twice
    lost,       \* history: whether an acknowledged write was lost
    faults

driver == <<power, live, next, written, begun, rewound, lost, faults>>
vars == <<image, asked, driver>>

Pointer(tree, n) == [name |-> n, at |-> tree[n].at, gen |-> tree[n].gen, level |-> Height[n]]
Pointers(tree, n) == [i \in 1..Len(Below[n]) |-> Pointer(tree, Below[n][i])]

BlockOf(tree, n) ==
    [sound |-> TRUE, name |-> n, at |-> tree[n].at, gen |-> tree[n].gen, epoch |-> tree[n].epoch,
     level |-> Height[n],
     items |-> IF n = Roots THEN Pointers(tree, n) ELSE << >>,
     children |-> IF n = Roots THEN << >> ELSE Pointers(tree, n)]

Super(tree) == [state |-> "whole", gen |-> tree[Roots].gen, root |-> Pointer(tree, Roots), of |-> tree]
Blank == [sound |-> FALSE]
BadSuper == [state |-> "bad"]

Writing == next # live

Init ==
    /\ \E at \in [Blocks -> Addresses] :
          /\ \A m, n \in Blocks : m # n => at[m] # at[n]
          /\ live = [n \in Blocks |-> [at |-> at[n], gen |-> 1, epoch |-> 1]]
    /\ next = live /\ written = 0
    /\ disk = [a \in Addresses |-> [c \in 1..Copies |->
                  IF \E n \in Blocks : live[n].at = a
                  THEN BlockOf(live, CHOOSE n \in Blocks : live[n].at = a) ELSE Blank]]
    /\ supers = [m \in 1..Mirrors |-> IF m <= Room THEN Super(live) ELSE BadSuper]
    /\ power = "on" /\ begun = 1 /\ rewound = FALSE /\ lost = FALSE /\ faults = 0
    /\ reader = Closed /\ answers = [policy \in Policies |-> Unread]

-----------------------------------------------------------------------------
\* The driver.

\* A block is rewritten with every block above it.
Rewrites(dirty) ==
    /\ Roots \in dirty
    /\ \A m \in Blocks, n \in dirty : n \in Set(Below[m]) => m \in dirty

Free == Addresses \ {live[n].at : n \in Blocks}

\* The trees a transaction that rewrites these blocks would leave.
Trees(dirty) ==
    {[n \in Blocks |-> IF n \in dirty THEN [at |-> at[n], gen |-> live[Roots].gen + 1, epoch |-> begun + 1]
                       ELSE live[n]] :
        at \in {f \in [dirty -> Free] : \A m, n \in dirty : m # n => f[m] # f[n]}}

\* The places these blocks are written to.
Places(tree, dirty) == {<<tree[n].at, c>> : n \in dirty, c \in 1..Copies}

Put(tree, places) ==
    disk' = [a \in Addresses |-> [c \in 1..Copies |->
                IF <<a, c>> \in places
                THEN BlockOf(tree, CHOOSE n \in Blocks : tree[n].at = a) ELSE disk[a][c]]]

\* A transaction's tree blocks are written, all but a write that is lost.
Begin ==
    /\ power = "on" /\ ~Writing /\ begun < MaxTransactions
    /\ \E dirty \in {d \in SUBSET Blocks : Rewrites(d)} :
       \E tree \in Trees(dirty) :
       \E gone \in {{}} \cup {{place} : place \in Places(tree, dirty)} :
          /\ faults + Cardinality(gone) <= MaxFaults
          /\ next' = tree
          /\ Put(tree, Places(tree, dirty) \ gone)
          /\ faults' = faults + Cardinality(gone) /\ lost' = (lost \/ gone # {})
          /\ rewound' = (rewound \/ begun # live[Roots].gen)
    /\ begun' = begun + 1 /\ written' = 0
    /\ UNCHANGED <<supers, asked, power, live>>

\* Power is lost while they are written: any of them are there.
LoseBlocks ==
    /\ power = "on" /\ ~Writing /\ begun < MaxTransactions
    /\ \E dirty \in {d \in SUBSET Blocks : Rewrites(d)} :
       \E tree \in Trees(dirty) :
       \E some \in SUBSET Places(tree, dirty) : Put(tree, some)
    /\ begun' = begun + 1 /\ power' = "off"
    /\ rewound' = (rewound \/ begun # live[Roots].gen)
    /\ UNCHANGED <<supers, asked, live, next, written, lost, faults>>

\* The next copy of the superblock is written, or that write is lost.
WriteSuper ==
    /\ power = "on" /\ Writing /\ written < Room
    /\ \/ supers' = [supers EXCEPT ![written + 1] = Super(next)] /\ UNCHANGED <<faults, lost>>
       \/ faults < MaxFaults /\ faults' = faults + 1 /\ lost' = TRUE /\ UNCHANGED supers
    /\ written' = written + 1
    /\ live' = IF written + 1 = Room THEN next ELSE live
    /\ UNCHANGED <<disk, asked, power, next, begun, rewound>>

\* Unmounted, or power lost between two copies of the superblock.
Stop ==
    /\ power = "on"
    /\ power' = "off"
    /\ UNCHANGED <<image, asked, live, next, written, begun, rewound, lost, faults>>

\* A driver goes on from the newest copy, where nothing has gone bad.
Mount ==
    /\ power = "off" /\ reader = Closed /\ answers["strict"] = Unread
    /\ begun < MaxTransactions /\ faults = 0
    /\ power' = "on"
    /\ live' = supers[Chosen].of /\ next' = live' /\ written' = 0
    /\ UNCHANGED <<image, asked, begun, rewound, lost, faults>>

-----------------------------------------------------------------------------
\* What happens to an image.

Untouched == power = "off" /\ reader = Closed /\ answers["strict"] = Unread /\ faults < MaxFaults

\* A copy of the superblock goes bad, or another filesystem's is found in its place.
SpoilSuper ==
    /\ Untouched
    /\ \E m \in 1..Room :
          supers' \in {[supers EXCEPT ![m] = BadSuper]}
                 \cup {[supers EXCEPT ![m] = [@ EXCEPT !.root.at = a]] :
                          a \in IF m > 1 /\ m \in Whole THEN Addresses \ {supers[m].root.at} ELSE {}}
    /\ faults' = faults + 1
    /\ UNCHANGED <<disk, asked, power, live, next, written, begun, rewound, lost>>

\* A copy of a tree block in use goes bad, or is found holding another place's.
SpoilBlock ==
    /\ Untouched
    /\ \E n \in Blocks, tree \in {live, next}, c \in 1..Copies :
       \E a \in {tree[n].at} : \E block \in {Blank} \cup {disk[tree[m].at][c] : m \in Blocks \ {n}} :
          disk[a][c].sound /\ disk' = [disk EXCEPT ![a][c] = block]
    /\ faults' = faults + 1
    /\ UNCHANGED <<supers, asked, power, live, next, written, begun, rewound, lost>>

ReadImage == power = "off" /\ Read /\ UNCHANGED driver

Over == answers["lenient"] # Unread /\ UNCHANGED vars

Next == Begin \/ LoseBlocks \/ WriteSuper \/ Stop \/ Mount \/ SpoilSuper \/ SpoilBlock \/ ReadImage \/ Over

Spec == Init /\ [][Next]_vars

-----------------------------------------------------------------------------
\* What the readings promise.

Opened(policy) == answers[policy].outcome = "read"
Serves(policy, tree, n) == [asked |-> n, block |-> BlockOf(tree, n)] \in answers[policy].got

\* The superblock taken is one the driver wrote, and the tree it leads to.
Genuine == Whole # {} /\ supers[Chosen].root = Pointer(supers[Chosen].of, Roots)
Tree == supers[Chosen].of

\* A block is only told from an older one in its place by its transaction number. A number used
\* twice, after a commit that never was, and a write lost on top of it leave two blocks alike.
ToldApart == ~(rewound /\ lost)

\* Every block served is the one its pointer was written for: of the transaction of the superblock
\* taken, whatever stale copies lie at its address. (volume.rs: a generation that differs is a
\* copy that failed its checks; the cache answers only for the generation asked for.)
ServesTheChosen ==
    Genuine /\ ToldApart =>
        \A policy \in {q \in Policies : Opened(q)} : \A served \in answers[policy].got :
            served.block = BlockOf(Tree, served.asked)

Intact(n) == \E c \in 1..Copies : disk[Tree[n].at][c] = BlockOf(Tree, n)

\* A lenient reading serves every tree that has a copy left of each of its blocks, whatever else
\* is damaged. (volume.rs: a copy that fails is read past to the next; fs.rs: a tree that cannot
\* be walked is reported and the scan goes on.)
ReadsPastDamage ==
    Genuine /\ ToldApart /\ answers["lenient"] # Unread /\ Intact(Roots) =>
        /\ Opened("lenient")
        /\ \A root \in Set(Below[Roots]) :
              (\A n \in Under[root] : Intact(n)) => \A n \in Under[root] : Serves("lenient", Tree, n)

\* What is read is the last transaction that was done, or the one that was being committed, as
\* long as one copy of the superblock says so; and all of it, where nothing but crashes has
\* touched the image. (volume.rs: the newest copy that verifies is the live one.)
NewestIsRead ==
    answers["lenient"] # Unread =>
        /\ Genuine /\ (\E m \in Whole : supers[m] \in {Super(live), Super(next)}) => Tree \in {live, next}
        /\ faults = 0 =>
              /\ Tree \in {live, next}
              /\ Opened("lenient") /\ \A n \in Blocks : Serves("lenient", Tree, n)

\* The newest commit there is is served, and all of it that damage has left a copy of.
ReadsTheNewestPastDamage == NewestIsRead /\ ReadsPastDamage

\* A strict reading goes through exactly where a lenient one has nothing to report.
\* (volume.rs refuses and scan.rs reports, each judging the copies of the superblock by itself.)
StrictIsCleanScan ==
    answers["lenient"] # Unread => (Accepted(answers["strict"]) <=> Clean(answers["lenient"]))
=============================================================================
