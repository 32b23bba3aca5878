---------------------------- MODULE ReaderProofs ----------------------------
(***************************************************************************)
(* What the readers of two other filesystems hand over.                    *)
(*                                                                         *)
(* btrfs: whatever a driver commits, crashes in, loses and spoils, a       *)
(* reading hands over the blocks of the transaction of the superblock it   *)
(* took. What matters is what may pass for a block of a tree: of all there *)
(* is on the disk, only that block (Told). A block is told from older ones *)
(* in its place by its transaction number, which no block of another       *)
(* transaction carries unless a number was used twice; then the write that *)
(* replaces it must not be lost. Told holds of every tree a superblock     *)
(* names and of the one being committed, so that of the tree read it holds *)
(* whichever superblock is taken, and the cache holds nothing that was not *)
(* on the disk. Of one volume a strict reading and a lenient one are two   *)
(* courses over the same first copies, until one of them meets damage:     *)
(* whatever the first meets is there for the other.                        *)
(* Of the tree read, everything damage has left a copy of is handed over:  *)
(* none of its blocks is met twice, and those taken lead to nothing but    *)
(* what was taken or is left to take (Walking).                            *)
(*                                                                         *)
(* FAT: in whatever order clusters of files are asked for, a read is given *)
(* those of the live table's chain. The cursor is always at a place of its *)
(* own chain, so that going on from it is going along that chain.          *)
(***************************************************************************)
EXTENDS BtrfsCommits, FatScan, FiniteSetTheorems, SequenceTheorems, WellFoundedInduction, TLAPS

\* A tree of a transaction: no two blocks at one address, none newer than its root.
Laid(tree) ==
    /\ tree \in [Blocks -> [at : Addresses, gen : Nat, epoch : Nat]]
    /\ \A m, n \in Blocks : m # n => tree[m].at # tree[n].at
    /\ \A n \in Blocks : tree[n].gen <= tree[Roots].gen

\* What is on the disk, wherever it came to lie there.
OnDisk == {disk[a][c] : a \in Addresses, c \in 1..Copies}

\* Of these blocks, only a tree's own pass for them.
Told(blocks, tree) ==
    \A block \in blocks, n \in Blocks : Verifies(block, Pointer(tree, n)) => block = BlockOf(tree, n)

DiskOK ==
    /\ DOMAIN disk = Addresses /\ \A a \in Addresses : DOMAIN disk[a] = 1..Copies
    /\ \A block \in OnDisk : block.sound = FALSE \/ (block.sound = TRUE /\ block.gen \in 0..begun)
    /\ power = "on" \/ faults = 0 =>
          \A a \in Addresses, c \in 1..Copies : disk[a][c].sound => disk[a][c].at = a

SupersOK ==
    /\ DOMAIN supers = 1..Mirrors
    /\ \A m \in Whole : /\ Laid(supers[m].of) /\ supers[m].gen = supers[m].of[Roots].gen
                          /\ supers[m].gen <= begun
    /\ \A m \in Whole : DOMAIN supers[m] = {"state", "gen", "root", "of"}
    /\ faults = 0 => 1 \in Whole
    /\ power = "on" => \A m \in Whole : supers[m].gen <= next[Roots].gen

DriverOK ==
    /\ begun \in Nat /\ faults \in Nat /\ written \in Nat /\ rewound \in BOOLEAN /\ lost \in BOOLEAN
    /\ Laid(live) /\ live[Roots].gen <= begun /\ Laid(next) /\ next[Roots].gen <= begun
    /\ power = "on" => reader = Closed /\ answers["strict"] = Unread

\* Told of every tree a superblock names or may come to name.
Apart ==
    ToldApart => /\ Told(OnDisk, live) /\ Told(OnDisk, next)
                 /\ \A m \in Whole : Told(OnDisk, supers[m].of)

\* The pointers of the tree that is read, and its blocks as they are served.
Pointing == {Pointer(Tree, n) : n \in Blocks}
Served == {[asked |-> n, block |-> BlockOf(Tree, n)] : n \in Blocks}

ReadingOK ==
    /\ DOMAIN reader = DOMAIN Closed /\ DOMAIN answers = Policies
    /\ reader.policy = "lenient" \/ answers["lenient"] # Unread => answers["strict"] # Unread
    /\ reader.pc \in {"roots", "trees"} => reader.policy \in Policies
    /\ Genuine /\ ToldApart =>
          /\ reader.pc = "trees" => reader.stack \in Seq(Pointing) /\ reader.trees \in Seq(Pointing)
          /\ reader.cache \in Seq([key : Addresses, value : OnDisk])
          /\ reader.got \subseteq Served
          /\ \A policy \in {q \in Policies : Opened(q)} : answers[policy].got \subseteq Served

CommitInv == DriverOK /\ SupersOK /\ DiskOK /\ Apart /\ ReadingOK

-----------------------------------------------------------------------------
\* What the definitions give.

\* A set of naturals has a least one.
LEMMA LeastOf ==
    ASSUME NEW T \in SUBSET Nat, T # {}
    PROVE  \E x \in T : \A y \in T : x <= y
<1>1. PICK x \in T : \A y \in T : ~(<<y, x>> \in OpToRel(<, Nat))
  BY NatLessThanWellFounded, WFMin
<1>2. \A y \in T : ~(y < x)
  BY <1>1 DEF OpToRel
<1> QED
  BY <1>2

LEMMA LaidFacts ==
    ASSUME NEW tree, Laid(tree), NEW n \in Blocks
    PROVE  /\ tree[n].at \in Addresses /\ tree[n].gen \in Nat /\ Roots \in Blocks
           /\ tree[Roots].gen \in Nat /\ tree[n].gen <= tree[Roots].gen
  BY TreesAssumption DEF Laid

LEMMA BlockFacts ==
    ASSUME NEW tree, NEW n \in Blocks
    PROVE  /\ BlockOf(tree, n).sound = TRUE /\ BlockOf(tree, n).at = tree[n].at
           /\ BlockOf(tree, n).gen = tree[n].gen
           /\ Pointer(tree, n).name = n /\ Pointer(tree, n).at = tree[n].at
           /\ Pointer(tree, n).gen = tree[n].gen
  BY DEF BlockOf, Pointer

\* The newest superblock that checks out is taken.
LEMMA ChosenFacts ==
    ASSUME DriverOK, SupersOK, Whole # {}
    PROVE  Chosen \in Whole /\ \A k \in Whole : supers[k].gen <= supers[Chosen].gen
<1>1. /\ Whole \subseteq Nat /\ begun \in Nat
      /\ \A m \in Whole : supers[m].gen \in Nat /\ supers[m].gen <= begun
  <2>1. Whole \subseteq Nat /\ begun \in Nat
    BY VolumeAssumption DEF Whole, DriverOK
  <2>2. ASSUME NEW m \in Whole PROVE supers[m].gen \in Nat /\ supers[m].gen <= begun
    <3>1. Laid(supers[m].of) /\ supers[m].gen = supers[m].of[Roots].gen /\ supers[m].gen <= begun
      BY DEF SupersOK
    <3>2. Roots \in Blocks
      BY TreesAssumption
    <3> QED
      BY <3>1, <3>2, LaidFacts
  <2> QED
    BY <2>1, <2>2
<1> DEFINE T == {begun - supers[m].gen : m \in Whole}
<1>2. T \in SUBSET Nat /\ T # {}
  <2>1. \A m \in Whole : begun - supers[m].gen \in Nat
    BY <1>1
  <2> QED
    BY <2>1
<1>3. PICK x \in T : \A y \in T : x <= y
  BY <1>2, LeastOf
<1> DEFINE M == {m \in Whole : begun - supers[m].gen = x}
<1>4. M \in SUBSET Nat /\ M # {}
  BY <1>1
<1>5. PICK m \in M : \A k \in M : m <= k
  BY <1>4, LeastOf
<1>6. \A k \in Whole : supers[m].gen >= supers[k].gen
  <2>1. m \in Whole /\ begun - supers[m].gen = x
    OBVIOUS
  <2>2. \A k \in Whole : x <= begun - supers[k].gen
    BY <1>3
  <2> QED
    BY <2>1, <2>2, <1>1
<1>7. \A k \in Whole : supers[m].gen = supers[k].gen => k \in M
  BY <1>1, <1>5
<1>8. \A k \in Whole \ {m} :
         supers[m].gen > supers[k].gen \/ (supers[m].gen = supers[k].gen /\ m < k)
  BY <1>1, <1>4, <1>5, <1>6, <1>7
<1>9. /\ Chosen \in Whole
      /\ \A k \in Whole \ {Chosen} :
            supers[Chosen].gen > supers[k].gen \/ (supers[Chosen].gen = supers[k].gen /\ Chosen < k)
  BY <1>5, <1>8 DEF Chosen
<1>10. ASSUME NEW k \in Whole PROVE supers[k].gen <= supers[Chosen].gen
  <2>1. supers[k].gen \in Nat /\ supers[Chosen].gen \in Nat
    BY <1>1, <1>9
  <2>2. k = Chosen \/ supers[Chosen].gen > supers[k].gen \/ supers[Chosen].gen = supers[k].gen
    BY <1>9
  <2> QED
    BY <2>1, <2>2
<1> HIDE DEF T, M
<1> QED
  BY <1>9, <1>10

-----------------------------------------------------------------------------
\* Blocks are written.

\* What a tree's blocks written to some of their places leave on the disk.
LEMMA PutFacts ==
    ASSUME DiskOK, NEW tree, Laid(tree), NEW dirty \in SUBSET Blocks,
           NEW places \in SUBSET Places(tree, dirty), Put(tree, places)
    PROVE  /\ DOMAIN disk' = Addresses /\ \A a \in Addresses : DOMAIN disk'[a] = 1..Copies
           /\ \A a \in Addresses, c \in 1..Copies :
                 \/ <<a, c>> \notin places /\ disk'[a][c] = disk[a][c]
                 \/ \E n \in dirty : tree[n].at = a /\ disk'[a][c] = BlockOf(tree, n)
<1>1. disk' = [a \in Addresses |-> [c \in 1..Copies |->
                 IF <<a, c>> \in places
                 THEN BlockOf(tree, CHOOSE n \in Blocks : tree[n].at = a) ELSE disk[a][c]]]
  BY DEF Put
<1>2. ASSUME NEW a \in Addresses, NEW c \in 1..Copies, <<a, c>> \in places
      PROVE  \E n \in dirty : tree[n].at = a /\ disk'[a][c] = BlockOf(tree, n)
  <2>1. PICK n \in dirty : tree[n].at = a
    BY <1>2 DEF Places
  <2>2. (CHOOSE m \in Blocks : tree[m].at = a) = n
    BY <2>1 DEF Laid
  <2> QED
    BY <1>1, <1>2, <2>1, <2>2
<1>3. ASSUME NEW a \in Addresses, NEW c \in 1..Copies, <<a, c>> \notin places
      PROVE  disk'[a][c] = disk[a][c]
  BY <1>1, <1>3
<1>4. DOMAIN disk' = Addresses /\ \A a \in Addresses : DOMAIN disk'[a] = 1..Copies
  BY <1>1
<1> QED
  BY <1>2, <1>3, <1>4

\* The trees a transaction may leave.
LEMMA TreesFacts ==
    ASSUME DriverOK, NEW dirty \in SUBSET Blocks, Rewrites(dirty), NEW tree \in Trees(dirty)
    PROVE  /\ Laid(tree) /\ tree[Roots].gen = live[Roots].gen + 1 /\ live[Roots].gen \in Nat
           /\ \A n \in dirty : tree[n].gen = live[Roots].gen + 1
           /\ \A n \in Blocks \ dirty : tree[n] = live[n]
<1>1. PICK at \in [dirty -> Free] :
         /\ \A m, n \in dirty : m # n => at[m] # at[n]
         /\ tree = [n \in Blocks |-> IF n \in dirty
                       THEN [at |-> at[n], gen |-> live[Roots].gen + 1, epoch |-> begun + 1]
                       ELSE live[n]]
  BY DEF Trees
<1>2. /\ live \in [Blocks -> [at : Addresses, gen : Nat, epoch : Nat]] /\ begun \in Nat
      /\ Roots \in Blocks /\ Roots \in dirty /\ live[Roots].gen \in Nat
      /\ \A m, n \in Blocks : m # n => live[m].at # live[n].at
      /\ \A n \in Blocks : live[n].gen <= live[Roots].gen
  BY TreesAssumption DEF DriverOK, Laid, Rewrites
<1>3. \A n \in dirty : at[n] \in Addresses /\ \A m \in Blocks : at[n] # live[m].at
  BY <1>1 DEF Free
<1>4. tree \in [Blocks -> [at : Addresses, gen : Nat, epoch : Nat]]
  <2>1. ASSUME NEW n \in Blocks PROVE tree[n] \in [at : Addresses, gen : Nat, epoch : Nat]
    <3>1. CASE n \in dirty
      BY <3>1, <1>1, <1>2, <1>3
    <3>2. CASE n \notin dirty
      BY <3>2, <1>1, <1>2
    <3> QED
      BY <3>1, <3>2
  <2> QED
    BY <2>1, <1>1
<1>5. ASSUME NEW m \in Blocks, NEW n \in Blocks, m # n PROVE tree[m].at # tree[n].at
  BY <1>1, <1>2, <1>3, <1>5
<1>6. /\ \A n \in dirty : tree[n].gen = live[Roots].gen + 1
      /\ \A n \in Blocks \ dirty : tree[n] = live[n]
  BY <1>1
<1>7. \A n \in Blocks : tree[n].gen <= tree[Roots].gen
  <2>1. ASSUME NEW n \in Blocks PROVE tree[n].gen <= tree[Roots].gen
    <3>1. tree[Roots].gen = live[Roots].gen + 1
      BY <1>2, <1>6
    <3>2. CASE n \in dirty
      BY <3>1, <3>2, <1>2, <1>6
    <3>3. CASE n \notin dirty
      <4>1. tree[n].gen = live[n].gen /\ live[n].gen \in Nat /\ live[n].gen <= live[Roots].gen
        BY <3>3, <1>2, <1>6
      <4> QED
        BY <4>1, <3>1, <1>2
    <3> QED
      BY <3>2, <3>3
  <2> QED
    BY <2>1
<1> QED
  BY <1>2, <1>4, <1>5, <1>6, <1>7 DEF Laid

\* A block that is not rewritten leads where it did.
LEMMA SameBlock ==
    ASSUME DriverOK, NEW dirty \in SUBSET Blocks, Rewrites(dirty), NEW tree \in Trees(dirty),
           NEW n \in Blocks \ dirty
    PROVE  BlockOf(tree, n) = BlockOf(live, n)
<1>1. tree[n] = live[n] /\ \A m \in Blocks \ dirty : tree[m] = live[m]
  BY TreesFacts
<1>2. Below[n] \in Seq(Blocks)
  BY TreesAssumption
<1>3. ASSUME NEW i \in 1..Len(Below[n]) PROVE Below[n][i] \in Blocks \ dirty
  <2>1. Below[n][i] \in Set(Below[n]) /\ Below[n][i] \in Blocks
    BY <1>2 DEF Set
  <2> QED
    BY <2>1 DEF Rewrites
<1>4. Pointers(tree, n) = Pointers(live, n)
  BY <1>1, <1>3 DEF Pointers, Pointer
<1> QED
  BY <1>1, <1>4 DEF BlockOf

\* Blocks of a later transaction do not pass for an earlier one's.
LEMMA LaterIsTold ==
    ASSUME DiskOK, DriverOK, NEW tree, Laid(tree), NEW dirty \in SUBSET Blocks,
           \A n \in dirty : tree[n].gen = live[Roots].gen + 1,
           NEW places \in SUBSET Places(tree, dirty), Put(tree, places),
           NEW old, Laid(old), Told(OnDisk, old), old[Roots].gen <= live[Roots].gen
    PROVE  Told(OnDisk', old)
<1> SUFFICES ASSUME NEW a \in Addresses, NEW c \in 1..Copies, NEW n \in Blocks,
                    Verifies(disk'[a][c], Pointer(old, n))
             PROVE  disk'[a][c] = BlockOf(old, n)
  BY DEF Told, OnDisk
<1>1. CASE disk'[a][c] = disk[a][c]
  BY <1>1 DEF Told, OnDisk
<1>2. CASE \E m \in dirty : tree[m].at = a /\ disk'[a][c] = BlockOf(tree, m)
  <2>1. PICK m \in dirty : disk'[a][c] = BlockOf(tree, m)
    BY <1>2
  <2>6. BlockOf(tree, m).gen = tree[m].gen
    BY BlockFacts
  <2>5. disk'[a][c].gen = tree[m].gen
    BY <2>1, <2>6
  <2>2. disk'[a][c].gen = live[Roots].gen + 1
    BY <2>5
  <2>3. disk'[a][c].gen = old[n].gen
    BY BlockFacts DEF Verifies
  <2>4. old[n].gen \in Nat /\ old[n].gen <= old[Roots].gen /\ old[Roots].gen \in Nat /\ live[Roots].gen \in Nat
    BY LaidFacts DEF DriverOK
  <2> QED
    BY <2>2, <2>3, <2>4
<1> QED
  BY <1>1, <1>2, PutFacts

\* What is on the disk stays of a transaction that began.
LEMMA WritingIsDated ==
    ASSUME DiskOK, DriverOK, power = "on", NEW tree, Laid(tree), NEW dirty \in SUBSET Blocks,
           \A n \in dirty : tree[n].gen = live[Roots].gen + 1,
           NEW places \in SUBSET Places(tree, dirty), Put(tree, places), begun' = begun + 1
    PROVE  DiskOK'
<1>1. DOMAIN disk' = Addresses /\ \A a \in Addresses : DOMAIN disk'[a] = 1..Copies
  BY PutFacts
<1>2. live[Roots].gen \in Nat /\ live[Roots].gen <= begun /\ begun \in Nat
  BY LaidFacts, TreesAssumption DEF DriverOK
<1>3. ASSUME NEW a \in Addresses, NEW c \in 1..Copies
      PROVE  /\ disk'[a][c].sound = FALSE \/ (disk'[a][c].sound = TRUE /\ disk'[a][c].gen \in 0..(begun + 1))
             /\ disk'[a][c].sound => disk'[a][c].at = a
  <2>1. CASE disk'[a][c] = disk[a][c]
    BY <2>1, <1>2 DEF DiskOK, OnDisk
  <2>2. CASE \E m \in dirty : tree[m].at = a /\ disk'[a][c] = BlockOf(tree, m)
    <3>1. PICK m \in dirty : tree[m].at = a /\ disk'[a][c] = BlockOf(tree, m)
      BY <2>2
    <3>4. BlockOf(tree, m).sound = TRUE /\ BlockOf(tree, m).at = tree[m].at /\ BlockOf(tree, m).gen = tree[m].gen
      BY BlockFacts
    <3>2. disk'[a][c].sound = TRUE /\ disk'[a][c].at = a /\ disk'[a][c].gen = tree[m].gen
      BY <3>1, <3>4
    <3>3. disk'[a][c].gen \in 0..(begun + 1)
      BY <3>2, <1>2
    <3> QED
      BY <3>2, <3>3
  <2>3. \/ disk'[a][c] = disk[a][c]
        \/ \E n \in dirty : tree[n].at = a /\ disk'[a][c] = BlockOf(tree, n)
    BY PutFacts
  <2> QED
    BY <2>1, <2>2, <2>3
<1>4. \A block \in OnDisk' :
         block.sound = FALSE \/ (block.sound = TRUE /\ block.gen \in 0..begun')
  <2>1. ASSUME NEW block \in OnDisk'
        PROVE  block.sound = FALSE \/ (block.sound = TRUE /\ block.gen \in 0..(begun + 1))
    <3>1. PICK a \in Addresses, c \in 1..Copies : block = disk'[a][c]
      BY <2>1 DEF OnDisk
    <3> QED
      BY <3>1, <1>3
  <2> QED
    BY <2>1
<1>5. \A a \in Addresses, c \in 1..Copies : disk'[a][c].sound => disk'[a][c].at = a
  BY <1>3
<1> QED
  BY <1>1, <1>4, <1>5 DEF DiskOK

\* As long as nothing is read, nothing was answered.
LEMMA QuietKeeps ==
    ASSUME ReadingOK, reader = Closed, answers["strict"] = Unread, UNCHANGED asked
    PROVE  ReadingOK'
<1>1. reader' = reader /\ answers' = answers /\ answers["lenient"] = Unread /\ DOMAIN answers = Policies
  BY DEF ReadingOK, asked
<1>2. \A policy \in Policies : answers[policy] = Unread
  BY <1>1 DEF Policies
<1>3. \A policy \in Policies : answers'[policy].outcome # "read"
  BY <1>1, <1>2 DEF Unread
<1>4. /\ reader'.pc = "closed" /\ reader'.policy = "none" /\ reader'.cache = << >> /\ reader'.got = {}
      /\ DOMAIN reader' = DOMAIN Closed
  BY <1>1 DEF Closed, Empty
<1> QED
  BY <1>1, <1>3, <1>4 DEF ReadingOK, Opened

-----------------------------------------------------------------------------
\* The driver's steps.

LEMMA BeginIsTold ==
    ASSUME CommitInv, Begin
    PROVE  CommitInv'
<1>1. /\ power = "on" /\ next = live /\ begun' = begun + 1 /\ written' = 0 /\ supers' = supers
      /\ power' = power /\ live' = live /\ UNCHANGED asked
      /\ DriverOK /\ SupersOK /\ DiskOK /\ Apart /\ ReadingOK
  BY DEF Begin, Writing, CommitInv
<1>2. PICK dirty \in SUBSET Blocks : Rewrites(dirty) /\
       \E tree \in Trees(dirty) :
       \E gone \in {{}} \cup {{place} : place \in Places(tree, dirty)} :
          /\ next' = tree
          /\ Put(tree, Places(tree, dirty) \ gone)
          /\ faults' = faults + Cardinality(gone) /\ lost' = (lost \/ gone # {})
          /\ rewound' = (rewound \/ begun # live[Roots].gen)
  BY DEF Begin
<1>10. PICK tree \in Trees(dirty) :
       \E gone \in {{}} \cup {{place} : place \in Places(tree, dirty)} :
          /\ next' = tree
          /\ Put(tree, Places(tree, dirty) \ gone)
          /\ faults' = faults + Cardinality(gone) /\ lost' = (lost \/ gone # {})
          /\ rewound' = (rewound \/ begun # live[Roots].gen)
  BY <1>2
<1>11. PICK gone \in {{}} \cup {{place} : place \in Places(tree, dirty)} :
          /\ next' = tree
          /\ Put(tree, Places(tree, dirty) \ gone)
          /\ faults' = faults + Cardinality(gone) /\ lost' = (lost \/ gone # {})
          /\ rewound' = (rewound \/ begun # live[Roots].gen)
  BY <1>10
<1>3. /\ tree \in Trees(dirty) /\ gone \in SUBSET Places(tree, dirty)
      /\ gone = {} \/ \E place : gone = {place}
      /\ next' = tree
      /\ Put(tree, Places(tree, dirty) \ gone)
      /\ faults' = faults + Cardinality(gone) /\ lost' = (lost \/ gone # {})
      /\ rewound' = (rewound \/ begun # live[Roots].gen)
  BY <1>10, <1>11
<1> DEFINE places == Places(tree, dirty) \ gone
<1>4. /\ Laid(tree) /\ tree[Roots].gen = live[Roots].gen + 1 /\ live[Roots].gen \in Nat
      /\ \A n \in dirty : tree[n].gen = live[Roots].gen + 1
      /\ \A n \in Blocks \ dirty : tree[n] = live[n]
  BY <1>1, <1>2, TreesFacts
<1>5. DriverOK'
  <2>1. Cardinality(gone) \in Nat
    <3>1. IsFiniteSet(gone)
      BY <1>3, FS_EmptySet, FS_Singleton
    <3> QED
      BY <3>1, FS_CardinalityType
  <2>2. begun' \in Nat /\ written' \in Nat /\ faults' \in Nat /\ rewound' \in BOOLEAN /\ lost' \in BOOLEAN
    BY <2>1, <1>1, <1>3 DEF DriverOK
  <2>3. live'[Roots].gen <= begun' /\ next'[Roots].gen <= begun'
    BY <1>1, <1>3, <1>4 DEF DriverOK
  <2>4. Laid(live') /\ Laid(next')
    BY <1>1, <1>3, <1>4 DEF DriverOK
  <2> QED
    BY <2>2, <2>3, <2>4, <1>1 DEF DriverOK, asked, Laid
<1>6. SupersOK'
  <2>1. Whole' = Whole
    BY <1>1 DEF Whole
  <2>2. \A m \in Whole : Laid(supers[m].of) /\ supers[m].gen \in Nat /\ supers[m].gen <= begun
                         /\ supers[m].gen <= live[Roots].gen /\ supers[m].gen = supers[m].of[Roots].gen
    BY <1>1, LaidFacts, TreesAssumption DEF SupersOK
  <2>3. \A m \in Whole : supers[m].gen <= begun' /\ supers[m].gen <= next'[Roots].gen
    BY <2>2, <1>1, <1>3, <1>4 DEF DriverOK
  <2>4. faults' = 0 => faults = 0
    <3>1. IsFiniteSet(gone)
      BY <1>3, FS_EmptySet, FS_Singleton
    <3>2. Cardinality(gone) \in Nat
      BY <3>1, FS_CardinalityType
    <3> QED
      BY <3>2, <1>1, <1>3 DEF DriverOK
  <2> QED
    BY <2>1, <2>2, <2>3, <2>4, <1>1 DEF SupersOK, Laid
<1>7. DiskOK'
  BY <1>1, <1>2, <1>3, <1>4, WritingIsDated
<1>8. Apart'
  <2> SUFFICES ASSUME ToldApart'
               PROVE  /\ Told(OnDisk', live) /\ Told(OnDisk', tree)
                      /\ \A m \in Whole : Told(OnDisk', supers[m].of)
    BY <1>1, <1>3 DEF Apart, Whole, Told
  <2>1. ToldApart
    BY <1>3 DEF ToldApart
  <2>2. Told(OnDisk, live) /\ \A m \in Whole : Told(OnDisk, supers[m].of)
    BY <2>1, <1>1 DEF Apart
  <2>3. Told(OnDisk', live)
    <3>1. Laid(live) /\ live[Roots].gen <= live[Roots].gen
      BY <1>1, <1>4 DEF DriverOK
    <3> QED
      BY <3>1, <2>2, <1>1, <1>2, <1>3, <1>4, LaterIsTold
  <2>4. ASSUME NEW m \in Whole PROVE Told(OnDisk', supers[m].of)
    <3>1. Laid(supers[m].of) /\ supers[m].of[Roots].gen <= live[Roots].gen
      BY <1>1 DEF SupersOK
    <3> QED
      BY <3>1, <2>2, <1>1, <1>2, <1>3, <1>4, LaterIsTold
  <2>5. ASSUME NEW a \in Addresses, NEW c \in 1..Copies, NEW n \in Blocks,
               Verifies(disk'[a][c], Pointer(tree, n))
        PROVE  disk'[a][c] = BlockOf(tree, n)
    <3>1. /\ disk'[a][c].sound /\ disk'[a][c].at = tree[n].at /\ disk'[a][c].gen = tree[n].gen
      BY <2>5, BlockFacts DEF Verifies
    <3>2. ASSUME NEW k \in dirty, disk'[a][c] = BlockOf(tree, k) PROVE disk'[a][c] = BlockOf(tree, n)
      <4>3. BlockOf(tree, k).at = tree[k].at
        BY BlockFacts
      <4>1. tree[k].at = tree[n].at
        BY <3>1, <3>2, <4>3
      <4>2. k = n
        BY <4>1, <1>4 DEF Laid
      <4> QED
        BY <3>2, <4>2
    <3>3. ASSUME <<a, c>> \notin places, disk'[a][c] = disk[a][c] PROVE disk'[a][c] = BlockOf(tree, n)
      <4>1. CASE n \notin dirty
        <5>3. tree[n] = live[n] /\ Pointer(live, n).at = live[n].at /\ Pointer(live, n).gen = live[n].gen
          BY <4>1, <1>4, BlockFacts
        <5>1. Verifies(disk[a][c], Pointer(live, n))
          BY <5>3, <3>1, <3>3 DEF Verifies
        <5>2. disk[a][c] = BlockOf(live, n)
          BY <5>1, <2>2 DEF Told, OnDisk
        <5> QED
          BY <5>2, <4>1, <3>3, <1>1, <1>2, SameBlock
      <4>2. CASE n \in dirty
        <5>1. disk[a][c].gen = live[Roots].gen + 1 /\ disk[a][c].sound = TRUE /\ disk[a][c].gen \in 0..begun
              /\ disk[a][c].at = a
          BY <4>2, <3>1, <3>3, <1>1, <1>4 DEF DiskOK, OnDisk
        <5>2. begun # live[Roots].gen
          BY <5>1, <1>1, <1>4 DEF DriverOK
        <5>3. gone = {}
          BY <5>2, <1>1, <1>3 DEF ToldApart, DriverOK
        <5>4. <<a, c>> \in Places(tree, dirty)
          BY <4>2, <3>1, <3>3, <5>1 DEF Places
        <5> QED
          BY <5>3, <5>4, <3>3
      <4> QED
        BY <4>1, <4>2
    <3> QED
      BY <3>2, <3>3, <1>1, <1>2, <1>3, <1>4, PutFacts
  <2>6. Told(OnDisk', tree)
    BY <2>5 DEF Told, OnDisk
  <2> QED
    BY <2>3, <2>4, <2>6
<1>9. ReadingOK'
  BY <1>1, QuietKeeps DEF DriverOK
<1> QED
  BY <1>5, <1>6, <1>7, <1>8, <1>9 DEF CommitInv

LEMMA LoseBlocksIsTold ==
    ASSUME CommitInv, LoseBlocks
    PROVE  CommitInv'
<1>1. /\ power = "on" /\ next = live /\ begun' = begun + 1 /\ supers' = supers /\ power' = "off"
      /\ live' = live /\ next' = next /\ written' = written /\ lost' = lost /\ faults' = faults
      /\ rewound' = (rewound \/ begun # live[Roots].gen) /\ UNCHANGED asked
      /\ DriverOK /\ SupersOK /\ DiskOK /\ Apart /\ ReadingOK
  BY DEF LoseBlocks, Writing, CommitInv
<1>2. PICK dirty \in SUBSET Blocks : Rewrites(dirty) /\
       \E tree \in Trees(dirty) : \E some \in SUBSET Places(tree, dirty) : Put(tree, some)
  BY DEF LoseBlocks
<1>3. PICK tree \in Trees(dirty) : \E some \in SUBSET Places(tree, dirty) : Put(tree, some)
  BY <1>2
<1>4. PICK some \in SUBSET Places(tree, dirty) : Put(tree, some)
  BY <1>3
<1>5. /\ Laid(tree) /\ tree[Roots].gen = live[Roots].gen + 1 /\ live[Roots].gen \in Nat
      /\ \A n \in dirty : tree[n].gen = live[Roots].gen + 1
  BY <1>1, <1>2, TreesFacts
<1>6. DriverOK'
  <2>1. live'[Roots].gen <= begun' /\ next'[Roots].gen <= begun' /\ begun' \in Nat
    BY <1>1, <1>5 DEF DriverOK
  <2>2. Laid(live') /\ Laid(next')
    BY <1>1 DEF DriverOK
  <2> QED
    BY <2>1, <2>2, <1>1 DEF DriverOK, Laid
<1>7. SupersOK'
  <2>1. Whole' = Whole
    BY <1>1 DEF Whole
  <2>2. \A m \in Whole : Laid(supers[m].of) /\ supers[m].gen \in Nat /\ supers[m].gen <= begun
                         /\ supers[m].gen = supers[m].of[Roots].gen
    BY <1>1, LaidFacts, TreesAssumption DEF SupersOK
  <2>3. \A m \in Whole : supers[m].gen <= begun'
    BY <2>2, <1>1 DEF DriverOK
  <2> QED
    BY <2>1, <2>2, <2>3, <1>1 DEF SupersOK, Laid
<1>8. DiskOK'
  BY <1>1, <1>4, <1>5, WritingIsDated
<1>9. Apart'
  <2> SUFFICES ASSUME ToldApart'
               PROVE  /\ Told(OnDisk', live)
                      /\ \A m \in Whole : Told(OnDisk', supers[m].of)
    BY <1>1 DEF Apart, Whole, Told
  <2>1. ToldApart
    BY <1>1 DEF ToldApart
  <2>2. Told(OnDisk, live) /\ \A m \in Whole : Told(OnDisk, supers[m].of)
    BY <2>1, <1>1 DEF Apart
  <2>3. Told(OnDisk', live)
    <3>1. Laid(live) /\ live[Roots].gen <= live[Roots].gen
      BY <1>1, <1>5 DEF DriverOK
    <3> QED
      BY <3>1, <2>2, <1>1, <1>4, <1>5, LaterIsTold
  <2>4. ASSUME NEW m \in Whole PROVE Told(OnDisk', supers[m].of)
    <3>1. Laid(supers[m].of) /\ supers[m].of[Roots].gen <= live[Roots].gen
      BY <1>1 DEF SupersOK
    <3> QED
      BY <3>1, <2>2, <1>1, <1>4, <1>5, LaterIsTold
  <2> QED
    BY <2>3, <2>4
<1>10. ReadingOK'
  BY <1>1, QuietKeeps DEF DriverOK
<1> QED
  BY <1>6, <1>7, <1>8, <1>9, <1>10 DEF CommitInv

LEMMA SuperFacts ==
    ASSUME NEW tree
    PROVE  /\ Super(tree).state = "whole" /\ Super(tree).gen = tree[Roots].gen /\ Super(tree).of = tree
           /\ DOMAIN Super(tree) = {"state", "gen", "root", "of"}
  BY DEF Super

LEMMA WriteSuperIsTold ==
    ASSUME CommitInv, WriteSuper
    PROVE  CommitInv'
<1>1. /\ power = "on" /\ power' = power /\ written' = written + 1 /\ begun' = begun /\ rewound' = rewound
      /\ next' = next /\ live' \in {live, next} /\ disk' = disk /\ UNCHANGED asked
      /\ written + 1 \in 1..Mirrors /\ written + 1 \in Nat
      /\ \/ supers' = [supers EXCEPT ![written + 1] = Super(next)] /\ faults' = faults /\ lost' = lost
         \/ faults' = faults + 1 /\ lost' = TRUE /\ supers' = supers
      /\ DriverOK /\ SupersOK /\ DiskOK /\ Apart /\ ReadingOK
  BY VolumeAssumption DEF WriteSuper, CommitInv, DriverOK
<1>2. DriverOK'
  <2>1. Laid(live') /\ Laid(next') /\ live'[Roots].gen <= begun' /\ next'[Roots].gen <= begun'
    BY <1>1 DEF DriverOK
  <2>2. begun' \in Nat /\ written' \in Nat /\ faults' \in Nat
    BY <1>1 DEF DriverOK
  <2>3. rewound' \in BOOLEAN /\ lost' \in BOOLEAN
    BY <1>1, Zenon DEF DriverOK
  <2> QED
    BY <2>1, <2>2, <2>3, <1>1 DEF DriverOK, Laid, asked
<1>3. ASSUME NEW m \in Whole'
      PROVE  \/ m \in Whole /\ supers'[m] = supers[m]
             \/ supers'[m] = Super(next)
  BY <1>1, <1>3 DEF Whole, SupersOK
<1>4. ASSUME NEW m \in Whole PROVE m \in Whole'
  <2>1. Super(next).state = "whole"
    BY SuperFacts
  <2>2. m \in 1..Mirrors /\ supers[m].state = "whole" /\ DOMAIN supers = 1..Mirrors
    BY <1>1 DEF Whole, SupersOK
  <2>3. supers'[m].state = "whole"
    BY <1>1, <2>1, <2>2
  <2> QED
    BY <2>2, <2>3 DEF Whole
<1>5. SupersOK'
  <2>1. DOMAIN supers' = 1..Mirrors
    BY <1>1 DEF SupersOK
  <2>2. ASSUME NEW m \in Whole'
        PROVE  /\ Laid(supers'[m].of) /\ supers'[m].gen = supers'[m].of[Roots].gen
               /\ supers'[m].gen <= begun' /\ DOMAIN supers'[m] = {"state", "gen", "root", "of"}
               /\ supers'[m].gen <= next'[Roots].gen
    <3>1. CASE m \in Whole /\ supers'[m] = supers[m]
      BY <3>1, <1>1 DEF SupersOK
    <3>2. CASE supers'[m] = Super(next)
      <4>1. Laid(next) /\ next[Roots].gen <= begun /\ next[Roots].gen \in Nat
        BY <1>1, LaidFacts, TreesAssumption DEF DriverOK
      <4> QED
        BY <3>2, <4>1, <1>1, SuperFacts
    <3> QED
      BY <1>3, <3>1, <3>2
  <2>3. faults' = 0 => 1 \in Whole'
    BY <1>1, <1>4 DEF SupersOK, DriverOK
  <2> QED
    BY <2>1, <2>2, <2>3 DEF SupersOK, Laid
<1>6. DiskOK'
  <2>1. OnDisk' = OnDisk /\ (faults' = 0 => faults = 0)
    BY <1>1 DEF OnDisk, DriverOK
  <2> QED
    BY <2>1, <1>1 DEF DiskOK
<1>7. Apart'
  <2> SUFFICES ASSUME ToldApart'
               PROVE  /\ Told(OnDisk, live') /\ Told(OnDisk, next)
                      /\ \A m \in Whole' : Told(OnDisk, supers'[m].of)
    BY <1>1 DEF Apart, Told, OnDisk
  <2>1. ToldApart
    BY <1>1 DEF ToldApart
  <2>2. Told(OnDisk, live) /\ Told(OnDisk, next) /\ \A m \in Whole : Told(OnDisk, supers[m].of)
    BY <2>1, <1>1 DEF Apart
  <2>3. ASSUME NEW m \in Whole' PROVE Told(OnDisk, supers'[m].of)
    <3>1. CASE m \in Whole /\ supers'[m] = supers[m]
      BY <3>1, <2>2
    <3>2. CASE supers'[m] = Super(next)
      <4>1. supers'[m].of = next
        BY <3>2, SuperFacts
      <4> QED
        BY <4>1, <2>2
    <3> QED
      BY <1>3, <3>1, <3>2
  <2> QED
    BY <2>2, <2>3, <1>1
<1>8. ReadingOK'
  BY <1>1, QuietKeeps DEF DriverOK
<1> QED
  BY <1>2, <1>5, <1>6, <1>7, <1>8 DEF CommitInv

LEMMA StopIsTold ==
    ASSUME CommitInv, Stop
    PROVE  CommitInv'
<1>1. /\ power = "on" /\ power' = "off" /\ UNCHANGED <<image, asked, live, next, written, begun, rewound, lost, faults>>
      /\ DriverOK /\ SupersOK /\ DiskOK /\ Apart /\ ReadingOK
  BY DEF Stop, CommitInv
<1>2. supers' = supers /\ disk' = disk /\ Whole' = Whole /\ OnDisk' = OnDisk
  BY <1>1 DEF image, Whole, OnDisk
<1>3. DriverOK'
  BY <1>1 DEF DriverOK, Laid
<1>4. SupersOK'
  BY <1>1, <1>2 DEF SupersOK, Laid
<1>5. DiskOK'
  BY <1>1, <1>2 DEF DiskOK
<1>6. Apart'
  BY <1>1, <1>2 DEF Apart, Told, ToldApart
<1>7. ReadingOK'
  BY <1>1, QuietKeeps DEF DriverOK
<1> QED
  BY <1>3, <1>4, <1>5, <1>6, <1>7 DEF CommitInv

LEMMA MountIsTold ==
    ASSUME CommitInv, Mount
    PROVE  CommitInv'
<1>1. /\ power = "off" /\ power' = "on" /\ reader = Closed /\ answers["strict"] = Unread
      /\ begun \in Nat /\ faults = 0
      /\ live' = supers[Chosen].of /\ next' = live' /\ written' = 0
      /\ UNCHANGED <<image, asked, begun, rewound, lost, faults>>
      /\ DriverOK /\ SupersOK /\ DiskOK /\ Apart /\ ReadingOK
  BY DEF Mount, CommitInv, DriverOK
<1>2. supers' = supers /\ disk' = disk /\ Whole' = Whole /\ OnDisk' = OnDisk
      /\ reader' = reader /\ answers' = answers
  BY <1>1 DEF image, Whole, OnDisk, asked
<1>3. Chosen \in Whole /\ \A k \in Whole : supers[k].gen <= supers[Chosen].gen
  <2>1. Whole # {}
    BY <1>1 DEF SupersOK
  <2> QED
    BY <2>1, <1>1, ChosenFacts
<1>4. /\ Laid(supers[Chosen].of) /\ supers[Chosen].gen = supers[Chosen].of[Roots].gen
      /\ supers[Chosen].gen <= begun
  BY <1>1, <1>3 DEF SupersOK
<1>5. DriverOK'
  <2>1. Laid(live') /\ Laid(next') /\ live'[Roots].gen <= begun' /\ next'[Roots].gen <= begun'
    BY <1>1, <1>4
  <2> QED
    BY <2>1, <1>1, <1>2 DEF DriverOK, Laid
<1>6. SupersOK'
  <2>1. \A m \in Whole : supers[m].gen <= next'[Roots].gen
    BY <1>1, <1>3, <1>4
  <2> QED
    BY <2>1, <1>1, <1>2 DEF SupersOK, Laid
<1>7. DiskOK'
  BY <1>1, <1>2 DEF DiskOK
<1>8. Apart'
  <2>1. ToldApart' = ToldApart
    BY <1>1 DEF ToldApart
  <2>2. ToldApart => Told(OnDisk, live')
    BY <1>1, <1>3 DEF Apart
  <2> QED
    BY <2>1, <2>2, <1>1, <1>2 DEF Apart, Told
<1>9. ReadingOK'
  BY <1>1, QuietKeeps
<1> QED
  BY <1>5, <1>6, <1>7, <1>8, <1>9 DEF CommitInv

-----------------------------------------------------------------------------
\* Damage.

\* What goes bad passes for nothing.
LEMMA BlankIsNone ==
    ASSUME NEW blocks, NEW tree, Told(blocks, tree),
           NEW more, \A block \in more : block \in blocks \/ block.sound = FALSE
    PROVE  Told(more, tree)
  BY DEF Told, Verifies

\* A copy of the superblock that still passes is of what it was.
LEMMA SpoiledSupers ==
    ASSUME SupersOK, SpoilSuper, NEW k \in Whole'
    PROVE  /\ k \in Whole /\ supers'[k].of = supers[k].of /\ supers'[k].gen = supers[k].gen
           /\ DOMAIN supers'[k] = DOMAIN supers[k]
<1>1. PICK m \in 1..Room :
          supers' \in {[supers EXCEPT ![m] = BadSuper]}
                 \cup {[supers EXCEPT ![m] = [@ EXCEPT !.root.at = a]] :
                          a \in IF m > 1 /\ m \in Whole THEN Addresses \ {supers[m].root.at} ELSE {}}
  BY DEF SpoilSuper
<1>2. k \in 1..Mirrors /\ supers'[k].state = "whole" /\ DOMAIN supers = 1..Mirrors
  BY DEF Whole, SupersOK
<1>3. CASE k # m
  <2>1. supers'[k] = supers[k]
    BY <1>1, <1>2, <1>3
  <2> QED
    BY <1>2, <2>1 DEF Whole
<1>4. CASE k = m
  <2>1. supers' # [supers EXCEPT ![m] = BadSuper]
    <3>1. SUFFICES ASSUME supers' = [supers EXCEPT ![m] = BadSuper] PROVE FALSE
      OBVIOUS
    <3>2. supers'[m] = BadSuper
      BY <3>1, <1>2, <1>4
    <3>3. BadSuper.state # "whole"
      BY DEF BadSuper
    <3> QED
      BY <3>2, <3>3, <1>2, <1>4
  <2>2. m \in Whole /\ \E a \in Addresses : supers' = [supers EXCEPT ![m] = [@ EXCEPT !.root.at = a]]
    BY <2>1, <1>1
  <2>3. PICK a \in Addresses : supers' = [supers EXCEPT ![m] = [@ EXCEPT !.root.at = a]]
    BY <2>2
  <2>4. supers'[m] = [supers[m] EXCEPT !.root.at = a] /\ DOMAIN supers[m] = {"state", "gen", "root", "of"}
    BY <1>2, <2>2, <2>3 DEF SupersOK, Whole
  <2> QED
    BY <1>4, <2>2, <2>4
<1> QED
  BY <1>3, <1>4

LEMMA SpoilSuperIsTold ==
    ASSUME CommitInv, SpoilSuper
    PROVE  CommitInv'
<1>1. /\ power = "off" /\ power' = power /\ reader = Closed /\ answers["strict"] = Unread /\ faults' = faults + 1
      /\ UNCHANGED <<disk, asked, power, live, next, written, begun, rewound, lost>>
      /\ DriverOK /\ SupersOK /\ DiskOK /\ Apart /\ ReadingOK
  BY DEF SpoilSuper, Untouched, CommitInv
<1>2. PICK m \in 1..Room :
          supers' \in {[supers EXCEPT ![m] = BadSuper]}
                 \cup {[supers EXCEPT ![m] = [@ EXCEPT !.root.at = a]] :
                          a \in IF m > 1 /\ m \in Whole THEN Addresses \ {supers[m].root.at} ELSE {}}
  BY DEF SpoilSuper
<1>3. OnDisk' = OnDisk /\ DOMAIN supers' = 1..Mirrors /\ disk' = disk /\ faults' # 0 /\ faults' \in Nat
  BY <1>1, <1>2 DEF OnDisk, SupersOK, DriverOK
<1>4. ASSUME NEW k \in Whole'
      PROVE  /\ k \in Whole /\ supers'[k].of = supers[k].of /\ supers'[k].gen = supers[k].gen
             /\ DOMAIN supers'[k] = DOMAIN supers[k]
  BY <1>1, <1>4, SpoiledSupers
<1>5. DriverOK'
  <2>1. rewound' \in BOOLEAN /\ lost' \in BOOLEAN
    BY <1>1, Zenon DEF DriverOK
  <2> QED
    BY <2>1, <1>1, <1>3 DEF DriverOK, Laid
<1>6. SupersOK'
  <2>1. ASSUME NEW k \in Whole'
        PROVE  /\ Laid(supers'[k].of) /\ supers'[k].gen = supers'[k].of[Roots].gen
               /\ supers'[k].gen <= begun' /\ DOMAIN supers'[k] = {"state", "gen", "root", "of"}
    BY <1>1, <1>4 DEF SupersOK
  <2> QED
    BY <2>1, <1>1, <1>3 DEF SupersOK, Laid
<1>7. DiskOK'
  BY <1>1, <1>3 DEF DiskOK
<1>8. Apart'
  BY <1>1, <1>3, <1>4 DEF Apart, Told, ToldApart
<1>9. ReadingOK'
  BY <1>1, QuietKeeps
<1> QED
  BY <1>5, <1>6, <1>7, <1>8, <1>9 DEF CommitInv

LEMMA SpoilBlockIsTold ==
    ASSUME CommitInv, SpoilBlock
    PROVE  CommitInv'
<1>1. /\ power = "off" /\ power' = power /\ reader = Closed /\ answers["strict"] = Unread /\ faults' = faults + 1
      /\ UNCHANGED <<supers, asked, power, live, next, written, begun, rewound, lost>>
      /\ DriverOK /\ SupersOK /\ DiskOK /\ Apart /\ ReadingOK
  BY DEF SpoilBlock, Untouched, CommitInv
<1>2. PICK n \in Blocks, tree \in {live, next}, c \in 1..Copies :
       \E a \in {tree[n].at} : \E block \in {Blank} \cup {disk[tree[m].at][c] : m \in Blocks \ {n}} :
          disk[a][c].sound /\ disk' = [disk EXCEPT ![a][c] = block]
  BY DEF SpoilBlock
<1>3. \A m \in Blocks : tree[m].at \in Addresses
  BY <1>1, <1>2, LaidFacts DEF DriverOK
<1>14. PICK block \in {Blank} \cup {disk[tree[m].at][c] : m \in Blocks \ {n}} :
          disk' = [disk EXCEPT ![tree[n].at][c] = block]
  BY <1>2
<1>15. \A m \in Blocks : disk[tree[m].at][c] \in OnDisk
  BY <1>3 DEF OnDisk
<1>4. block \in OnDisk \cup {Blank} /\ disk' = [disk EXCEPT ![tree[n].at][c] = block]
  BY <1>14, <1>15
<1>5. Blank.sound = FALSE
  BY DEF Blank
<1>6. ASSUME NEW a \in Addresses, NEW d \in 1..Copies
      PROVE  disk'[a][d] \in OnDisk \cup {Blank}
  <2>1. DOMAIN disk = Addresses /\ DOMAIN disk[a] = 1..Copies
    BY <1>1 DEF DiskOK
  <2>2. disk'[a][d] = block \/ disk'[a][d] = disk[a][d]
    BY <2>1, <1>3, <1>4
  <2>3. disk[a][d] \in OnDisk
    BY DEF OnDisk
  <2> QED
    BY <2>2, <2>3, <1>4
<1>7. \A x \in OnDisk' : x \in OnDisk \/ x.sound = FALSE
  <2>1. ASSUME NEW x \in OnDisk' PROVE x \in OnDisk \cup {Blank}
    <3>1. PICK a \in Addresses, d \in 1..Copies : x = disk'[a][d]
      BY <2>1 DEF OnDisk
    <3> QED
      BY <3>1, <1>6
  <2> QED
    BY <2>1, <1>5
<1>8. faults' # 0 /\ faults' \in Nat /\ Whole' = Whole
  BY <1>1 DEF DriverOK, Whole
<1>9. DriverOK'
  <2>1. rewound' \in BOOLEAN /\ lost' \in BOOLEAN
    BY <1>1, Zenon DEF DriverOK
  <2> QED
    BY <2>1, <1>1, <1>8 DEF DriverOK, Laid
<1>10. SupersOK'
  BY <1>1, <1>8 DEF SupersOK, Laid
<1>11. DiskOK'
  <2>1. DOMAIN disk' = Addresses /\ \A a \in Addresses : DOMAIN disk'[a] = 1..Copies
    BY <1>1, <1>4 DEF DiskOK
  <2>2. \A x \in OnDisk' : x.sound = FALSE \/ (x.sound = TRUE /\ x.gen \in 0..begun')
    BY <1>1, <1>7 DEF DiskOK
  <2> QED
    BY <2>1, <2>2, <1>1, <1>8 DEF DiskOK
<1>12. Apart'
  <2> SUFFICES ASSUME ToldApart'
               PROVE  /\ Told(OnDisk', live) /\ Told(OnDisk', next)
                      /\ \A m \in Whole : Told(OnDisk', supers[m].of)
    BY <1>1, <1>8 DEF Apart, Told
  <2>1. ToldApart
    BY <1>1 DEF ToldApart
  <2>2. Told(OnDisk, live) /\ Told(OnDisk, next) /\ \A m \in Whole : Told(OnDisk, supers[m].of)
    BY <2>1, <1>1 DEF Apart
  <2> QED
    BY <2>2, <1>7, BlankIsNone
<1>13. ReadingOK'
  BY <1>1, QuietKeeps
<1> QED
  BY <1>9, <1>10, <1>11, <1>12, <1>13 DEF CommitInv

-----------------------------------------------------------------------------
\* The readings.

\* The cache gives what was put in it.
LEMMA GetKeeps ==
    ASSUME NEW V, NEW slots \in Seq(V), NEW key, \E i \in 1..Len(slots) : slots[i].key = key
    PROVE  /\ Get(slots, key) \in Seq(V)
           /\ Slot(slots, key) \in 1..Len(slots) /\ slots[Slot(slots, key)] \in V
<1>1. Slot(slots, key) \in 1..Len(slots)
  BY DEF Slot
<1> DEFINE i == Slot(slots, key)
<1> HIDE DEF i
<1>2. i \in 1..Len(slots) /\ Len(slots) \in Nat
  BY <1>1 DEF i
<1>3. slots[i] \in V
  BY <1>2
<1>4. SubSeq(slots, 1, i - 1) \in Seq(V) /\ SubSeq(slots, i + 1, Len(slots)) \in Seq(V)
  BY <1>2, SubSeqProperties
<1>5. <<slots[i]>> \in Seq(V)
  BY <1>3
<1>6. Get(slots, key) = SubSeq(slots, 1, i - 1) \o SubSeq(slots, i + 1, Len(slots)) \o <<slots[i]>>
  BY DEF Get, i
<1> QED
  BY <1>2, <1>3, <1>4, <1>5, <1>6, ConcatProperties DEF i

LEMMA InsertKeeps ==
    ASSUME NEW Addr, NEW V, NEW slots \in Seq([key : Addr, value : V]), NEW capacity \in Nat,
           NEW key \in Addr, NEW value \in V
    PROVE  Insert(slots, capacity, key, value) \in Seq([key : Addr, value : V])
<1>1. [key |-> key, value |-> value] \in [key : Addr, value : V]
  OBVIOUS
<1>2. ASSUME ~(Len(slots) < capacity), capacity # 0 PROVE Tail(slots) \in Seq([key : Addr, value : V])
  <2>1. slots # << >>
    BY <1>2
  <2> QED
    BY <2>1, HeadTailProperties
<1> QED
  BY <1>1, <1>2, AppendProperties DEF Insert

\* What a pointer of the tree leads to is the block it was written for, from the cache or the disk.
LEMMA FetchedBlock ==
    ASSUME Told(OnDisk, Tree), NEW n \in Blocks, Pointer(Tree, n).at \in Addresses, Fetches(Pointer(Tree, n)),
           reader.cache \in Seq([key : Addresses, value : OnDisk])
    PROVE  Block(Pointer(Tree, n)) \in OnDisk /\ Block(Pointer(Tree, n)) = BlockOf(Tree, n)
<1> DEFINE p == Pointer(Tree, n)
<1> HIDE DEF p
<1>0. p = Pointer(Tree, n) /\ p.at \in Addresses /\ Fetches(p)
  BY DEF p
<1>1. CASE Held(p)
  <2>1. \E i \in 1..Len(reader.cache) : reader.cache[i].key = p.at
    BY <1>1 DEF Held, Keys
  <2>2. reader.cache[Slot(reader.cache, p.at)] \in [key : Addresses, value : OnDisk]
    BY <2>1, GetKeeps
  <2>3. Block(p) \in OnDisk /\ Verifies(Block(p), p)
    BY <2>2, <1>1 DEF Block, Held
  <2> QED
    BY <2>3, <1>0 DEF Told
<1>2. CASE ~Held(p)
  <2>1. Good(p) # {} /\ Good(p) \subseteq 1..Copies /\ Good(p) \in SUBSET Nat
    BY <1>0, <1>2 DEF Fetches, Good
  <2>2. \E c \in Good(p) : \A k \in Good(p) : c <= k
    BY <2>1, LeastOf
  <2>3. TakenCopy(p) \in Good(p)
    BY <2>2 DEF TakenCopy
  <2>4. Block(p) = disk[p.at][TakenCopy(p)]
    BY <1>2 DEF Block
  <2>5. Block(p) \in OnDisk
    BY <1>0, <2>1, <2>3, <2>4 DEF OnDisk
  <2>6. Verifies(Block(p), p)
    BY <2>3, <2>4 DEF Good
  <2> QED
    BY <2>5, <2>6, <1>0 DEF Told
<1> QED
  BY <1>0, <1>1, <1>2

\* The reader once it has fetched or taken what a pointer of the tree leads to.
LEMMA TookFacts ==
    ASSUME Told(OnDisk, Tree), NEW n \in Blocks, Pointer(Tree, n).at \in Addresses, Fetches(Pointer(Tree, n)),
           reader.cache \in Seq([key : Addresses, value : OnDisk]), DOMAIN reader = DOMAIN Closed
    PROVE  /\ DOMAIN Fetched(Pointer(Tree, n)) = DOMAIN Closed /\ DOMAIN Took(Pointer(Tree, n)) = DOMAIN Closed
           /\ Fetched(Pointer(Tree, n)).cache \in Seq([key : Addresses, value : OnDisk])
           /\ Took(Pointer(Tree, n)).cache \in Seq([key : Addresses, value : OnDisk])
           /\ Took(Pointer(Tree, n)).got = reader.got \cup {[asked |-> n, block |-> BlockOf(Tree, n)]}
           /\ Fetched(Pointer(Tree, n)).got = reader.got
           /\ \A f \in {"pc", "policy", "trees", "stack", "visited"} :
                 /\ Fetched(Pointer(Tree, n))[f] = reader[f] /\ Took(Pointer(Tree, n))[f] = reader[f]
<1> DEFINE p == Pointer(Tree, n)
<1> HIDE DEF p
<1>0. p = Pointer(Tree, n) /\ p.at \in Addresses /\ Fetches(p) /\ p.name = n
  BY BlockFacts DEF p
<1>1. Block(p) \in OnDisk /\ Block(p) = BlockOf(Tree, n)
  BY FetchedBlock DEF p
<1> DEFINE held == IF p.at \in Keys(reader.cache) THEN Get(reader.cache, p.at) ELSE reader.cache
<1>2. held \in Seq([key : Addresses, value : OnDisk])
  <2>1. p.at \in Keys(reader.cache) => \E i \in 1..Len(reader.cache) : reader.cache[i].key = p.at
    BY DEF Keys
  <2> QED
    BY <2>1, GetKeeps
<1>3. Insert(held, Capacity, p.at, Block(p)) \in Seq([key : Addresses, value : OnDisk])
  BY <1>0, <1>1, <1>2, InsertKeeps, VolumeAssumption
<1> DEFINE cache == IF Held(p) THEN held ELSE Insert(held, Capacity, p.at, Block(p))
<1>4. cache \in Seq([key : Addresses, value : OnDisk])
  BY <1>2, <1>3
<1>5. Fetched(p) = [reader EXCEPT !.cache = cache, !.through = @ \cup Through(p)]
  BY DEF Fetched
<1> HIDE DEF cache, held
<1>6. DOMAIN reader = {"pc", "policy", "trees", "stack", "visited", "cache", "got", "refused", "through"}
  BY DEF Closed
<1>7. /\ DOMAIN Fetched(p) = DOMAIN reader /\ Fetched(p).cache = cache /\ Fetched(p).got = reader.got
      /\ Fetched(p).pc = reader.pc /\ Fetched(p).policy = reader.policy /\ Fetched(p).trees = reader.trees
      /\ Fetched(p).stack = reader.stack /\ Fetched(p).visited = reader.visited
  BY <1>5, <1>6
<1>8. Took(p) = [Fetched(p) EXCEPT !.got = @ \cup {[asked |-> n, block |-> BlockOf(Tree, n)]}]
  BY <1>0, <1>1 DEF Took
<1>9. /\ DOMAIN Took(p) = DOMAIN reader /\ Took(p).cache = cache
      /\ Took(p).got = reader.got \cup {[asked |-> n, block |-> BlockOf(Tree, n)]}
      /\ Took(p).pc = reader.pc /\ Took(p).policy = reader.policy /\ Took(p).trees = reader.trees
      /\ Took(p).stack = reader.stack /\ Took(p).visited = reader.visited
  BY <1>6, <1>7, <1>8
<1> QED
  BY <1>0, <1>4, <1>7, <1>9

\* The pointers in a block of the tree.
LEMMA Children ==
    ASSUME NEW n \in Blocks
    PROVE  BlockOf(Tree, n).items \in Seq(Pointing) /\ BlockOf(Tree, n).children \in Seq(Pointing)
<1>1. Below[n] \in Seq(Blocks)
  BY TreesAssumption
<1>2. \A i \in 1..Len(Below[n]) : Below[n][i] \in Blocks
  BY <1>1
<1>3. Pointers(Tree, n) \in Seq(Pointing)
  <2>1. Len(Below[n]) \in Nat
    BY <1>1
  <2>2. \A i \in 1..Len(Below[n]) : Pointer(Tree, Below[n][i]) \in Pointing
    BY <1>2 DEF Pointing
  <2> QED
    BY <2>1, <2>2 DEF Pointers
<1>4. << >> \in Seq(Pointing)
  OBVIOUS
<1> QED
  BY <1>3, <1>4 DEF BlockOf

\* A reading changes nothing but itself: what remains is what it says of itself.
LEMMA ReadingRest ==
    ASSUME CommitInv, ReadImage, ReadingOK'
    PROVE  CommitInv'
<1>1. /\ power = "off" /\ UNCHANGED driver /\ UNCHANGED image
      /\ DriverOK /\ SupersOK /\ DiskOK /\ Apart
  BY DEF ReadImage, Read, Open, ReadRoots, Descend, Report, CommitInv
<1>2. supers' = supers /\ disk' = disk /\ Whole' = Whole /\ OnDisk' = OnDisk
  BY <1>1 DEF image, Whole, OnDisk
<1>3. DriverOK'
  <2>1. rewound' \in BOOLEAN /\ lost' \in BOOLEAN
    BY <1>1, Zenon DEF DriverOK, driver
  <2> QED
    BY <2>1, <1>1 DEF DriverOK, Laid, driver
<1>4. SupersOK'
  BY <1>1, <1>2 DEF SupersOK, Laid, driver
<1>5. DiskOK'
  BY <1>1, <1>2 DEF DiskOK, driver
<1>6. Apart'
  BY <1>1, <1>2 DEF Apart, Told, ToldApart, driver
<1> QED
  BY <1>3, <1>4, <1>5, <1>6 DEF CommitInv

\* What a reading goes by does not change while it reads.
LEMMA StaysPut ==
    ASSUME UNCHANGED <<image, driver>>
    PROVE  /\ OnDisk' = OnDisk /\ (Genuine <=> Genuine') /\ (ToldApart <=> ToldApart')
           /\ Tree' = Tree /\ Pointing' = Pointing /\ Served' = Served
<1>1. supers' = supers /\ disk' = disk /\ rewound' = rewound /\ lost' = lost
  BY DEF image, driver
<1>2. Whole' = Whole /\ OnDisk' = OnDisk
  BY <1>1 DEF Whole, OnDisk
<1>3. Chosen' = Chosen
  BY <1>1, <1>2 DEF Chosen
<1>4. Tree' = Tree
  BY <1>1, <1>3 DEF Tree
<1>5. Pointing' = Pointing /\ Served' = Served
  BY <1>4 DEF Pointing, Served, Pointer, BlockOf, Pointers
<1>6. Genuine <=> Genuine'
  BY <1>1, <1>2, <1>3 DEF Genuine, Pointer
<1>7. ToldApart <=> ToldApart'
  BY <1>1 DEF ToldApart
<1> QED
  BY <1>2, <1>4, <1>5, <1>6, <1>7

\* Where the superblock taken is the driver's own, the disk is told of the tree it leads to.
LEMMA TreeIsTold ==
    ASSUME CommitInv, Genuine, ToldApart
    PROVE  Told(OnDisk, Tree) /\ \A n \in Blocks : Pointer(Tree, n).at \in Addresses
<1>1. Chosen \in Whole
  BY ChosenFacts DEF Genuine, CommitInv
<1>2. Laid(Tree) /\ Told(OnDisk, Tree)
  BY <1>1 DEF CommitInv, SupersOK, Apart, Tree
<1>3. ASSUME NEW n \in Blocks PROVE Pointer(Tree, n).at \in Addresses
  <2>1. Pointer(Tree, n).at = Tree[n].at
    BY BlockFacts
  <2>2. Tree[n].at \in Addresses
    BY <1>2, LaidFacts
  <2> QED
    BY <2>1, <2>2
<1> QED
  BY <1>2, <1>3

\* What a reading answers is of the tree, if what it gathered is.
LEMMA AnswerKeeps ==
    ASSUME ReadingOK, UNCHANGED <<image, driver>>, NEW policy \in Policies, NEW told,
           Answer(policy, told), policy = "strict" \/ answers["strict"] # Unread, told # Unread,
           Genuine /\ ToldApart /\ told.outcome = "read" => told.got \subseteq Served
    PROVE  ReadingOK'
<1>1. answers' = [answers EXCEPT ![policy] = told] /\ reader' = Closed /\ DOMAIN answers = Policies
  BY DEF Answer, ReadingOK
<1>2. reader'.pc = "closed" /\ reader'.policy = "none" /\ reader'.cache = << >> /\ reader'.got = {}
      /\ DOMAIN reader' = DOMAIN Closed
  BY <1>1 DEF Closed, Empty
<1>3. DOMAIN answers' = Policies
  BY <1>1
<1>4. answers'["lenient"] # Unread => answers'["strict"] # Unread
  BY <1>1 DEF ReadingOK, Policies
<1>5. ASSUME Genuine', ToldApart', NEW q \in Policies, Opened(q)'
      PROVE  answers'[q].got \subseteq Served
  <2>1. Genuine /\ ToldApart
    BY <1>5, StaysPut
  <2>2. CASE q = policy
    <3>1. answers'[q] = told
      BY <2>2, <1>1
    <3>2. told.outcome = "read"
      BY <3>1, <1>5 DEF Opened
    <3> QED
      BY <3>1, <3>2, <2>1
  <2>3. CASE q # policy
    <3>1. answers'[q] = answers[q]
      BY <2>3, <1>1
    <3>2. Opened(q)
      BY <3>1, <1>5 DEF Opened
    <3> QED
      BY <3>1, <3>2, <2>1 DEF ReadingOK
  <2> QED
    BY <2>2, <2>3
<1>6. \A q \in Policies : (answers'[q].outcome = "read" /\ Genuine' /\ ToldApart') =>
           answers'[q].got \subseteq Served'
  BY <1>5, StaysPut DEF Opened
<1>7. << >> \in Seq([key : Addresses, value : OnDisk'])
  OBVIOUS
<1> QED
  BY <1>2, <1>3, <1>4, <1>6, <1>7 DEF ReadingOK, Opened

\* A reader that goes on among the tree's blocks.
LEMMA GoesOn ==
    ASSUME ReadingOK, UNCHANGED <<image, driver>>, answers' = answers,
           DOMAIN reader' = DOMAIN Closed, reader'.policy \in Policies,
           reader'.policy = "lenient" => answers["strict"] # Unread,
           Genuine /\ ToldApart =>
              /\ reader'.pc = "trees" => reader'.stack \in Seq(Pointing) /\ reader'.trees \in Seq(Pointing)
              /\ reader'.cache \in Seq([key : Addresses, value : OnDisk])
              /\ reader'.got \subseteq Served
    PROVE  ReadingOK'
<1>1. \A q \in Policies : (answers'[q].outcome = "read" /\ Genuine /\ ToldApart) =>
           answers'[q].got \subseteq Served
  BY DEF ReadingOK, Opened
<1> QED
  BY <1>1, StaysPut DEF ReadingOK, Opened

LEMMA Fields ==
    DOMAIN Closed = {"pc", "policy", "trees", "stack", "visited", "cache", "got", "refused", "through"}
  BY DEF Closed

LEMMA ReaderShape ==
    ASSUME DOMAIN reader = DOMAIN Closed, NEW p
    PROVE  /\ DOMAIN Fetched(p) = DOMAIN Closed /\ Fetched(p).policy = reader.policy
           /\ DOMAIN Took(p) = DOMAIN Closed /\ Took(p).policy = reader.policy
<1> DEFINE cache == LET asked_for == IF p.at \in Keys(reader.cache) THEN Get(reader.cache, p.at) ELSE reader.cache
                    IN  IF Held(p) THEN asked_for ELSE Insert(asked_for, Capacity, p.at, Block(p))
<1>1. Fetched(p) = [reader EXCEPT !.cache = cache, !.through = @ \cup Through(p)]
  BY DEF Fetched
<1> HIDE DEF cache
<1>2. DOMAIN Fetched(p) = DOMAIN Closed /\ Fetched(p).policy = reader.policy
  BY <1>1, Fields
<1>3. Took(p) = [Fetched(p) EXCEPT !.got = @ \cup {[asked |-> p.name, block |-> Block(p)]}]
  BY DEF Took
<1> QED
  BY <1>2, <1>3, Fields

\* Going on to the next tree, or up to it.
LEMMA OnwardFacts ==
    ASSUME NEW after, DOMAIN after = DOMAIN Closed
    PROVE  /\ DOMAIN Onward(after) = DOMAIN Closed
           /\ Onward(after).policy = after.policy /\ Onward(after).pc = after.pc
           /\ Onward(after).cache = after.cache /\ Onward(after).got = after.got
           /\ after.stack \in Seq(Pointing) /\ after.trees \in Seq(Pointing) =>
                 Onward(after).stack \in Seq(Pointing) /\ Onward(after).trees \in Seq(Pointing)
<1>1. CASE after.stack # << >> \/ after.trees = << >>
  BY <1>1 DEF Onward
<1>2. CASE ~(after.stack # << >> \/ after.trees = << >>)
  <2>1. Onward(after) = [after EXCEPT !.stack = <<Head(after.trees)>>, !.trees = Tail(@), !.visited = {}]
    BY <1>2 DEF Onward
  <2>2. /\ DOMAIN Onward(after) = DOMAIN Closed
        /\ Onward(after).policy = after.policy /\ Onward(after).pc = after.pc
        /\ Onward(after).cache = after.cache /\ Onward(after).got = after.got
        /\ Onward(after).stack = <<Head(after.trees)>> /\ Onward(after).trees = Tail(after.trees)
    BY <2>1, Fields
  <2>3. ASSUME after.trees \in Seq(Pointing)
        PROVE  <<Head(after.trees)>> \in Seq(Pointing) /\ Tail(after.trees) \in Seq(Pointing)
    <3>1. Head(after.trees) \in Pointing /\ Tail(after.trees) \in Seq(Pointing)
      BY <2>3, <1>2, HeadTailProperties
    <3> QED
      BY <3>1
  <2> QED
    BY <2>2, <2>3
<1> QED
  BY <1>1, <1>2

LEMMA OpenKeeps ==
    ASSUME CommitInv, UNCHANGED <<image, driver>>, NEW policy \in Policies, Open(policy)
    PROVE  ReadingOK'
<1>1. policy = "strict" \/ answers["strict"] # Unread
  BY DEF Open, Policies
<1>2. CASE Answer(policy, Refused)
  <2>1. Refused # Unread /\ Refused.outcome # "read"
    BY DEF Refused, Unread
  <2> QED
    BY <1>1, <1>2, <2>1, AnswerKeeps DEF CommitInv
<1>3. CASE reader' = [Closed EXCEPT !.pc = "roots", !.policy = policy] /\ UNCHANGED answers
  <2>1. /\ DOMAIN reader' = DOMAIN Closed /\ reader'.policy = policy /\ reader'.pc = "roots"
        /\ reader'.cache = << >> /\ reader'.got = {}
    BY <1>3 DEF Closed, Empty
  <2>2. << >> \in Seq([key : Addresses, value : OnDisk]) /\ {} \subseteq Served
    OBVIOUS
  <2>3. reader'.policy = "lenient" => answers["strict"] # Unread
    BY <2>1, <1>1
  <2>4. reader'.pc # "trees"
    BY <2>1
  <2> QED
    BY <1>3, <2>1, <2>2, <2>3, <2>4, GoesOn DEF CommitInv
<1> QED
  BY <1>2, <1>3 DEF Open

LEMMA ReadRootsKeeps ==
    ASSUME CommitInv, UNCHANGED <<image, driver>>, ReadRoots
    PROVE  ReadingOK'
<1> DEFINE p == RootTree(supers[Chosen])
<1>1. /\ reader.pc = "roots" /\ reader.policy \in Policies /\ DOMAIN reader = DOMAIN Closed
      /\ ReadingOK /\ (reader.policy = "strict" \/ answers["strict"] # Unread)
  BY DEF ReadRoots, CommitInv, ReadingOK, Policies
<1>2. CASE Answer(reader.policy, Refused)
  <2>1. Refused # Unread /\ Refused.outcome # "read"
    BY DEF Refused, Unread
  <2> QED
    BY <1>1, <1>2, <2>1, AnswerKeeps
<1>3. CASE /\ Fetches(p) /\ answers' = answers
           /\ reader' = [Took(p) EXCEPT !.pc = "trees", !.stack = <<p>>, !.trees = Block(p).items]
  <2>1. DOMAIN Took(p) = DOMAIN Closed /\ Took(p).policy = reader.policy
    BY <1>1, ReaderShape
  <2> HIDE DEF p
  <2>2. /\ DOMAIN reader' = DOMAIN Closed /\ reader'.policy = reader.policy
        /\ reader'.stack = <<p>> /\ reader'.trees = Block(p).items
        /\ reader'.cache = Took(p).cache /\ reader'.got = Took(p).got
    BY <1>3, <2>1, Fields
  <2>3. ASSUME Genuine, ToldApart
        PROVE  /\ reader'.stack \in Seq(Pointing) /\ reader'.trees \in Seq(Pointing)
               /\ reader'.cache \in Seq([key : Addresses, value : OnDisk])
               /\ reader'.got \subseteq Served
    <3>1. p = Pointer(Tree, Roots) /\ Roots \in Blocks
      BY <2>3, TreesAssumption DEF Genuine, Tree, RootTree, p
    <3>2. Told(OnDisk, Tree) /\ Pointer(Tree, Roots).at \in Addresses
      BY <2>3, <3>1, TreeIsTold
    <3>3. reader.cache \in Seq([key : Addresses, value : OnDisk]) /\ reader.got \subseteq Served
      BY <2>3, <1>1 DEF ReadingOK
    <3>4. Block(p) = BlockOf(Tree, Roots)
      BY <1>3, <3>1, <3>2, <3>3, FetchedBlock
    <3>5. Took(p).cache \in Seq([key : Addresses, value : OnDisk])
          /\ Took(p).got = reader.got \cup {[asked |-> Roots, block |-> BlockOf(Tree, Roots)]}
      BY <1>1, <1>3, <3>1, <3>2, <3>3, TookFacts
    <3>6. p \in Pointing /\ [asked |-> Roots, block |-> BlockOf(Tree, Roots)] \in Served
      BY <3>1 DEF Pointing, Served
    <3>7. <<p>> \in Seq(Pointing) /\ Block(p).items \in Seq(Pointing)
      BY <3>1, <3>4, <3>6, Children
    <3> QED
      BY <2>2, <3>3, <3>5, <3>6, <3>7
  <2> QED
    BY <1>1, <1>3, <2>2, <2>3, GoesOn
<1> QED
  BY <1>2, <1>3 DEF ReadRoots

LEMMA DescendKeeps ==
    ASSUME CommitInv, UNCHANGED <<image, driver>>, Descend
    PROVE  ReadingOK'
<1> DEFINE p == Head(reader.stack)
<1>1. /\ reader.pc = "trees" /\ reader.stack # << >> /\ reader.policy \in Policies
      /\ DOMAIN reader = DOMAIN Closed /\ answers' = answers
      /\ ReadingOK /\ (reader.policy = "lenient" => answers["strict"] # Unread)
  BY DEF Descend, CommitInv, ReadingOK
<1>2. PICK after :
         /\ reader' = Onward(after)
         /\ \/ after = GivesUp(reader, p)
            \/ Fetches(p) /\ after = GivesUp(Fetched(p), p)
            \/ Fetches(p) /\ after = [Took(p) EXCEPT !.stack = Block(p).children \o Tail(@),
                                                     !.visited = @ \cup {p.at}]
  BY DEF Descend
<1> HIDE DEF p
<1>3. /\ DOMAIN Fetched(p) = DOMAIN Closed /\ Fetched(p).policy = reader.policy
      /\ DOMAIN Took(p) = DOMAIN Closed /\ Took(p).policy = reader.policy
  BY <1>1, ReaderShape
<1>4. DOMAIN after = DOMAIN Closed /\ after.policy = reader.policy
  <2>1. CASE after = GivesUp(reader, p)
    BY <2>1, <1>1, Fields DEF GivesUp
  <2>2. CASE after = GivesUp(Fetched(p), p)
    BY <2>2, <1>3, Fields DEF GivesUp
  <2>3. CASE after = [Took(p) EXCEPT !.stack = Block(p).children \o Tail(@), !.visited = @ \cup {p.at}]
    BY <2>3, <1>3, Fields
  <2> QED
    BY <1>2, <2>1, <2>2, <2>3
<1>5. DOMAIN reader' = DOMAIN Closed /\ reader'.policy = reader.policy
  BY <1>2, <1>4, OnwardFacts
<1>6. ASSUME Genuine, ToldApart
      PROVE  /\ reader'.stack \in Seq(Pointing) /\ reader'.trees \in Seq(Pointing)
             /\ reader'.cache \in Seq([key : Addresses, value : OnDisk])
             /\ reader'.got \subseteq Served
  <2>1. /\ reader.stack \in Seq(Pointing) /\ reader.trees \in Seq(Pointing)
        /\ reader.cache \in Seq([key : Addresses, value : OnDisk]) /\ reader.got \subseteq Served
    BY <1>1, <1>6 DEF ReadingOK
  <2>2. p \in Pointing /\ Tail(reader.stack) \in Seq(Pointing)
    BY <2>1, <1>1, HeadTailProperties DEF p
  <2>3. PICK n \in Blocks : p = Pointer(Tree, n)
    BY <2>2 DEF Pointing
  <2>4. Told(OnDisk, Tree) /\ Pointer(Tree, n).at \in Addresses
    BY <1>6, TreeIsTold
  <2>5. ASSUME Fetches(p)
        PROVE  /\ Fetched(p).cache \in Seq([key : Addresses, value : OnDisk])
               /\ Took(p).cache \in Seq([key : Addresses, value : OnDisk])
               /\ Took(p).got = reader.got \cup {[asked |-> n, block |-> BlockOf(Tree, n)]}
               /\ Fetched(p).got = reader.got /\ Fetched(p).trees = reader.trees
               /\ Took(p).trees = reader.trees /\ Took(p).stack = reader.stack
               /\ Block(p).children \in Seq(Pointing)
    <3>1. Block(p) = BlockOf(Tree, n)
      BY <2>1, <2>3, <2>4, <2>5, FetchedBlock
    <3>2. /\ Fetched(p).cache \in Seq([key : Addresses, value : OnDisk])
          /\ Took(p).cache \in Seq([key : Addresses, value : OnDisk])
          /\ Took(p).got = reader.got \cup {[asked |-> n, block |-> BlockOf(Tree, n)]}
          /\ Fetched(p).got = reader.got
          /\ \A f \in {"pc", "policy", "trees", "stack", "visited"} :
                Fetched(p)[f] = reader[f] /\ Took(p)[f] = reader[f]
      BY <1>1, <2>1, <2>3, <2>4, <2>5, TookFacts
    <3>3. Block(p).children \in Seq(Pointing)
      BY <3>1, Children
    <3> QED
      BY <3>2, <3>3
  <2>6. [asked |-> n, block |-> BlockOf(Tree, n)] \in Served
    BY DEF Served
  <2>7. /\ after.stack \in Seq(Pointing) /\ after.trees \in Seq(Pointing)
        /\ after.cache \in Seq([key : Addresses, value : OnDisk])
        /\ after.got \subseteq Served
    <3>0. << >> \in Seq(Pointing)
      OBVIOUS
    <3>1. CASE after = GivesUp(reader, p)
      <4>1. after.stack = << >> /\ after.trees = reader.trees /\ after.cache = reader.cache /\ after.got = reader.got
        BY <3>1, <1>1, Fields DEF GivesUp
      <4> QED
        BY <4>1, <3>0, <2>1
    <3>2. CASE Fetches(p) /\ after = GivesUp(Fetched(p), p)
      <4>1. /\ after.stack = << >> /\ after.trees = Fetched(p).trees /\ after.cache = Fetched(p).cache
            /\ after.got = Fetched(p).got
        BY <3>2, <1>3, Fields DEF GivesUp
      <4> QED
        BY <4>1, <3>0, <3>2, <2>1, <2>5
    <3>3. CASE Fetches(p) /\ after = [Took(p) EXCEPT !.stack = Block(p).children \o Tail(@),
                                                     !.visited = @ \cup {p.at}]
      <4>1. /\ after.stack = Block(p).children \o Tail(Took(p).stack) /\ after.trees = Took(p).trees
            /\ after.cache = Took(p).cache /\ after.got = Took(p).got
        BY <3>3, <1>3, Fields
      <4>2. Block(p).children \o Tail(reader.stack) \in Seq(Pointing)
        BY <3>3, <2>2, <2>5, ConcatProperties
      <4> QED
        BY <4>1, <4>2, <3>3, <2>1, <2>5, <2>6
    <3> QED
      BY <1>2, <3>1, <3>2, <3>3
  <2> QED
    BY <2>7, <1>2, <1>4, OnwardFacts
<1> QED
  BY <1>1, <1>5, <1>6, GoesOn

LEMMA ReportKeeps ==
    ASSUME CommitInv, UNCHANGED <<image, driver>>, Report
    PROVE  ReadingOK'
<1> DEFINE told == [outcome |-> "read", got |-> reader.got, refused |-> reader.refused,
                      through |-> reader.through, faulty |-> {m \in 1..Mirrors : MirrorAnomaly(m)}]
<1>1. /\ reader.policy \in Policies /\ ReadingOK
      /\ (reader.policy = "strict" \/ answers["strict"] # Unread)
      /\ Answer(reader.policy, told)
  BY DEF Report, CommitInv, ReadingOK, Policies
<1>2. told # Unread /\ told.got = reader.got
  <2>1. DOMAIN told # DOMAIN Unread
    BY DEF Unread
  <2> QED
    BY <2>1
<1>3. Genuine /\ ToldApart /\ told.outcome = "read" => told.got \subseteq Served
  BY <1>1, <1>2 DEF ReadingOK
<1> HIDE DEF told
<1> QED
  BY <1>1, <1>2, <1>3, AnswerKeeps

-----------------------------------------------------------------------------
\* From the first transaction on.

LEMMA CommitInit ==
    ASSUME Init
    PROVE  CommitInv
<1>1. PICK at \in [Blocks -> Addresses] :
          /\ \A m, n \in Blocks : m # n => at[m] # at[n]
          /\ live = [n \in Blocks |-> [at |-> at[n], gen |-> 1, epoch |-> 1]]
  BY DEF Init
<1>2. /\ next = live /\ written = 0 /\ power = "on" /\ begun = 1 /\ rewound = FALSE /\ lost = FALSE /\ faults = 0
      /\ reader = Closed /\ answers = [policy \in Policies |-> Unread]
      /\ supers = [m \in 1..Mirrors |-> IF m <= Room THEN Super(live) ELSE BadSuper]
      /\ disk = [a \in Addresses |-> [c \in 1..Copies |->
                    IF \E n \in Blocks : live[n].at = a
                    THEN BlockOf(live, CHOOSE n \in Blocks : live[n].at = a) ELSE Blank]]
  BY DEF Init
<1>3. Laid(live) /\ live[Roots].gen = 1 /\ \A n \in Blocks : live[n].gen = 1
  BY <1>1, TreesAssumption DEF Laid
<1>4. DriverOK
  <2>1. rewound \in BOOLEAN /\ lost \in BOOLEAN
    BY <1>2
  <2>2. answers["strict"] = Unread
    BY <1>2 DEF Policies
  <2>3. begun \in Nat /\ faults \in Nat /\ written \in Nat /\ live[Roots].gen <= begun /\ next[Roots].gen <= begun
    BY <1>2, <1>3
  <2>4. Laid(live) /\ Laid(next)
    BY <1>2, <1>3
  <2> QED
    BY <2>1, <2>2, <2>3, <2>4, <1>2 DEF DriverOK
<1>5. ASSUME NEW m \in Whole PROVE supers[m] = Super(live)
  <2>1. BadSuper.state # "whole"
    BY DEF BadSuper
  <2> QED
    BY <2>1, <1>2 DEF Whole
<1>6. SupersOK
  <2>1. DOMAIN supers = 1..Mirrors
    BY <1>2
  <2>2. 1 \in Whole
    <3>1. 1 \in 1..Mirrors /\ 1 <= Room
      BY VolumeAssumption
    <3>2. supers[1] = Super(live)
      BY <3>1, <1>2
    <3> QED
      BY <3>1, <3>2, SuperFacts DEF Whole
  <2>3. ASSUME NEW m \in Whole
        PROVE  /\ Laid(supers[m].of) /\ supers[m].gen = supers[m].of[Roots].gen
               /\ supers[m].gen <= begun /\ DOMAIN supers[m] = {"state", "gen", "root", "of"}
               /\ supers[m].gen <= next[Roots].gen
    <3>1. supers[m].gen = live[Roots].gen /\ supers[m].of = live /\ DOMAIN supers[m] = {"state", "gen", "root", "of"}
      BY <1>5, SuperFacts
    <3> QED
      BY <3>1, <1>2, <1>3
  <2> QED
    BY <2>1, <2>2, <2>3 DEF SupersOK
<1>7. ASSUME NEW a \in Addresses, NEW c \in 1..Copies
      PROVE  \/ disk[a][c] = Blank
             \/ \E n \in Blocks : live[n].at = a /\ disk[a][c] = BlockOf(live, n)
  <2>1. CASE \E n \in Blocks : live[n].at = a
    <3>1. (CHOOSE n \in Blocks : live[n].at = a) \in Blocks
          /\ live[CHOOSE n \in Blocks : live[n].at = a].at = a
      BY <2>1
    <3> QED
      BY <2>1, <3>1, <1>2
  <2>2. CASE ~\E n \in Blocks : live[n].at = a
    BY <2>2, <1>2
  <2> QED
    BY <2>1, <2>2
<1>8. Blank.sound = FALSE
  BY DEF Blank
<1>9. ASSUME NEW n \in Blocks
      PROVE  /\ BlockOf(live, n).sound = TRUE /\ BlockOf(live, n).at = live[n].at /\ BlockOf(live, n).gen = 1
  BY <1>3, BlockFacts
<1>10. DiskOK
  <2>1. DOMAIN disk = Addresses /\ \A a \in Addresses : DOMAIN disk[a] = 1..Copies
    BY <1>2
  <2>2. ASSUME NEW a \in Addresses, NEW c \in 1..Copies
        PROVE  /\ disk[a][c].sound = FALSE \/ (disk[a][c].sound = TRUE /\ disk[a][c].gen \in 0..begun)
               /\ disk[a][c].sound => disk[a][c].at = a
    <3>1. CASE disk[a][c] = Blank
      BY <3>1, <1>8
    <3>2. CASE \E n \in Blocks : live[n].at = a /\ disk[a][c] = BlockOf(live, n)
      <4>1. disk[a][c].sound = TRUE /\ disk[a][c].at = a /\ disk[a][c].gen = 1
        BY <3>2, <1>9
      <4> QED
        BY <4>1, <1>2
    <3> QED
      BY <3>1, <3>2, <1>7
  <2>3. ASSUME NEW block \in OnDisk
        PROVE  block.sound = FALSE \/ (block.sound = TRUE /\ block.gen \in 0..begun)
    <3>1. PICK a \in Addresses, c \in 1..Copies : block = disk[a][c]
      BY <2>3 DEF OnDisk
    <3> QED
      BY <3>1, <2>2
  <2> QED
    BY <2>1, <2>2, <2>3 DEF DiskOK
<1>11. Told(OnDisk, live)
  <2> SUFFICES ASSUME NEW a \in Addresses, NEW c \in 1..Copies, NEW n \in Blocks,
                      Verifies(disk[a][c], Pointer(live, n))
               PROVE  disk[a][c] = BlockOf(live, n)
    BY DEF Told, OnDisk
  <2>1. disk[a][c].sound /\ disk[a][c].at = live[n].at
    BY BlockFacts DEF Verifies
  <2>2. PICK m \in Blocks : disk[a][c] = BlockOf(live, m)
    BY <2>1, <1>7, <1>8
  <2>3. live[m].at = live[n].at
    BY <2>1, <2>2, <1>9
  <2>4. m = n
    BY <2>3, <1>3 DEF Laid
  <2> QED
    BY <2>2, <2>4
<1>12. Apart
  <2>1. \A m \in Whole : supers[m].of = live
    BY <1>5, SuperFacts
  <2> QED
    BY <2>1, <1>2, <1>11 DEF Apart
<1>13. ReadingOK
  <2>1. /\ reader.pc = "closed" /\ reader.policy = "none" /\ reader.cache = << >> /\ reader.got = {}
        /\ DOMAIN reader = DOMAIN Closed
    BY <1>2 DEF Closed, Empty
  <2>2. DOMAIN answers = Policies /\ answers["lenient"] = Unread
        /\ \A q \in Policies : answers[q].outcome # "read"
    BY <1>2 DEF Policies, Unread
  <2> QED
    BY <2>1, <2>2 DEF ReadingOK, Opened
<1> QED
  BY <1>4, <1>6, <1>10, <1>12, <1>13 DEF CommitInv

LEMMA CommitNext ==
    ASSUME CommitInv, [Next]_vars
    PROVE  CommitInv'
<1>1. CASE Begin
  BY <1>1, BeginIsTold
<1>2. CASE LoseBlocks
  BY <1>2, LoseBlocksIsTold
<1>3. CASE WriteSuper
  BY <1>3, WriteSuperIsTold
<1>4. CASE Stop
  BY <1>4, StopIsTold
<1>5. CASE Mount
  BY <1>5, MountIsTold
<1>6. CASE SpoilSuper
  BY <1>6, SpoilSuperIsTold
<1>7. CASE SpoilBlock
  BY <1>7, SpoilBlockIsTold
<1>8. CASE ReadImage
  <2>1. Read /\ UNCHANGED <<image, driver>>
    BY <1>8 DEF ReadImage, Read, Open, ReadRoots, Descend, Report
  <2>2. ASSUME \E policy \in Policies : Open(policy) PROVE ReadingOK'
    BY <2>1, <2>2, OpenKeeps
  <2>3. ASSUME ReadRoots PROVE ReadingOK'
    BY <2>1, <2>3, ReadRootsKeeps
  <2>4. ASSUME Descend PROVE ReadingOK'
    BY <2>1, <2>4, DescendKeeps
  <2>5. ASSUME Report PROVE ReadingOK'
    BY <2>1, <2>5, ReportKeeps
  <2>6. ReadingOK'
    BY <2>1, <2>2, <2>3, <2>4, <2>5 DEF Read
  <2> QED
    BY <1>8, <2>6, ReadingRest
<1>9. CASE UNCHANGED vars
  <2>1. UNCHANGED <<image, driver>> /\ reader' = reader /\ answers' = answers
    BY <1>9 DEF vars, asked
  <2>2. supers' = supers /\ disk' = disk /\ Whole' = Whole /\ OnDisk' = OnDisk
    BY <2>1 DEF image, Whole, OnDisk
  <2>3. ReadingOK'
    BY <2>1, StaysPut DEF ReadingOK, Opened, CommitInv
  <2>4. DriverOK'
    <3>1. rewound' \in BOOLEAN /\ lost' \in BOOLEAN
      BY <2>1, Zenon DEF DriverOK, driver, CommitInv
    <3> QED
      BY <3>1, <2>1 DEF DriverOK, Laid, driver, CommitInv
  <2>5. SupersOK' /\ DiskOK'
    BY <2>1, <2>2 DEF SupersOK, DiskOK, Laid, driver, CommitInv
  <2>6. Apart'
    BY <2>1, <2>2 DEF Apart, Told, ToldApart, driver, CommitInv
  <2> QED
    BY <2>3, <2>4, <2>5, <2>6 DEF CommitInv
<1> QED
  BY <1>1, <1>2, <1>3, <1>4, <1>5, <1>6, <1>7, <1>8, <1>9 DEF Next, Over

LEMMA CommitInvServes ==
    ASSUME CommitInv
    PROVE  ServesTheChosen
  BY DEF CommitInv, ReadingOK, ServesTheChosen, Served, Opened

\* Whatever a driver commits, crashes in, loses and spoils, every tree block a reading hands over
\* is the one its pointer was written for: of the transaction of the superblock taken, and no
\* stale copy that lies at its address or in the cache (Volume::fetch).
THEOREM ServesItsTransaction == Spec => []ServesTheChosen
<1>1. Init => CommitInv
  BY CommitInit
<1>2. CommitInv /\ [Next]_vars => CommitInv'
  BY CommitNext
<1>3. CommitInv => ServesTheChosen
  BY CommitInvServes
<1> QED
  BY <1>1, <1>2, <1>3, PTL DEF Spec

-----------------------------------------------------------------------------
\* A strict and a lenient reading of one volume, side by side.

\* Where a reading stands.
Where(at_hand) == [stack |-> at_hand.stack, trees |-> at_hand.trees, visited |-> at_hand.visited]

\* Whether the first copy of what is next in line will do.
Takes(st) ==
    LET p == Head(st.stack)
    IN  p.at \notin st.visited /\ 1 \in Good(p) /\ disk[p.at][1].level = p.level

\* Where first copies lead from there.
Advance(st) ==
    LET p == Head(st.stack)
    IN  Onward([stack |-> disk[p.at][1].children \o Tail(st.stack), trees |-> st.trees,
                visited |-> st.visited \cup {p.at}])

RootWhole == LET p == RootTree(supers[Chosen]) IN 1 \in Good(p) /\ disk[p.at][1].level = p.level
Start == LET p == RootTree(supers[Chosen])
         IN  [stack |-> <<p>>, trees |-> disk[p.at][1].items, visited |-> {}]

\* The course of a reading that needs first copies only, and where it comes by.
Course(r, n) ==
    /\ r = [k \in 0..n |-> r[k]] /\ r[0] = Start
    /\ \A k \in 1..n : r[k - 1].stack # << >> /\ Takes(r[k - 1]) /\ r[k] = Advance(r[k - 1])
ComesBy(st) == \E n \in Nat : \E r : Course(r, n) /\ r[n] = st

Arrives == \E st : ComesBy(st) /\ st.stack = << >>
Stumbles == \E st : ComesBy(st) /\ st.stack # << >> /\ ~Takes(st)

MirrorsAgree == \A m \in 1..Mirrors : ~MirrorDisagreement(m)

\* What a strict reading asks of an image, and what refutes it.
Fine == Whole # {} /\ MirrorsAgree /\ RootWhole /\ Arrives
Foul == Whole = {} \/ ~MirrorsAgree \/ ~RootWhole \/ Stumbles

\* A reading that has met a damaged block.
Marked == reader.refused # {} \/ reader.through # {}

Firsts(addrs) == {[key |-> a, value |-> disk[a][1]] : a \in addrs}

\* A reading that met nothing is where first copies lead and holds only such; what one met is
\* there to be met by the other. What was answered tells which of the two the image is.
SideBySide ==
    /\ reader.pc \in {"closed", "roots", "trees"}
    /\ reader.pc # "closed" => /\ Whole # {}
                               /\ reader.policy = "strict" => MirrorsAgree /\ reader.through = {}
    /\ reader.pc = "roots" => reader.cache = Empty /\ reader.visited = {} /\ ~Marked
    /\ reader.pc = "trees" =>
          IF Marked THEN ~RootWhole \/ Stumbles
          ELSE /\ RootWhole
               /\ \E st : st = Where(reader) /\ ComesBy(st)
               /\ \E addrs : reader.cache \in Seq(Firsts(addrs))
    /\ answers["strict"] # Unread => IF Accepted(answers["strict"]) THEN Fine ELSE Foul
    /\ answers["lenient"] # Unread => IF Clean(answers["lenient"]) THEN Fine ELSE Foul

LEMMA CourseFacts ==
    ASSUME NEW r, NEW n \in Nat, Course(r, n)
    PROVE  /\ r[0] = Start
           /\ \A k \in 1..n : r[k - 1].stack # << >> /\ Takes(r[k - 1]) /\ r[k] = Advance(r[k - 1])
  BY DEF Course

\* A reading begins at the root tree, and goes on from where it came by.
LEMMA CourseStarts == ComesBy(Start)
<1> DEFINE r == [k \in 0..0 |-> Start]
<1>1. r = [k \in 0..0 |-> r[k]] /\ r[0] = Start
  OBVIOUS
<1>2. Course(r, 0)
  BY <1>1 DEF Course
<1> QED
  BY <1>1, <1>2 DEF ComesBy

LEMMA CourseGoesOn ==
    ASSUME NEW st, ComesBy(st), st.stack # << >>, Takes(st)
    PROVE  ComesBy(Advance(st))
<1>1. PICK n \in Nat : \E r : Course(r, n) /\ r[n] = st
  BY DEF ComesBy
<1>2. PICK r : Course(r, n) /\ r[n] = st
  BY <1>1
<1> DEFINE m == n + 1
           q == [k \in 0..m |-> IF k = m THEN Advance(st) ELSE r[k]]
<1>3. /\ m \in Nat /\ q[m] = Advance(st) /\ \A k \in 0..n : q[k] = r[k]
      /\ q = [k \in 0..m |-> q[k]]
  OBVIOUS
<1> HIDE DEF q
<1>4. q[0] = Start
  <2>1. r[0] = Start
    BY <1>2, CourseFacts
  <2>2. 0 \in 0..n
    OBVIOUS
  <2> QED
    BY <2>1, <2>2, <1>3
<1>5. ASSUME NEW k \in 1..m
      PROVE  q[k - 1].stack # << >> /\ Takes(q[k - 1]) /\ q[k] = Advance(q[k - 1])
  <2>1. CASE k = m
    <3>1. k - 1 = n /\ n \in 0..n
      BY <2>1
    <3>2. q[k - 1] = st /\ q[k] = Advance(st)
      BY <3>1, <2>1, <1>2, <1>3
    <3> QED
      BY <3>2
  <2>2. CASE k # m
    <3>1. k \in 1..n /\ k - 1 \in 0..n /\ k \in 0..n
      BY <2>2
    <3>2. q[k] = r[k] /\ q[k - 1] = r[k - 1]
      BY <3>1, <1>3
    <3> QED
      BY <3>1, <3>2, <1>2, CourseFacts
  <2> QED
    BY <2>1, <2>2
<1>6. Course(q, m)
  BY <1>3, <1>4, <1>5 DEF Course
<1> QED
  BY <1>3, <1>6 DEF ComesBy

LEMMA CoursesAgree ==
    ASSUME NEW r, NEW n \in Nat, Course(r, n), NEW q, NEW m \in Nat, Course(q, m), NEW l \in Nat, l <= n, l <= m
    PROVE  r[l] = q[l]
<1> DEFINE T == {k \in 0..l : r[k] # q[k]}
<1> SUFFICES ASSUME T # {} PROVE FALSE
  OBVIOUS
<1>1. PICK k \in T : \A j \in T : k <= j
  <2>1. T \in SUBSET Nat
    OBVIOUS
  <2> HIDE DEF T
  <2> QED
    BY <2>1, LeastOf
<1>2. k # 0
  BY <1>1, CourseFacts
<1>3. k - 1 \in 0..l /\ k - 1 \notin T /\ k \in 1..n /\ k \in 1..m
  BY <1>1, <1>2
<1>4. r[k - 1] = q[k - 1]
  BY <1>3
<1>5. r[k] = Advance(r[k - 1])
  BY <1>3, CourseFacts
<1>6. q[k] = Advance(q[k - 1])
  BY <1>3, CourseFacts
<1> QED
  BY <1>1, <1>4, <1>5, <1>6

\* There is one course: it does not both arrive and stumble.
LEMMA OneCourse == ~(Arrives /\ Stumbles)
<1> SUFFICES ASSUME Arrives, Stumbles PROVE FALSE
  OBVIOUS
<1>1. PICK st : ComesBy(st) /\ st.stack = << >>
  BY DEF Arrives
<1>2. PICK n \in Nat : \E r : Course(r, n) /\ r[n] = st
  BY <1>1 DEF ComesBy
<1>3. PICK r : Course(r, n) /\ r[n] = st
  BY <1>2
<1>4. PICK sx : ComesBy(sx) /\ sx.stack # << >> /\ ~Takes(sx)
  BY DEF Stumbles
<1>5. PICK m \in Nat : \E q : Course(q, m) /\ q[m] = sx
  BY <1>4 DEF ComesBy
<1>6. PICK q : Course(q, m) /\ q[m] = sx
  BY <1>5
<1>7. CASE n = m
  <2>1. r[n] = q[m]
    BY <1>7, <1>3, <1>6, CoursesAgree
  <2> QED
    BY <2>1, <1>1, <1>3, <1>4, <1>6
<1>8. CASE n < m
  <2>1. r[n] = q[n] /\ n + 1 \in 1..m /\ (n + 1) - 1 = n
    BY <1>8, <1>3, <1>6, CoursesAgree
  <2>2. q[(n + 1) - 1].stack # << >>
    BY <2>1, <1>6, CourseFacts
  <2> QED
    BY <2>1, <2>2, <1>1, <1>3
<1>9. CASE m < n
  <2>1. r[m] = q[m] /\ m + 1 \in 1..n /\ (m + 1) - 1 = m
    BY <1>9, <1>3, <1>6, CoursesAgree
  <2>2. Takes(r[(m + 1) - 1])
    BY <2>1, <1>3, CourseFacts
  <2> QED
    BY <2>1, <2>2, <1>4, <1>6
<1> QED
  BY <1>7, <1>8, <1>9

LEMMA NotBoth == ~(Fine /\ Foul)
  BY OneCourse DEF Fine, Foul

\* A scan reports of a mirror what a strict open will not have.
LEMMA MirrorsAlike == MirrorsAgree <=> {m \in 1..Mirrors : MirrorAnomaly(m)} = {}
<1>1. ASSUME NEW m PROVE MirrorAnomaly(m) <=> MirrorDisagreement(m)
  BY DEF MirrorAnomaly, MirrorDisagreement, Behind, Judged
<1> QED
  BY <1>1 DEF MirrorsAgree

\* What stays the same while an image is not written.
LEMMA ImageRests ==
    ASSUME UNCHANGED image
    PROVE  /\ Whole' = Whole /\ (MirrorsAgree => MirrorsAgree') /\ (RootWhole => RootWhole')
           /\ (~RootWhole => ~RootWhole') /\ (Stumbles => Stumbles')
           /\ \A st : ComesBy(st) => ComesBy(st)'
           /\ \A addrs : Firsts(addrs)' = Firsts(addrs)
           /\ Fine => Fine'
           /\ Foul => Foul'
<1>1. supers' = supers /\ disk' = disk
  BY DEF image
<1>2. Whole' = Whole /\ Chosen' = Chosen
  BY <1>1 DEF Whole, Chosen
<1>3. MirrorsAgree' = MirrorsAgree
  BY <1>1, <1>2 DEF MirrorsAgree, MirrorDisagreement, Behind, Judged
<1>4. ASSUME NEW p PROVE Good(p)' = Good(p)
  BY <1>1 DEF Good
<1>5. (RootWhole <=> RootWhole') /\ Start' = Start
  BY <1>1, <1>2, <1>4 DEF RootWhole, Start, RootTree, Good
<1>6. ASSUME NEW st PROVE (Takes(st)' <=> Takes(st)) /\ Advance(st)' = Advance(st)
  BY <1>1, <1>4 DEF Takes, Advance
<1>7. ASSUME NEW r, NEW n PROVE Course(r, n) <=> Course(r, n)'
  BY <1>5, <1>6 DEF Course
<1>8. ASSUME NEW st PROVE ComesBy(st) <=> ComesBy(st)'
  BY <1>7 DEF ComesBy
<1>9. Stumbles => Stumbles'
  BY <1>6, <1>8 DEF Stumbles
<1>10. Arrives => Arrives'
  BY <1>8 DEF Arrives
<1>11. ASSUME NEW addrs PROVE Firsts(addrs)' = Firsts(addrs)
  BY <1>1 DEF Firsts
<1>12. Fine => Fine'
  BY <1>2, <1>3, <1>5, <1>10 DEF Fine
<1>13. Foul => Foul'
  BY <1>2, <1>3, <1>5, <1>9 DEF Foul
<1> QED
  BY <1>2, <1>3, <1>5, <1>8, <1>9, <1>11, <1>12, <1>13

\* A block in the cache is a first copy, which answers as the disk would.
LEMMA HeldIsFirst ==
    ASSUME NEW addrs, reader.cache \in Seq(Firsts(addrs)), NEW p, Held(p)
    PROVE  1 \in Good(p) /\ Block(p) = disk[p.at][1]
<1> DEFINE i == Slot(reader.cache, p.at)
<1>1. \E j \in 1..Len(reader.cache) : reader.cache[j].key = p.at
  BY DEF Held, Keys
<1>2. i \in 1..Len(reader.cache) /\ reader.cache[i].key = p.at
  BY <1>1 DEF Slot
<1>3. Verifies(reader.cache[i].value, p) /\ Block(p) = reader.cache[i].value
  BY DEF Held, Block
<1> HIDE DEF i
<1>4. reader.cache[i] \in Firsts(addrs)
  BY <1>2
<1>5. reader.cache[i].value = disk[p.at][1]
  BY <1>2, <1>4 DEF Firsts
<1>6. 1 \in 1..Copies
  BY VolumeAssumption
<1> QED
  BY <1>3, <1>5, <1>6 DEF Good

LEMMA FirstIsTaken ==
    ASSUME NEW p, 1 \in Good(p)
    PROVE  TakenCopy(p) = 1
<1>1. \A k \in Good(p) : k \in Nat /\ 1 <= k
  BY VolumeAssumption DEF Good
<1>2. \A c \in Good(p) : (\A k \in Good(p) : c <= k) => c = 1
  <2>1. SUFFICES ASSUME NEW c \in Good(p), \A k \in Good(p) : c <= k PROVE c = 1
    OBVIOUS
  <2>2. c <= 1 /\ c \in Nat /\ 1 <= c
    BY <2>1, <1>1
  <2> QED
    BY <2>2
<1>3. \A k \in Good(p) : 1 <= k
  BY <1>1
<1> QED
  BY <1>2, <1>3 DEF TakenCopy

LEMMA TakenIsGood ==
    ASSUME NEW p, Good(p) # {}
    PROVE  TakenCopy(p) \in Good(p)
<1>1. Good(p) \in SUBSET Nat
  BY VolumeAssumption DEF Good
<1>2. \E c \in Good(p) : \A k \in Good(p) : c <= k
  BY <1>1, LeastOf
<1> QED
  BY <1>2 DEF TakenCopy

\* A reading that holds first copies only is given one, or marked, or refused.
LEMMA FirstOrMarked ==
    ASSUME NEW addrs, reader.cache \in Seq(Firsts(addrs)), NEW p
    PROVE  /\ 1 \in Good(p) => Fetches(p) /\ Block(p) = disk[p.at][1] /\ Through(p) = {}
           /\ 1 \notin Good(p) => ~Fetches(p) \/ Through(p) # {}
<1>1. CASE Held(p)
  <2>1. 1 \in Good(p) /\ Block(p) = disk[p.at][1]
    BY <1>1, HeldIsFirst
  <2> QED
    BY <1>1, <2>1 DEF Fetches, Through
<1>2. CASE ~Held(p) /\ 1 \in Good(p)
  <2>1. TakenCopy(p) = 1
    BY <1>2, FirstIsTaken
  <2> QED
    BY <1>2, <2>1 DEF Fetches, Through, Block
<1>3. CASE ~Held(p) /\ 1 \notin Good(p)
  <2>1. Fetches(p) => Good(p) # {}
    BY <1>3 DEF Fetches
  <2>2. Fetches(p) => TakenCopy(p) # 1
    BY <2>1, <1>3, TakenIsGood
  <2> QED
    BY <1>3, <2>2 DEF Through
<1> QED
  BY <1>1, <1>2, <1>3

\* A strict reading goes past no copy.
LEMMA StrictReadsFirst ==
    ASSUME reader.policy = "strict", NEW p, Fetches(p) PROVE Through(p) = {}
<1>1. CASE Held(p)
  BY <1>1 DEF Through
<1>2. CASE ~Held(p)
  <2>1. 1 \in Good(p)
    BY <1>2 DEF Fetches
  <2>2. TakenCopy(p) = 1
    BY <2>1, FirstIsTaken
  <2> QED
    BY <2>2 DEF Through
<1> QED
  BY <1>1, <1>2

\* What a fetch changes of a reader.
LEMMA FetchFacts ==
    ASSUME DOMAIN reader = DOMAIN Closed, NEW p
    PROVE  /\ DOMAIN Fetched(p) = DOMAIN Closed /\ DOMAIN Took(p) = DOMAIN Closed
           /\ Fetched(p).through = reader.through \cup Through(p)
           /\ Took(p).through = reader.through \cup Through(p)
           /\ Took(p).cache = Fetched(p).cache
           /\ \A f \in {"pc", "policy", "trees", "stack", "visited", "refused"} :
                 Fetched(p)[f] = reader[f] /\ Took(p)[f] = reader[f]
<1> DEFINE asked_for == IF p.at \in Keys(reader.cache) THEN Get(reader.cache, p.at) ELSE reader.cache
           cache == IF Held(p) THEN asked_for ELSE Insert(asked_for, Capacity, p.at, Block(p))
<1>1. Fetched(p) = [reader EXCEPT !.cache = cache, !.through = @ \cup Through(p)]
  BY DEF Fetched
<1> HIDE DEF cache, asked_for
<1>2. DOMAIN reader = {"pc", "policy", "trees", "stack", "visited", "cache", "got", "refused", "through"}
  BY DEF Closed
<1>3. /\ DOMAIN Fetched(p) = DOMAIN reader
      /\ Fetched(p).through = reader.through \cup Through(p)
      /\ \A f \in {"pc", "policy", "trees", "stack", "visited", "refused"} : Fetched(p)[f] = reader[f]
  BY <1>1, <1>2
<1>4. Took(p) = [Fetched(p) EXCEPT !.got = @ \cup {[asked |-> p.name, block |-> Block(p)]}]
  BY DEF Took
<1>5. /\ DOMAIN Took(p) = DOMAIN reader /\ Took(p).cache = Fetched(p).cache
      /\ Took(p).through = Fetched(p).through
      /\ \A f \in {"pc", "policy", "trees", "stack", "visited", "refused"} : Took(p)[f] = Fetched(p)[f]
  BY <1>2, <1>3, <1>4
<1> QED
  BY <1>3, <1>5

\* First copies stay what the cache holds.
LEMMA CacheOfFirsts ==
    ASSUME DOMAIN reader = DOMAIN Closed, NEW addrs, reader.cache \in Seq(Firsts(addrs)), NEW p, 1 \in Good(p)
    PROVE  \E more : Fetched(p).cache \in Seq(Firsts(more))
<1> DEFINE asked_for == IF p.at \in Keys(reader.cache) THEN Get(reader.cache, p.at) ELSE reader.cache
           cache == IF Held(p) THEN asked_for ELSE Insert(asked_for, Capacity, p.at, Block(p))
           V == Firsts(addrs)
           W == Firsts(addrs \cup {p.at})
           e == [key |-> p.at, value |-> Block(p)]
<1>1. Fetched(p).cache = cache
  <2>1. Fetched(p) = [reader EXCEPT !.cache = cache, !.through = @ \cup Through(p)]
    BY DEF Fetched
  <2> HIDE DEF cache, asked_for
  <2>2. "cache" \in DOMAIN reader
    BY Fields
  <2> QED
    BY <2>1, <2>2
<1>2. Block(p) = disk[p.at][1]
  BY FirstOrMarked
<1>3. V \subseteq W /\ e \in W
  BY <1>2 DEF Firsts
<1>4. asked_for \in Seq(V)
  <2> HIDE DEF V
  <2>1. reader.cache \in Seq(V)
    BY DEF V
  <2>2. p.at \in Keys(reader.cache) => \E i \in 1..Len(reader.cache) : reader.cache[i].key = p.at
    BY DEF Keys
  <2> QED
    BY <2>1, <2>2, GetKeeps
<1> HIDE DEF V, W, asked_for, e
<1>5. asked_for \in Seq(W)
  BY <1>3, <1>4
<1>6. Insert(asked_for, Capacity, p.at, Block(p)) \in Seq(W)
  <2>1. Insert(asked_for, Capacity, p.at, Block(p)) =
           IF Capacity = 0 THEN asked_for
           ELSE Append(IF Len(asked_for) < Capacity THEN asked_for ELSE Tail(asked_for), e)
    BY DEF Insert, e
  <2>2. ASSUME ~(Len(asked_for) < Capacity), Capacity # 0 PROVE Tail(asked_for) \in Seq(W)
    <3>1. asked_for # << >>
      BY <2>2, VolumeAssumption
    <3> QED
      BY <3>1, <1>5, HeadTailProperties
  <2> QED
    BY <2>1, <2>2, <1>3, <1>5, AppendProperties
<1>7. cache \in Seq(W)
  BY <1>5, <1>6
<1> QED
  BY <1>1, <1>7 DEF W

\* What SideBySide says of a reading among the trees.
Among(at_hand) ==
    IF at_hand.refused # {} \/ at_hand.through # {} THEN ~RootWhole \/ Stumbles
    ELSE /\ RootWhole
         /\ ComesBy(Where(at_hand))
         /\ \E addrs : at_hand.cache \in Seq(Firsts(addrs))

\* A reading that is answered.
LEMMA AnswersSideBySide ==
    ASSUME SideBySide, DOMAIN answers = Policies, UNCHANGED image, NEW policy \in Policies, NEW told,
           Answer(policy, told),
           policy = "strict" => IF Accepted(told) THEN Fine ELSE Foul,
           policy = "lenient" => IF Clean(told) THEN Fine ELSE Foul
    PROVE  SideBySide'
<1>1. answers' = [answers EXCEPT ![policy] = told] /\ reader' = Closed
  BY DEF Answer
<1>2. reader'.pc = "closed"
  BY <1>1 DEF Closed
<1>3. ASSUME NEW q \in Policies, q # policy PROVE answers'[q] = answers[q]
  BY <1>1, <1>3
<1>4. answers'[policy] = told
  BY <1>1
<1>5. (Fine => Fine') /\ (Foul => Foul')
  BY ImageRests
<1>6. answers'["strict"] # Unread => IF Accepted(answers'["strict"]) THEN Fine' ELSE Foul'
  <2>1. CASE policy = "strict"
    BY <2>1, <1>4, <1>5
  <2>2. CASE policy # "strict"
    <3>1. answers'["strict"] = answers["strict"]
      BY <2>2, <1>3 DEF Policies
    <3> QED
      BY <3>1, <1>5 DEF SideBySide
  <2> QED
    BY <2>1, <2>2
<1>7. answers'["lenient"] # Unread => IF Clean(answers'["lenient"]) THEN Fine' ELSE Foul'
  <2>1. CASE policy = "lenient"
    BY <2>1, <1>4, <1>5
  <2>2. CASE policy # "lenient"
    <3>1. answers'["lenient"] = answers["lenient"]
      BY <2>2, <1>3 DEF Policies
    <3> QED
      BY <3>1, <1>5 DEF SideBySide
  <2> QED
    BY <2>1, <2>2
<1> QED
  BY <1>2, <1>6, <1>7 DEF SideBySide

\* A reading that is among the trees.
LEMMA GoesOnSideBySide ==
    ASSUME SideBySide, UNCHANGED <<image, answers>>, reader.pc # "closed", reader'.policy = reader.policy,
           NEW after, reader' = after, after.pc = "trees", Among(after),
           reader.policy = "strict" => after.through = {}
    PROVE  SideBySide'
<1>1. /\ Whole' = Whole /\ (MirrorsAgree => MirrorsAgree') /\ (RootWhole => RootWhole')
      /\ (~RootWhole => ~RootWhole') /\ (Stumbles => Stumbles')
      /\ \A st : ComesBy(st) => ComesBy(st)'
      /\ \A addrs : Firsts(addrs)' = Firsts(addrs)
      /\ (Fine => Fine') /\ (Foul => Foul')
  BY ImageRests
<1>2. Whole' # {} /\ (reader'.policy = "strict" => MirrorsAgree' /\ reader'.through = {})
  BY <1>1 DEF SideBySide
<1>3. IF Marked' THEN ~RootWhole' \/ Stumbles'
      ELSE /\ RootWhole'
           /\ \E st : st = Where(reader') /\ ComesBy(st)'
           /\ \E addrs : reader'.cache \in Seq(Firsts(addrs)')
  <2>1. CASE after.refused # {} \/ after.through # {}
    BY <2>1, <1>1 DEF Among, Marked
  <2>2. CASE ~(after.refused # {} \/ after.through # {})
    <3>1. RootWhole /\ ComesBy(Where(after)) /\ \E addrs : after.cache \in Seq(Firsts(addrs))
      BY <2>2 DEF Among
    <3>2. PICK addrs : after.cache \in Seq(Firsts(addrs))
      BY <3>1
    <3>3. reader'.cache \in Seq(Firsts(addrs)')
      BY <3>2, <1>1
    <3>4. PICK st : st = Where(after)
      OBVIOUS
    <3>5. st = Where(reader') /\ ComesBy(st)'
      BY <3>1, <3>4, <1>1
    <3>6. ~Marked'
      BY <2>2 DEF Marked
    <3> QED
      BY <3>1, <3>3, <3>5, <3>6, <1>1
  <2> QED
    BY <2>1, <2>2
<1>4. /\ answers'["strict"] # Unread => IF Accepted(answers'["strict"]) THEN Fine' ELSE Foul'
      /\ answers'["lenient"] # Unread => IF Clean(answers'["lenient"]) THEN Fine' ELSE Foul'
  BY <1>1 DEF SideBySide
<1>5. reader'.pc = "trees"
  OBVIOUS
<1> QED
  BY <1>2, <1>3, <1>4, <1>5 DEF SideBySide

LEMMA OpenSideBySide ==
    ASSUME SideBySide, DOMAIN answers = Policies, UNCHANGED image, NEW policy \in Policies, Open(policy)
    PROVE  SideBySide'
<1>1. CASE Answer(policy, Refused)
  <2>1. ~Accepted(Refused) /\ ~Clean(Refused)
    BY DEF Accepted, Clean, Refused
  <2>2. CASE Whole = {} \/ (policy = "strict" /\ \E m \in 1..Mirrors : MirrorDisagreement(m))
    <3>1. Foul
      BY <2>2 DEF Foul, MirrorsAgree
    <3> QED
      BY <1>1, <2>1, <3>1, AnswersSideBySide
  <2>3. CASE reader' = [Closed EXCEPT !.pc = "roots", !.policy = policy]
    <3>1. reader'.pc = "roots" /\ Closed.pc = "closed"
      BY <2>3 DEF Closed
    <3> QED
      BY <3>1, <1>1 DEF Answer
  <2> QED
    BY <2>2, <2>3 DEF Open
<1>2. CASE /\ reader' = [Closed EXCEPT !.pc = "roots", !.policy = policy] /\ UNCHANGED answers
           /\ ~(Whole = {} \/ (policy = "strict" /\ \E m \in 1..Mirrors : MirrorDisagreement(m)))
  <2>1. /\ reader'.pc = "roots" /\ reader'.policy = policy /\ reader'.cache = Empty
        /\ reader'.refused = {} /\ reader'.through = {} /\ reader'.visited = {}
    BY <1>2 DEF Closed
  <2>2. Whole # {} /\ (policy = "strict" => MirrorsAgree)
    BY <1>2 DEF MirrorsAgree
  <2>3. Whole' = Whole /\ (MirrorsAgree => MirrorsAgree') /\ (Fine => Fine') /\ (Foul => Foul')
    BY ImageRests
  <2>4. /\ answers'["strict"] # Unread => IF Accepted(answers'["strict"]) THEN Fine' ELSE Foul'
        /\ answers'["lenient"] # Unread => IF Clean(answers'["lenient"]) THEN Fine' ELSE Foul'
    BY <1>2, <2>3 DEF SideBySide
  <2> QED
    BY <2>1, <2>2, <2>3, <2>4 DEF SideBySide, Marked
<1> QED
  BY <1>1, <1>2 DEF Open

LEMMA ReadRootsSideBySide ==
    ASSUME SideBySide, DOMAIN answers = Policies, DOMAIN reader = DOMAIN Closed, reader.policy \in Policies,
           UNCHANGED image, ReadRoots
    PROVE  SideBySide'
<1> DEFINE p == RootTree(supers[Chosen])
<1>1. /\ reader.pc = "roots" /\ reader.cache = Empty /\ reader.visited = {}
      /\ reader.refused = {} /\ reader.through = {}
  BY DEF ReadRoots, SideBySide, Marked
<1>2. reader.cache \in Seq(Firsts({}))
  BY <1>1 DEF Empty
<1>3. /\ 1 \in Good(p) => Fetches(p) /\ Block(p) = disk[p.at][1] /\ Through(p) = {}
      /\ 1 \notin Good(p) => ~Fetches(p) \/ Through(p) # {}
  BY <1>2, FirstOrMarked
<1>4. RootWhole <=> 1 \in Good(p) /\ disk[p.at][1].level = p.level
  BY DEF RootWhole
<1>5. Start = [stack |-> <<p>>, trees |-> disk[p.at][1].items, visited |-> {}]
  BY DEF Start
<1>6. \/ (~Fetches(p) \/ Block(p).level # p.level) /\ Answer(reader.policy, Refused)
      \/ /\ Fetches(p) /\ Block(p).level = p.level /\ answers' = answers
         /\ reader' = [Took(p) EXCEPT !.pc = "trees", !.stack = <<p>>, !.trees = Block(p).items]
  BY DEF ReadRoots
<1> HIDE DEF p
<1>7. CASE (~Fetches(p) \/ Block(p).level # p.level) /\ Answer(reader.policy, Refused)
  <2>1. ~RootWhole
    BY <1>3, <1>4, <1>7
  <2>2. Foul /\ ~Accepted(Refused) /\ ~Clean(Refused)
    BY <2>1 DEF Foul, Accepted, Clean, Refused
  <2> QED
    BY <1>7, <2>2, AnswersSideBySide
<1>8. CASE /\ Fetches(p) /\ Block(p).level = p.level /\ answers' = answers
           /\ reader' = [Took(p) EXCEPT !.pc = "trees", !.stack = <<p>>, !.trees = Block(p).items]
  <2> DEFINE after == [Took(p) EXCEPT !.pc = "trees", !.stack = <<p>>, !.trees = Block(p).items]
  <2>1. /\ DOMAIN Took(p) = DOMAIN Closed /\ Took(p).through = Through(p)
        /\ Took(p).cache = Fetched(p).cache /\ Took(p).policy = reader.policy
        /\ Took(p).visited = {} /\ Took(p).refused = {}
    BY <1>1, FetchFacts
  <2>2. /\ after.pc = "trees" /\ after.stack = <<p>> /\ after.trees = Block(p).items
        /\ after.policy = reader.policy /\ after.visited = {} /\ after.refused = {}
        /\ after.through = Through(p) /\ after.cache = Fetched(p).cache
    BY <2>1, Fields
  <2>3. reader' = after
    BY <1>8
  <2> HIDE DEF after
  <2>4. reader.policy = "strict" => after.through = {}
    BY <1>8, <2>2, StrictReadsFirst
  <2>5. Among(after)
    <3>1. CASE 1 \in Good(p)
      <4>1. RootWhole /\ Block(p) = disk[p.at][1] /\ Through(p) = {}
        BY <3>1, <1>3, <1>4, <1>8
      <4>2. Where(after) = Start
        BY <4>1, <2>2, <1>5 DEF Where
      <4>3. \E more : Fetched(p).cache \in Seq(Firsts(more))
        BY <3>1, <1>2, CacheOfFirsts
      <4> QED
        BY <4>1, <4>2, <4>3, <2>2, CourseStarts DEF Among
    <3>2. CASE 1 \notin Good(p)
      <4>1. after.through # {} /\ ~RootWhole
        BY <3>2, <1>3, <1>4, <1>8, <2>2
      <4> QED
        BY <4>1 DEF Among
    <3> QED
      BY <3>1, <3>2
  <2>6. reader.pc # "closed" /\ reader'.policy = reader.policy
    BY <1>1, <2>2, <2>3
  <2> QED
    BY <1>8, <2>2, <2>3, <2>4, <2>5, <2>6, GoesOnSideBySide
<1> QED
  BY <1>6, <1>7, <1>8

\* Going on to the next tree changes nothing else.
LEMMA OnwardRest ==
    ASSUME NEW after, DOMAIN after = DOMAIN Closed
    PROVE  /\ Onward(after).pc = after.pc /\ Onward(after).policy = after.policy
           /\ Onward(after).cache = after.cache
           /\ Onward(after).refused = after.refused /\ Onward(after).through = after.through
           /\ Where(Onward(after)) = Onward(Where(after))
<1>1. /\ Where(after) = [stack |-> after.stack, trees |-> after.trees, visited |-> after.visited]
      /\ Where(after).stack = after.stack /\ Where(after).trees = after.trees
  BY DEF Where
<1>2. CASE after.stack # << >> \/ after.trees = << >>
  BY <1>1, <1>2 DEF Onward
<1>3. CASE ~(after.stack # << >> \/ after.trees = << >>)
  <2>1. Onward(after) = [after EXCEPT !.stack = <<Head(after.trees)>>, !.trees = Tail(@), !.visited = {}]
    BY <1>3 DEF Onward
  <2>2. /\ Onward(after).pc = after.pc /\ Onward(after).policy = after.policy
        /\ Onward(after).cache = after.cache
        /\ Onward(after).refused = after.refused /\ Onward(after).through = after.through
        /\ Onward(after).stack = <<Head(after.trees)>> /\ Onward(after).trees = Tail(after.trees)
        /\ Onward(after).visited = {}
    BY <2>1, Fields
  <2>3. Onward(Where(after)) = [Where(after) EXCEPT !.stack = <<Head(after.trees)>>,
                                                    !.trees = Tail(after.trees), !.visited = {}]
    BY <1>1, <1>3 DEF Onward
  <2>4. Onward(Where(after)) = [stack |-> <<Head(after.trees)>>, trees |-> Tail(after.trees), visited |-> {}]
    BY <2>3, <1>1
  <2> QED
    BY <2>2, <2>4 DEF Where
<1> QED
  BY <1>2, <1>3

LEMMA DescendSideBySide ==
    ASSUME SideBySide, DOMAIN reader = DOMAIN Closed, UNCHANGED image, Descend
    PROVE  SideBySide'
<1> DEFINE p == Head(reader.stack)
           took == [Took(p) EXCEPT !.stack = Block(p).children \o Tail(@), !.visited = @ \cup {p.at}]
<1>1. reader.pc = "trees" /\ reader.stack # << >> /\ UNCHANGED <<image, answers>>
  BY DEF Descend
<1>2. PICK after :
         /\ reader' = Onward(after)
         /\ \/ (p.at \in reader.visited \/ ~Fetches(p)) /\ after = GivesUp(reader, p)
            \/ Fetches(p) /\ Block(p).level # p.level /\ after = GivesUp(Fetched(p), p)
            \/ /\ p.at \notin reader.visited /\ Fetches(p) /\ Block(p).level = p.level
               /\ after = took
  BY DEF Descend
<1>3. Where(reader).stack = reader.stack /\ Where(reader).visited = reader.visited
      /\ Where(reader).trees = reader.trees
  BY DEF Where
<1>4. Takes(Where(reader)) <=>
         p.at \notin reader.visited /\ 1 \in Good(p) /\ disk[p.at][1].level = p.level
  BY <1>3 DEF Takes
<1>5. Advance(Where(reader)) =
         Onward([stack |-> disk[p.at][1].children \o Tail(reader.stack), trees |-> reader.trees,
                 visited |-> reader.visited \cup {p.at}])
  BY <1>3 DEF Advance
<1> HIDE DEF p
<1>6. /\ DOMAIN Fetched(p) = DOMAIN Closed /\ DOMAIN Took(p) = DOMAIN Closed
      /\ Fetched(p).through = reader.through \cup Through(p)
      /\ Took(p).through = reader.through \cup Through(p)
      /\ Took(p).cache = Fetched(p).cache
      /\ \A f \in {"pc", "policy", "trees", "stack", "visited", "refused"} :
            Fetched(p)[f] = reader[f] /\ Took(p)[f] = reader[f]
  BY FetchFacts
<1>7. /\ DOMAIN took = DOMAIN Closed /\ took.pc = reader.pc /\ took.policy = reader.policy
      /\ took.refused = reader.refused /\ took.through = reader.through \cup Through(p)
      /\ took.cache = Fetched(p).cache /\ took.trees = reader.trees
      /\ took.stack = Block(p).children \o Tail(reader.stack)
      /\ took.visited = reader.visited \cup {p.at}
  BY <1>6, Fields
<1> HIDE DEF took
<1>8. /\ DOMAIN after = DOMAIN Closed /\ after.pc = "trees" /\ after.policy = reader.policy
      /\ reader.refused \subseteq after.refused /\ reader.through \subseteq after.through
      /\ \/ after.through = reader.through
         \/ Fetches(p) /\ after.through = reader.through \cup Through(p)
      /\ after = took \/ after.refused # {}
  <2>1. CASE after = GivesUp(reader, p)
    <3>1. /\ DOMAIN after = DOMAIN Closed /\ after.pc = reader.pc /\ after.policy = reader.policy
          /\ after.refused = reader.refused \cup {p.at} /\ after.through = reader.through
      BY <2>1, Fields DEF GivesUp
    <3> QED
      BY <3>1, <1>1
  <2>2. CASE Fetches(p) /\ after = GivesUp(Fetched(p), p)
    <3>1. /\ DOMAIN after = DOMAIN Closed /\ after.pc = reader.pc /\ after.policy = reader.policy
          /\ after.refused = reader.refused \cup {p.at}
          /\ after.through = reader.through \cup Through(p)
      BY <2>2, <1>6, Fields DEF GivesUp
    <3> QED
      BY <3>1, <2>2, <1>1
  <2>3. CASE Fetches(p) /\ after = took
    BY <2>3, <1>1, <1>7
  <2> QED
    BY <1>2, <2>1, <2>2, <2>3
<1>9. /\ reader'.pc = "trees" /\ reader'.policy = reader.policy /\ reader'.cache = after.cache
      /\ reader'.refused = after.refused /\ reader'.through = after.through
      /\ Where(reader') = Onward(Where(after))
  BY <1>2, <1>8, OnwardRest
<1>10. reader.policy = "strict" => reader'.through = {}
  <2> SUFFICES ASSUME reader.policy = "strict" PROVE reader'.through = {}
    OBVIOUS
  <2>1. reader.through = {}
    BY <1>1 DEF SideBySide
  <2>2. Fetches(p) => Through(p) = {}
    BY StrictReadsFirst
  <2> QED
    BY <2>1, <2>2, <1>8, <1>9
<1>11. PICK later : later = reader'
  OBVIOUS
<1>12. Among(later)
  <2>1. CASE Marked
    <3>1. ~RootWhole \/ Stumbles
      BY <2>1, <1>1 DEF SideBySide
    <3>2. later.refused # {} \/ later.through # {}
      BY <2>1, <1>8, <1>9, <1>11 DEF Marked
    <3> QED
      BY <3>1, <3>2 DEF Among
  <2>2. CASE ~Marked
    <3>1. RootWhole /\ ComesBy(Where(reader)) /\ \E addrs : reader.cache \in Seq(Firsts(addrs))
      BY <2>2, <1>1 DEF SideBySide
    <3>2. PICK addrs : reader.cache \in Seq(Firsts(addrs))
      BY <3>1
    <3>3. /\ 1 \in Good(p) => Fetches(p) /\ Block(p) = disk[p.at][1] /\ Through(p) = {}
          /\ 1 \notin Good(p) => ~Fetches(p) \/ Through(p) # {}
      BY <3>2, FirstOrMarked
    <3>4. ~Takes(Where(reader)) => Stumbles
      BY <3>1, <1>1, <1>3 DEF Stumbles
    <3>5. reader.refused = {} /\ reader.through = {}
      BY <2>2 DEF Marked
    <3>6. CASE Takes(Where(reader))
      <4>1. 1 \in Good(p) /\ p.at \notin reader.visited /\ disk[p.at][1].level = p.level
        BY <3>6, <1>4
      <4>2. Fetches(p) /\ Block(p) = disk[p.at][1] /\ Through(p) = {}
        BY <3>3, <4>1
      <4>3. after = took
        BY <4>1, <4>2, <1>2
      <4>4. later.refused = {} /\ later.through = {}
        BY <4>2, <4>3, <3>5, <1>7, <1>9, <1>11
      <4>5. \E more : later.cache \in Seq(Firsts(more))
        BY <4>1, <4>3, <3>2, <1>7, <1>9, <1>11, CacheOfFirsts
      <4>6. Where(took) = [stack |-> disk[p.at][1].children \o Tail(reader.stack), trees |-> reader.trees,
                           visited |-> reader.visited \cup {p.at}]
        BY <1>7, <4>2 DEF Where
      <4>7. Where(later) = Advance(Where(reader))
        BY <4>3, <4>6, <1>5, <1>9, <1>11
      <4>8. ComesBy(Where(later))
        <5>1. Where(reader).stack # << >>
          BY <1>1, <1>3
        <5> QED
          BY <3>1, <3>6, <4>7, <5>1, CourseGoesOn
      <4> QED
        BY <3>1, <4>4, <4>5, <4>8 DEF Among
    <3>7. CASE ~Takes(Where(reader))
      <4>1. Stumbles
        BY <3>7, <3>4
      <4>2. later.refused # {} \/ later.through # {}
        <5>1. CASE after # took
          BY <5>1, <1>8, <1>9, <1>11
        <5>2. CASE after = took /\ after.refused = {}
          <6>1. p.at \notin reader.visited /\ Fetches(p) /\ Block(p).level = p.level
            <7>1. GivesUp(reader, p).refused # {}
              BY Fields DEF GivesUp
            <7>2. GivesUp(Fetched(p), p).refused # {}
              BY <1>6, Fields DEF GivesUp
            <7> QED
              BY <1>2, <5>2, <7>1, <7>2
          <6>2. 1 \notin Good(p)
            BY <3>3, <3>7, <6>1, <1>4
          <6>3. Through(p) # {}
            BY <6>1, <6>2, <3>3
          <6> QED
            BY <5>2, <6>3, <1>7, <1>9, <1>11
        <5>3. CASE after.refused # {}
          BY <5>3, <1>9, <1>11
        <5> QED
          BY <5>1, <5>2, <5>3
      <4> QED
        BY <4>1, <4>2 DEF Among
    <3> QED
      BY <3>6, <3>7
  <2> QED
    BY <2>1, <2>2
<1>13. later.pc = "trees" /\ (reader.policy = "strict" => later.through = {}) /\ reader.pc # "closed"
  BY <1>1, <1>9, <1>10, <1>11
<1> QED
  BY <1>1, <1>9, <1>11, <1>12, <1>13, GoesOnSideBySide

LEMMA ReportSideBySide ==
    ASSUME SideBySide, DOMAIN answers = Policies, reader.policy \in Policies, UNCHANGED image, Report
    PROVE  SideBySide'
<1> DEFINE told == [outcome |-> "read", got |-> reader.got, refused |-> reader.refused,
                    through |-> reader.through, faulty |-> {m \in 1..Mirrors : MirrorAnomaly(m)}]
<1>1. reader.pc = "trees" /\ reader.stack = << >> /\ Answer(reader.policy, told)
  BY DEF Report
<1>2. /\ Accepted(told) <=> reader.refused = {}
      /\ Clean(told) <=> reader.refused = {} /\ reader.through = {} /\ MirrorsAgree
  BY MirrorsAlike DEF Accepted, Clean
<1> HIDE DEF told
<1>3. Whole # {} /\ (reader.policy = "strict" => MirrorsAgree /\ reader.through = {})
  BY <1>1 DEF SideBySide
<1>4. Marked => ~RootWhole \/ Stumbles
  BY <1>1 DEF SideBySide
<1>5. ~Marked => RootWhole /\ Arrives
  <2> SUFFICES ASSUME ~Marked PROVE RootWhole /\ Arrives
    OBVIOUS
  <2>1. RootWhole /\ ComesBy(Where(reader))
    BY <1>1 DEF SideBySide
  <2>2. Where(reader).stack = << >>
    BY <1>1 DEF Where
  <2> QED
    BY <2>1, <2>2 DEF Arrives
<1>6. Marked <=> reader.refused # {} \/ reader.through # {}
  BY DEF Marked
<1>7. reader.policy = "strict" => IF Accepted(told) THEN Fine ELSE Foul
  BY <1>2, <1>3, <1>4, <1>5, <1>6 DEF Fine, Foul
<1>8. reader.policy = "lenient" => IF Clean(told) THEN Fine ELSE Foul
  BY <1>2, <1>3, <1>4, <1>5, <1>6 DEF Fine, Foul
<1> QED
  BY <1>1, <1>7, <1>8, AnswersSideBySide

\* Before the strict reading there is nothing to compare.
LEMMA NothingRead ==
    ASSUME reader' = Closed, answers'["strict"] = Unread, answers'["lenient"] = Unread
    PROVE  SideBySide'
<1>1. reader'.pc = "closed"
  BY DEF Closed
<1> QED
  BY <1>1 DEF SideBySide

LEMMA SideBySideStep ==
    ASSUME CommitInv, SideBySide, [Next]_vars
    PROVE  SideBySide'
<1>1. /\ DOMAIN reader = DOMAIN Closed /\ DOMAIN answers = Policies
      /\ answers["lenient"] # Unread => answers["strict"] # Unread
      /\ reader.pc \in {"roots", "trees"} => reader.policy \in Policies
      /\ power = "on" => reader = Closed /\ answers["strict"] = Unread
  BY DEF CommitInv, ReadingOK, DriverOK
<1>2. CASE Begin \/ LoseBlocks \/ WriteSuper \/ Stop \/ Mount \/ SpoilSuper \/ SpoilBlock
  <2>1. /\ UNCHANGED asked
        /\ power = "on" \/ (reader = Closed /\ answers["strict"] = Unread)
    BY <1>2 DEF Begin, LoseBlocks, WriteSuper, Stop, Mount, SpoilSuper, SpoilBlock, Untouched
  <2>2. reader' = reader /\ answers' = answers
    BY <2>1 DEF asked
  <2>3. reader = Closed /\ answers["strict"] = Unread /\ answers["lenient"] = Unread
    BY <1>1, <2>1
  <2> QED
    BY <2>2, <2>3, NothingRead
<1>3. CASE ReadImage
  <2>1. CASE \E policy \in Policies : Open(policy)
    <3>1. PICK policy \in Policies : Open(policy)
      BY <2>1
    <3>2. UNCHANGED image
      BY <3>1 DEF Open
    <3> QED
      BY <1>1, <3>1, <3>2, OpenSideBySide
  <2>2. CASE ReadRoots
    BY <1>1, <2>2, ReadRootsSideBySide DEF ReadRoots
  <2>3. CASE Descend
    BY <1>1, <2>3, DescendSideBySide DEF Descend
  <2>4. CASE Report
    BY <1>1, <2>4, ReportSideBySide DEF Report
  <2> QED
    BY <1>3, <2>1, <2>2, <2>3, <2>4 DEF ReadImage, Read
<1>4. CASE UNCHANGED vars
  <2>1. UNCHANGED image /\ reader' = reader /\ answers' = answers
    BY <1>4 DEF vars, asked
  <2>2. /\ Whole' = Whole /\ (MirrorsAgree => MirrorsAgree') /\ (RootWhole => RootWhole')
        /\ (~RootWhole => ~RootWhole') /\ (Stumbles => Stumbles')
        /\ \A st : ComesBy(st) => ComesBy(st)'
        /\ \A addrs : Firsts(addrs)' = Firsts(addrs)
        /\ (Fine => Fine') /\ (Foul => Foul')
    BY <2>1, ImageRests
  <2>3. reader.pc = "trees" /\ ~Marked => \E addrs : reader.cache \in Seq(Firsts(addrs)')
    BY <2>2 DEF SideBySide
  <2>4. Marked' <=> Marked
    BY <2>1 DEF Marked
  <2> QED
    BY <2>1, <2>2, <2>3, <2>4 DEF SideBySide
<1> QED
  BY <1>2, <1>3, <1>4 DEF Next, Over

\* A strict reading of a volume goes through exactly where a lenient scan of it has nothing to
\* report, though each judges the superblock's copies and every tree block by code of its own
\* (MirrorDisagreement and Volume::fetch against scan's report).
THEOREM StrictnessIsCleanliness == Spec => []StrictIsCleanScan
<1>1. Init => CommitInv /\ SideBySide
  <2> SUFFICES ASSUME Init PROVE CommitInv /\ SideBySide
    OBVIOUS
  <2>1. reader.pc = "closed" /\ answers["strict"] = Unread /\ answers["lenient"] = Unread
    BY DEF Init, Closed, Policies
  <2> QED
    BY <2>1, CommitInit DEF SideBySide
<1>2. CommitInv /\ SideBySide /\ [Next]_vars => CommitInv' /\ SideBySide'
  BY CommitNext, SideBySideStep
<1>3. CommitInv /\ SideBySide => StrictIsCleanScan
  <2> SUFFICES ASSUME CommitInv, SideBySide, answers["lenient"] # Unread
               PROVE  Accepted(answers["strict"]) <=> Clean(answers["lenient"])
    BY DEF StrictIsCleanScan
  <2>1. answers["strict"] # Unread
    BY DEF CommitInv, ReadingOK
  <2> QED
    BY <2>1, NotBoth DEF SideBySide
<1> QED
  BY <1>1, <1>2, <1>3, PTL DEF Spec

-----------------------------------------------------------------------------
\* The newest commit, and past damage.

\* No copy of the superblock is of a later transaction than the live one, but for the one being
\* committed; and where nothing was lost or went bad, both are wholly there.
Current ==
    /\ next = live \/ next[Roots].gen = live[Roots].gen + 1
    /\ \A m \in Whole : supers[m].of \in {live, next} \/ supers[m].gen < live[Roots].gen
Unhurt ==
    faults = 0 =>
        /\ ~lost
        /\ \E m \in Whole : supers[m].of \in {live, next}
        /\ \A m \in Whole : supers[m] = Super(supers[m].of)
        /\ \A tree \in {live, next} : \A n \in Blocks, c \in 1..Copies :
              disk[tree[n].at][c] = BlockOf(tree, n)

Hands(got, n) == [asked |-> n, block |-> BlockOf(Tree, n)] \in got
Safe(top) == \A n \in Under[top] : Intact(n)
DoneWith(got, top) == Safe(top) => \A n \in Under[top] : Hands(got, n)

\* The walk of an undamaged tree: some of its blocks are left to take, some were taken. None is
\* met twice, and what the taken ones lead to is one or the other.
Walking(at_hand, top, left, taken) ==
    /\ at_hand.stack = [k \in 1..Len(left) |-> Pointer(Tree, left[k])]
    /\ at_hand.visited = {Tree[n].at : n \in taken}
    /\ \A i, j \in 1..Len(left) : left[i] = left[j] => i = j
    /\ Set(left) \cap taken = {} /\ top \in taken \cup Set(left)
    /\ \A n \in taken \cup Set(left) : n = top \/ \E m \in taken : n \in Set(Below[m])
    /\ \A n \in taken : Hands(at_hand.got, n) /\ Set(Below[n]) \subseteq taken \cup Set(left)

\* The trees before the i-th were walked, the i-th is being walked, and those after it wait. The
\* first to be taken is the root tree's block itself.
At(at_hand, i) ==
    /\ Hands(at_hand.got, Roots)
    /\ at_hand.trees = [k \in 1..Len(Below[Roots]) - i |-> Pointer(Tree, Below[Roots][i + k])]
    /\ \A j \in 1..i - 1 : DoneWith(at_hand.got, Below[Roots][j])
    /\ i = 0 => at_hand.stack \in {<<Pointer(Tree, Roots)>>, << >>}
    /\ i > 0 /\ Safe(Below[Roots][i]) =>
          \E left \in Seq(Under[Below[Roots][i]]), taken \in SUBSET Under[Below[Roots][i]] :
              Walking(at_hand, Below[Roots][i], left, taken)

Progress(at_hand) ==
    /\ at_hand.stack = << >> => at_hand.trees = << >>
    /\ \E i \in 0..Len(Below[Roots]) : At(at_hand, i)

Gathered(got) == Hands(got, Roots) /\ \A top \in Set(Below[Roots]) : DoneWith(got, top)

ReadsOn ==
    Genuine /\ ToldApart /\ Intact(Roots) =>
        /\ reader.policy = "lenient" /\ reader.pc = "trees" => \E at_hand : at_hand = reader /\ Progress(at_hand)
        /\ answers["lenient"] # Unread => Opened("lenient") /\ Gathered(answers["lenient"].got)

\* A transaction writes to places the live one does not use.
LEMMA WritesElsewhere ==
    ASSUME NEW dirty \in SUBSET Blocks, NEW tree \in Trees(dirty), NEW d \in dirty, NEW n \in Blocks
    PROVE  tree[d].at # live[n].at
<1>1. PICK at \in [dirty -> Free] :
         tree = [m \in Blocks |-> IF m \in dirty
                    THEN [at |-> at[m], gen |-> live[Roots].gen + 1, epoch |-> begun + 1]
                    ELSE live[m]]
  BY DEF Trees
<1>2. tree[d].at = at[d] /\ at[d] \in Free
  BY <1>1
<1> QED
  BY <1>2 DEF Free

\* The live transaction's blocks outlast whatever the next one writes.
LEMMA LiveOutlasts ==
    ASSUME DiskOK, DriverOK, NEW dirty \in SUBSET Blocks, Rewrites(dirty), NEW tree \in Trees(dirty),
           NEW places \in SUBSET Places(tree, dirty), Put(tree, places), NEW n \in Blocks, NEW c \in 1..Copies
    PROVE  disk'[live[n].at][c] = disk[live[n].at][c]
<1>1. Laid(tree) /\ live[n].at \in Addresses
  BY TreesFacts, LaidFacts DEF DriverOK
<1>2. \/ disk'[live[n].at][c] = disk[live[n].at][c]
      \/ \E d \in dirty : tree[d].at = live[n].at
  <2>1. \A a \in Addresses, k \in 1..Copies :
           \/ <<a, k>> \notin places /\ disk'[a][k] = disk[a][k]
           \/ \E d \in dirty : tree[d].at = a /\ disk'[a][k] = BlockOf(tree, d)
    BY <1>1, PutFacts
  <2> QED
    BY <2>1, <1>1
<1> QED
  BY <1>2, WritesElsewhere

\* A transaction written whole is on the disk whole.
LEMMA WrittenWhole ==
    ASSUME DiskOK, DriverOK, NEW dirty \in SUBSET Blocks, Rewrites(dirty), NEW tree \in Trees(dirty),
           Put(tree, Places(tree, dirty)), NEW n \in Blocks, NEW c \in 1..Copies,
           disk[live[n].at][c] = BlockOf(live, n)
    PROVE  disk'[tree[n].at][c] = BlockOf(tree, n)
<1>1. Laid(tree) /\ tree[n].at \in Addresses
  BY TreesFacts, LaidFacts
<1>2. \/ <<tree[n].at, c>> \notin Places(tree, dirty) /\ disk'[tree[n].at][c] = disk[tree[n].at][c]
      \/ \E d \in dirty : tree[d].at = tree[n].at /\ disk'[tree[n].at][c] = BlockOf(tree, d)
  BY <1>1, PutFacts
<1>3. CASE n \in dirty
  <2>1. <<tree[n].at, c>> \in Places(tree, dirty)
    BY <1>3 DEF Places
  <2>2. PICK d \in dirty : tree[d].at = tree[n].at /\ disk'[tree[n].at][c] = BlockOf(tree, d)
    BY <1>2, <2>1
  <2>3. d = n
    BY <1>1, <2>2 DEF Laid
  <2> QED
    BY <2>2, <2>3
<1>4. CASE n \notin dirty
  <2>1. tree[n] = live[n]
    BY <1>4, TreesFacts
  <2>2. disk'[live[n].at][c] = disk[live[n].at][c]
    BY LiveOutlasts
  <2>3. BlockOf(tree, n) = BlockOf(live, n)
    BY <1>4, SameBlock
  <2> QED
    BY <2>1, <2>2, <2>3
<1> QED
  BY <1>3, <1>4

LEMMA BeginIsNewest ==
    ASSUME CommitInv, Current, Unhurt, Begin
    PROVE  Current' /\ Unhurt'
<1>1. /\ power = "on" /\ next = live /\ DriverOK /\ SupersOK /\ DiskOK
      /\ supers' = supers /\ live' = live /\ faults \in Nat
  BY DEF Begin, Writing, CommitInv, DriverOK
<1>a. PICK dirty \in {d \in SUBSET Blocks : Rewrites(d)} : \E tree \in Trees(dirty) :
         \E gone \in {{}} \cup {{place} : place \in Places(tree, dirty)} :
            /\ next' = tree /\ Put(tree, Places(tree, dirty) \ gone)
            /\ faults' = faults + Cardinality(gone) /\ lost' = (lost \/ gone # {})
  BY DEF Begin
<1>b. PICK tree \in Trees(dirty) :
         \E gone \in {{}} \cup {{place} : place \in Places(tree, dirty)} :
            /\ next' = tree /\ Put(tree, Places(tree, dirty) \ gone)
            /\ faults' = faults + Cardinality(gone) /\ lost' = (lost \/ gone # {})
  BY <1>a
<1>2. PICK gone \in {{}} \cup {{place} : place \in Places(tree, dirty)} :
         /\ dirty \in SUBSET Blocks /\ Rewrites(dirty) /\ next' = tree /\ Put(tree, Places(tree, dirty) \ gone)
         /\ faults' = faults + Cardinality(gone) /\ lost' = (lost \/ gone # {})
  BY <1>b
<1>3. Laid(tree) /\ tree[Roots].gen = live[Roots].gen + 1
  BY <1>1, <1>2, TreesFacts
<1>4. Whole' = Whole
  BY <1>1 DEF Whole
<1>5. Current'
  BY <1>1, <1>2, <1>3, <1>4 DEF Current
<1>6. ASSUME faults' = 0
      PROVE  faults = 0 /\ gone = {}
  <2>1. Cardinality({}) = 0 /\ \A place : Cardinality({place}) = 1
    BY FS_EmptySet, FS_Singleton
  <2>2. gone = {} \/ Cardinality(gone) = 1
    BY <2>1, <1>2
  <2>3. CASE gone = {}
    BY <2>1, <2>3, <1>1, <1>2, <1>6
  <2>4. CASE Cardinality(gone) = 1
    <3>1. faults + 1 = 0
      BY <2>4, <1>2, <1>6
    <3> QED
      BY <3>1, <1>1
  <2> QED
    BY <2>2, <2>3, <2>4
<1>7. ASSUME faults' = 0
      PROVE  /\ ~lost'
             /\ \E m \in Whole : supers[m].of \in {live, tree}
             /\ \A m \in Whole : supers[m] = Super(supers[m].of)
             /\ \A n \in Blocks, c \in 1..Copies : /\ disk'[live[n].at][c] = BlockOf(live, n)
                                                   /\ disk'[tree[n].at][c] = BlockOf(tree, n)
  <2>1. faults = 0 /\ gone = {}
    BY <1>6, <1>7
  <2>2. /\ ~lost
        /\ \E m \in Whole : supers[m].of \in {live, next}
        /\ \A m \in Whole : supers[m] = Super(supers[m].of)
        /\ \A n \in Blocks, c \in 1..Copies : disk[live[n].at][c] = BlockOf(live, n)
    BY <2>1 DEF Unhurt
  <2>3. ~lost'
    BY <2>1, <2>2, <1>2, Zenon
  <2>4. Put(tree, Places(tree, dirty))
    <3>1. Places(tree, dirty) \ gone = Places(tree, dirty)
      BY <2>1
    <3> QED
      BY <3>1, <1>2
  <2>5. ASSUME NEW n \in Blocks, NEW c \in 1..Copies
        PROVE  disk'[live[n].at][c] = BlockOf(live, n) /\ disk'[tree[n].at][c] = BlockOf(tree, n)
    <3>1. disk[live[n].at][c] = BlockOf(live, n)
      BY <2>2
    <3>2. disk'[live[n].at][c] = disk[live[n].at][c]
      BY <1>1, <1>2, <2>4, LiveOutlasts
    <3>3. disk'[tree[n].at][c] = BlockOf(tree, n)
      BY <1>1, <1>2, <2>4, <3>1, WrittenWhole
    <3> QED
      BY <3>1, <3>2, <3>3
  <2> QED
    BY <2>2, <2>3, <2>5, <1>1
<1>8. Unhurt'
  <2> SUFFICES ASSUME faults' = 0
               PROVE  /\ ~lost'
                      /\ \E m \in Whole' : supers'[m].of \in {live', next'}
                      /\ \A m \in Whole' : supers'[m] = Super(supers'[m].of)
                      /\ \A t \in {live', next'} : \A n \in Blocks, c \in 1..Copies :
                            disk'[t[n].at][c] = BlockOf(t, n)
    BY DEF Unhurt
  <2> QED
    BY <1>1, <1>2, <1>4, <1>7
<1> QED
  BY <1>5, <1>8

LEMMA LoseBlocksIsNewest ==
    ASSUME CommitInv, Current, Unhurt, LoseBlocks
    PROVE  Current' /\ Unhurt'
<1>1. /\ next = live /\ DriverOK /\ SupersOK /\ DiskOK
      /\ supers' = supers /\ live' = live /\ next' = next /\ faults' = faults /\ (lost' <=> lost)
  BY DEF LoseBlocks, Writing, CommitInv
<1>a. PICK dirty \in {d \in SUBSET Blocks : Rewrites(d)} : \E tree \in Trees(dirty) :
         \E some \in SUBSET Places(tree, dirty) : Put(tree, some)
  BY DEF LoseBlocks
<1>b. PICK tree \in Trees(dirty) : \E some \in SUBSET Places(tree, dirty) : Put(tree, some)
  BY <1>a
<1>2. PICK some \in SUBSET Places(tree, dirty) : dirty \in SUBSET Blocks /\ Rewrites(dirty) /\ Put(tree, some)
  BY <1>b
<1>3. Whole' = Whole
  BY <1>1 DEF Whole
<1>4. ASSUME NEW n \in Blocks, NEW c \in 1..Copies
      PROVE  disk'[live[n].at][c] = disk[live[n].at][c]
  BY <1>1, <1>2, LiveOutlasts
<1>5. Current'
  BY <1>1, <1>3 DEF Current
<1>6. Unhurt'
  <2> SUFFICES ASSUME faults' = 0
               PROVE  /\ ~lost'
                      /\ \E m \in Whole' : supers'[m].of \in {live', next'}
                      /\ \A m \in Whole' : supers'[m] = Super(supers'[m].of)
                      /\ \A t \in {live', next'} : \A n \in Blocks, c \in 1..Copies :
                            disk'[t[n].at][c] = BlockOf(t, n)
    BY DEF Unhurt
  <2> QED
    BY <1>1, <1>3, <1>4 DEF Unhurt
<1> QED
  BY <1>5, <1>6

\* The superblock taken is of the live transaction or the one being committed, if any copy is.
LEMMA NewestIsTaken ==
    ASSUME DriverOK, SupersOK, Current, NEW m \in Whole, supers[m].of \in {live, next}
    PROVE  Tree \in {live, next}
<1>1. Chosen \in Whole /\ supers[m].gen <= supers[Chosen].gen
  BY ChosenFacts
<1>2. /\ live[Roots].gen \in Nat /\ next[Roots].gen \in Nat
      /\ supers[m].gen = supers[m].of[Roots].gen
  BY LaidFacts, TreesAssumption DEF DriverOK, SupersOK
<1>3. live[Roots].gen <= supers[m].gen
  <2>1. CASE supers[m].of = live
    BY <2>1, <1>2
  <2>2. CASE supers[m].of = next
    BY <2>2, <1>2 DEF Current
  <2> QED
    BY <2>1, <2>2
<1>4. Laid(supers[Chosen].of) /\ supers[Chosen].gen = supers[Chosen].of[Roots].gen
  BY <1>1 DEF SupersOK
<1>5. supers[Chosen].gen \in Nat /\ supers[m].gen \in Nat
  BY <1>2, <1>4, LaidFacts, TreesAssumption
<1>6. ~(supers[Chosen].gen < live[Roots].gen)
  BY <1>1, <1>2, <1>3, <1>5
<1> QED
  BY <1>1, <1>6 DEF Current, Tree

\* Of all others, none is of its generation.
LEMMA OthersAreOlder ==
    ASSUME DriverOK, SupersOK, Current, Whole # {}, Tree \in {live, next}, NEW m \in Whole
    PROVE  supers[m].of = Tree \/ supers[m].gen < Tree[Roots].gen
<1>1. Chosen \in Whole /\ supers[m].gen <= supers[Chosen].gen
  BY ChosenFacts
<1>2. /\ live[Roots].gen \in Nat /\ next[Roots].gen \in Nat
      /\ Laid(supers[m].of) /\ supers[m].gen = supers[m].of[Roots].gen
      /\ supers[Chosen].gen = Tree[Roots].gen
  BY <1>1, LaidFacts, TreesAssumption DEF DriverOK, SupersOK, Tree
<1>3. supers[m].gen \in Nat /\ supers[m].gen <= Tree[Roots].gen /\ Tree[Roots].gen \in Nat
  BY <1>1, <1>2, LaidFacts, TreesAssumption
<1>4. CASE supers[m].of \in {live, next}
  BY <1>2, <1>3, <1>4 DEF Current
<1>5. CASE supers[m].gen < live[Roots].gen
  BY <1>2, <1>3, <1>5 DEF Current
<1> QED
  BY <1>4, <1>5 DEF Current

LEMMA WriteSuperIsNewest ==
    ASSUME CommitInv, Current, Unhurt, WriteSuper
    PROVE  Current' /\ Unhurt'
<1>1. /\ next # live /\ DriverOK /\ SupersOK /\ written + 1 \in 1..Mirrors
      /\ disk' = disk /\ next' = next /\ live' \in {live, next}
      /\ \/ supers' = [supers EXCEPT ![written + 1] = Super(next)] /\ faults' = faults /\ (lost' <=> lost)
         \/ faults' = faults + 1 /\ supers' = supers
      /\ faults \in Nat
  BY VolumeAssumption DEF WriteSuper, Writing, CommitInv, DriverOK
<1>2. next[Roots].gen = live[Roots].gen + 1 /\ live[Roots].gen \in Nat /\ next[Roots].gen \in Nat
  <2>1. live[Roots].gen \in Nat /\ next[Roots].gen \in Nat
    BY <1>1, LaidFacts, TreesAssumption DEF DriverOK
  <2> QED
    BY <2>1, <1>1 DEF Current
<1>3. \A m \in Whole : supers[m].gen = supers[m].of[Roots].gen /\ supers[m].gen \in Nat
  <2>1. ASSUME NEW m \in Whole PROVE supers[m].gen = supers[m].of[Roots].gen /\ supers[m].gen \in Nat
    <3>1. Laid(supers[m].of) /\ supers[m].gen = supers[m].of[Roots].gen
      BY <1>1 DEF SupersOK
    <3> QED
      BY <3>1, LaidFacts, TreesAssumption
  <2> QED
    BY <2>1
<1>4. ASSUME NEW m \in Whole'
      PROVE  \/ m \in Whole /\ supers'[m] = supers[m]
             \/ faults' = faults /\ m = written + 1 /\ supers'[m] = Super(next)
  <2>1. m \in 1..Mirrors /\ supers'[m].state = "whole" /\ DOMAIN supers = 1..Mirrors
    BY <1>1 DEF Whole, SupersOK
  <2> QED
    BY <2>1, <1>1 DEF Whole
<1>5. Super(next).of = next /\ Super(next).gen = next[Roots].gen /\ Super(next).state = "whole"
  BY DEF Super
<1>6. Current'
  <2>1. next' = live' \/ next'[Roots].gen = live'[Roots].gen + 1
    BY <1>1, <1>2
  <2>2. ASSUME NEW m \in Whole'
        PROVE  supers'[m].of \in {live', next'} \/ supers'[m].gen < live'[Roots].gen
    <3>1. CASE supers'[m] = Super(next)
      BY <3>1, <1>1, <1>5
    <3>2. CASE m \in Whole /\ supers'[m] = supers[m]
      <4>1. supers[m].of \in {live, next} \/ supers[m].gen < live[Roots].gen
        BY <3>2 DEF Current
      <4>2. CASE supers[m].of = next
        BY <4>2, <3>2, <1>1
      <4>3. CASE supers[m].of = live
        BY <4>3, <3>2, <1>1, <1>2, <1>3
      <4>4. CASE supers[m].gen < live[Roots].gen
        BY <4>4, <3>2, <1>1, <1>2, <1>3
      <4> QED
        BY <4>1, <4>2, <4>3, <4>4
    <3> QED
      BY <3>1, <3>2, <1>4
  <2> QED
    BY <2>1, <2>2 DEF Current
<1>7. ASSUME faults' = 0
      PROVE  /\ ~lost'
             /\ \E m \in Whole' : supers'[m].of \in {live', next'}
             /\ \A m \in Whole' : supers'[m] = Super(supers'[m].of)
             /\ \A t \in {live', next'} : \A n \in Blocks, c \in 1..Copies :
                   disk'[t[n].at][c] = BlockOf(t, n)
  <2>1. /\ faults = 0 /\ supers' = [supers EXCEPT ![written + 1] = Super(next)] /\ (lost' <=> lost)
    BY <1>1, <1>7
  <2>2. /\ ~lost
        /\ \A m \in Whole : supers[m] = Super(supers[m].of)
        /\ \A t \in {live, next} : \A n \in Blocks, c \in 1..Copies : disk[t[n].at][c] = BlockOf(t, n)
    BY <2>1 DEF Unhurt
  <2>3. supers'[written + 1] = Super(next)
    BY <2>1, <1>1 DEF SupersOK
  <2>4. written + 1 \in Whole' /\ supers'[written + 1].of = next'
    BY <2>3, <1>1, <1>5 DEF Whole
  <2>5. \A m \in Whole' : supers'[m] = Super(supers'[m].of)
    BY <2>2, <1>4, <1>5
  <2> QED
    BY <2>1, <2>2, <2>4, <2>5, <1>1
<1>8. Unhurt'
  BY <1>7 DEF Unhurt
<1> QED
  BY <1>6, <1>8

LEMMA MountIsNewest ==
    ASSUME CommitInv, Current, Unhurt, Mount
    PROVE  Current' /\ Unhurt'
<1>1. /\ DriverOK /\ SupersOK /\ faults = 0 /\ Whole # {}
      /\ disk' = disk /\ supers' = supers /\ faults' = faults /\ (lost' <=> lost)
      /\ live' = Tree /\ next' = Tree
  BY DEF Mount, CommitInv, image, Tree, SupersOK
<1>2. Chosen \in Whole /\ \A k \in Whole : supers[k].gen <= supers[Chosen].gen
  BY <1>1, ChosenFacts
<1>3. Whole' = Whole
  BY <1>1 DEF Whole
<1>4. Tree \in {live, next}
  BY <1>1, <1>2, NewestIsTaken DEF Unhurt
<1>5. \A m \in Whole : supers[m].of = Tree \/ supers[m].gen < Tree[Roots].gen
  BY <1>1, <1>4, OthersAreOlder
<1>6. Current'
  BY <1>1, <1>3, <1>5 DEF Current
<1>7. Unhurt'
  <2>1. supers[Chosen].of = Tree
    BY DEF Tree
  <2>2. /\ ~lost
        /\ \A m \in Whole : supers[m] = Super(supers[m].of)
        /\ \A n \in Blocks, c \in 1..Copies : disk[Tree[n].at][c] = BlockOf(Tree, n)
    BY <1>1, <1>4 DEF Unhurt
  <2>3. \E m \in Whole' : supers'[m].of \in {live', next'}
    BY <1>1, <1>2, <1>3, <2>1
  <2> QED
    BY <2>2, <2>3, <1>1, <1>3 DEF Unhurt
<1> QED
  BY <1>6, <1>7

LEMMA SpoilsLeaveNewest ==
    ASSUME CommitInv, Current, SpoilSuper \/ SpoilBlock
    PROVE  Current' /\ Unhurt'
<1>1. /\ SupersOK /\ live' = live /\ next' = next /\ faults' = faults + 1 /\ faults \in Nat
  BY DEF SpoilSuper, SpoilBlock, CommitInv, DriverOK
<1>2. Unhurt'
  BY <1>1 DEF Unhurt
<1>3. ASSUME NEW m \in Whole'
      PROVE  m \in Whole /\ supers'[m].of = supers[m].of /\ supers'[m].gen = supers[m].gen
  <2>1. CASE supers' = supers
    BY <2>1, <1>3 DEF Whole
  <2>2. CASE SpoilSuper
    BY <2>2, <1>1, <1>3, SpoiledSupers
  <2>3. SpoilBlock => supers' = supers
    BY DEF SpoilBlock
  <2> QED
    BY <2>1, <2>2, <2>3
<1>4. Current'
  BY <1>1, <1>3 DEF Current
<1> QED
  BY <1>2, <1>4

LEMMA NewestStep ==
    ASSUME CommitInv, Current, Unhurt, [Next]_vars
    PROVE  Current' /\ Unhurt'
<1>1. CASE UNCHANGED <<image, driver>> \/ Stop
  <2>1. /\ supers' = supers /\ disk' = disk /\ live' = live /\ next' = next
        /\ faults' = faults /\ lost' = lost
    BY <1>1 DEF Stop, image, driver
  <2>2. Whole' = Whole
    BY <2>1 DEF Whole
  <2>3. Current'
    BY <2>1, <2>2 DEF Current
  <2>4. Unhurt'
    BY <2>1, <2>2 DEF Unhurt
  <2> QED
    BY <2>3, <2>4
<1>2. ReadImage \/ UNCHANGED vars => UNCHANGED <<image, driver>>
  BY DEF ReadImage, Read, Open, ReadRoots, Descend, Report, vars
<1> QED
  BY <1>1, <1>2, BeginIsNewest, LoseBlocksIsNewest, WriteSuperIsNewest, MountIsNewest, SpoilsLeaveNewest
     DEF Next, Over

-----------------------------------------------------------------------------
\* The blocks under a top: it and what is below, no more, none reached twice.
LEMMA UnderFacts ==
    ASSUME NEW top \in Blocks
    PROVE  /\ Under[top] \subseteq Blocks /\ top \in Under[top]
           /\ \A n \in Under[top] : Set(Below[n]) \subseteq Under[top]
           /\ \A part \in SUBSET Blocks :
                 top \in part /\ (\A n \in part : Set(Below[n]) \subseteq part) => Under[top] \subseteq part
<1>1. Under[top] = {n \in Blocks : \A part \in SUBSET Blocks :
                       top \in part /\ (\A m \in part : Set(Below[m]) \subseteq part) => n \in part}
  BY DEF Under
<1>2. ASSUME NEW n \in Under[top], NEW k \in Set(Below[n]) PROVE k \in Under[top]
  <2>1. k \in Blocks
    <3>1. n \in Blocks /\ Below[n] \in Seq(Blocks)
      BY <1>1, TreesAssumption
    <3> QED
      BY <3>1 DEF Set
  <2>2. ASSUME NEW part \in SUBSET Blocks, top \in part, \A m \in part : Set(Below[m]) \subseteq part
        PROVE  k \in part
    BY <2>2, <1>1
  <2> QED
    BY <2>1, <2>2, <1>1
<1> QED
  BY <1>1, <1>2

\* What the root tree leads to.
LEMMA Tops ==
    /\ Len(Below[Roots]) \in Nat /\ Roots \in Blocks
    /\ \A i \in 1..Len(Below[Roots]) : /\ Below[Roots][i] \in Blocks /\ Below[Roots][i] \in Set(Below[Roots])
                                       /\ Roots \notin Under[Below[Roots][i]]
<1>1. Roots \in Blocks /\ Below[Roots] \in Seq(Blocks)
  BY TreesAssumption
<1>2. ASSUME NEW i \in 1..Len(Below[Roots])
      PROVE  /\ Below[Roots][i] \in Blocks /\ Below[Roots][i] \in Set(Below[Roots])
             /\ Roots \notin Under[Below[Roots][i]]
  <2>1. Below[Roots][i] \in Blocks /\ Below[Roots][i] \in Set(Below[Roots])
    BY <1>1 DEF Set
  <2>2. Below[Roots][i] # Roots /\ \A n \in Blocks : Roots \notin Set(Below[n])
    BY <1>1, <2>1, PlacesAssumption
  <2>3. \A n \in Blocks \ {Roots} : Set(Below[n]) \subseteq Blocks \ {Roots}
    <3>1. ASSUME NEW n \in Blocks, NEW k \in Set(Below[n]) PROVE k \in Blocks
      <4>1. Below[n] \in Seq(Blocks)
        BY TreesAssumption
      <4>2. PICK j \in 1..Len(Below[n]) : k = Below[n][j]
        BY DEF Set
      <4> QED
        BY <4>1, <4>2
    <3> QED
      BY <3>1, <2>2
  <2>4. Under[Below[Roots][i]] \subseteq Blocks \ {Roots}
    BY <2>1, <2>2, <2>3, UnderFacts
  <2> QED
    BY <2>1, <2>4
<1> QED
  BY <1>1, <1>2

\* What is there in a copy is fetched by a lenient reading, and passes.
LEMMA IntactIsTaken ==
    ASSUME CommitInv, Genuine, ToldApart, reader.policy = "lenient", NEW n \in Blocks, Intact(n)
    PROVE  /\ Fetches(Pointer(Tree, n)) /\ Block(Pointer(Tree, n)) = BlockOf(Tree, n)
           /\ Block(Pointer(Tree, n)).level = Pointer(Tree, n).level
<1> DEFINE p == Pointer(Tree, n)
<1>1. p.at = Tree[n].at /\ p.gen = Tree[n].gen /\ p.level = Height[n]
  BY DEF Pointer
<1>2. PICK c \in 1..Copies : disk[Tree[n].at][c] = BlockOf(Tree, n)
  BY DEF Intact
<1>3. BlockOf(Tree, n).sound = TRUE /\ BlockOf(Tree, n).at = Tree[n].at /\ BlockOf(Tree, n).gen = Tree[n].gen
      /\ BlockOf(Tree, n).level = Height[n]
  BY DEF BlockOf
<1> HIDE DEF p
<1>4. c \in Good(p)
  BY <1>1, <1>2, <1>3 DEF Good, Verifies
<1>5. Fetches(p)
  BY <1>4 DEF Fetches
<1>6. Told(OnDisk, Tree) /\ Pointer(Tree, n).at \in Addresses
  BY TreeIsTold
<1>7. reader.cache \in Seq([key : Addresses, value : OnDisk])
  BY DEF CommitInv, ReadingOK
<1>8. Block(Pointer(Tree, n)) = BlockOf(Tree, n)
  BY <1>5, <1>6, <1>7, FetchedBlock DEF p
<1> QED
  BY <1>1, <1>3, <1>5, <1>8 DEF p

\* A sequence taken through a function: its tail, and that of two put together.
LEMMA MappedTail ==
    ASSUME NEW V, NEW S, NEW f \in [V -> S], NEW d \in Seq(V), d # << >>
    PROVE  Tail([k \in 1..Len(d) |-> f[d[k]]]) = [k \in 1..Len(Tail(d)) |-> f[Tail(d)[k]]]
<1> DEFINE g == [k \in 1..Len(d) |-> f[d[k]]]
<1>1. /\ Len(d) \in Nat /\ Len(d) >= 1 /\ Tail(d) \in Seq(V) /\ Len(Tail(d)) = Len(d) - 1
      /\ \A k \in 1..Len(d) - 1 : Tail(d)[k] = d[k + 1] /\ k + 1 \in 1..Len(d)
  BY HeadTailProperties
<1>2. g \in Seq(S) /\ Len(g) = Len(d) /\ \A k \in 1..Len(d) : g[k] = f[d[k]]
  BY <1>1
<1> HIDE DEF g
<1>3. g # << >>
  BY <1>1, <1>2
<1>4. Tail(g) \in Seq(S) /\ Len(Tail(g)) = Len(d) - 1 /\ \A k \in 1..Len(d) - 1 : Tail(g)[k] = g[k + 1]
  BY <1>2, <1>3, HeadTailProperties
<1>5. \A k \in 1..Len(d) - 1 : Tail(g)[k] = f[Tail(d)[k]]
  BY <1>1, <1>2, <1>4
<1> DEFINE h == Tail(g)
<1>6. h \in Seq(S) /\ Len(h) = Len(d) - 1 /\ \A k \in 1..Len(d) - 1 : h[k] = f[Tail(d)[k]]
  BY <1>4, <1>5
<1> HIDE DEF h
<1>7. h = [k \in 1..Len(d) - 1 |-> h[k]]
  BY <1>6
<1>8. h = [k \in 1..Len(Tail(d)) |-> f[Tail(d)[k]]]
  BY <1>1, <1>6, <1>7
<1> QED
  BY <1>8 DEF h, g

LEMMA MappedConcat ==
    ASSUME NEW V, NEW S, NEW f \in [V -> S], NEW c \in Seq(V), NEW d \in Seq(V)
    PROVE  [k \in 1..Len(c) |-> f[c[k]]] \o [k \in 1..Len(d) |-> f[d[k]]]
              = [k \in 1..Len(c \o d) |-> f[(c \o d)[k]]]
<1> DEFINE a == [k \in 1..Len(c) |-> f[c[k]]]
           b == [k \in 1..Len(d) |-> f[d[k]]]
           e == c \o d
           C == Len(c)
           D == Len(d)
<1>1. C \in Nat /\ D \in Nat
  OBVIOUS
<1>2. /\ a \in Seq(S) /\ Len(a) = C /\ \A k \in 1..C : a[k] = f[c[k]]
      /\ b \in Seq(S) /\ Len(b) = D /\ \A k \in 1..D : b[k] = f[d[k]]
  OBVIOUS
<1>3. /\ e \in Seq(V) /\ Len(e) = C + D
      /\ \A k \in 1..C + D : e[k] = IF k <= C THEN c[k] ELSE d[k - C]
  BY ConcatProperties
<1> HIDE DEF a, b, e
<1>4. /\ a \o b \in Seq(S) /\ Len(a \o b) = Len(a) + Len(b)
      /\ \A k \in 1..Len(a) + Len(b) : (a \o b)[k] = IF k <= Len(a) THEN a[k] ELSE b[k - Len(a)]
  BY <1>2, ConcatProperties
<1> HIDE DEF C, D
<1>5. ASSUME NEW k \in 1..C + D PROVE (a \o b)[k] = f[e[k]]
  <2>1. CASE k <= C
    BY <2>1, <1>1, <1>2, <1>3, <1>4
  <2>2. CASE ~(k <= C)
    <3>1. k - C \in 1..D
      BY <2>2, <1>1
    <3> QED
      BY <2>2, <3>1, <1>1, <1>2, <1>3, <1>4
  <2> QED
    BY <2>1, <2>2
<1> DEFINE h == a \o b
<1>6. h \in Seq(S) /\ Len(h) = C + D
  BY <1>2, <1>4
<1> HIDE DEF h
<1>7. h = [k \in 1..C + D |-> h[k]]
  BY <1>6
<1>8. \A k \in 1..C + D : h[k] = f[e[k]]
  BY <1>5 DEF h
<1>9. h = [k \in 1..Len(e) |-> f[e[k]]]
  BY <1>3, <1>7, <1>8
<1> QED
  BY <1>9 DEF h, a, b, e

\* A block of a tree has one place in it.
LEMMA OnePlace ==
    ASSUME NEW top \in Set(Below[Roots]), NEW m \in Under[top], NEW n \in Under[top]
    PROVE  /\ top \notin Set(Below[n])
           /\ \A i \in 1..Len(Below[m]), j \in 1..Len(Below[n]) : Below[m][i] = Below[n][j] => m = n /\ i = j
           /\ \A x : x \in Set(Below[m]) /\ x \in Set(Below[n]) => m = n
<1>1. /\ top \notin Set(Below[n])
      /\ \A i \in 1..Len(Below[m]), j \in 1..Len(Below[n]) : Below[m][i] = Below[n][j] => m = n /\ i = j
  BY PlacesAssumption
<1>2. ASSUME NEW x, x \in Set(Below[m]), x \in Set(Below[n]) PROVE m = n
  <2>1. PICK i \in 1..Len(Below[m]) : x = Below[m][i]
    BY <1>2 DEF Set
  <2>2. PICK j \in 1..Len(Below[n]) : x = Below[n][j]
    BY <1>2 DEF Set
  <2> QED
    BY <2>1, <2>2, <1>1
<1> QED
  BY <1>1, <1>2

\* The next block taken makes way for what it leads to.
LEMMA MakesWay ==
    ASSUME NEW V, NEW left \in Seq(V), left # << >>, NEW below \in Seq(V),
           \A i, j \in 1..Len(left) : left[i] = left[j] => i = j,
           \A i, j \in 1..Len(below) : below[i] = below[j] => i = j,
           Set(below) \cap Set(left) = {}
    PROVE  /\ below \o Tail(left) \in Seq(V)
           /\ Set(below \o Tail(left)) = Set(below) \cup (Set(left) \ {left[1]})
           /\ \A i, j \in 1..Len(below \o Tail(left)) :
                 (below \o Tail(left))[i] = (below \o Tail(left))[j] => i = j
           /\ left[1] \in Set(left)
<1> DEFINE new == below \o Tail(left)
           B == Len(below)
           L == Len(left)
<1>1. B \in Nat /\ L \in Nat /\ L >= 1 /\ Tail(left) \in Seq(V) /\ Len(Tail(left)) = L - 1
      /\ \A i \in 1..L - 1 : Tail(left)[i] = left[i + 1]
  BY HeadTailProperties
<1>2. /\ new \in Seq(V) /\ Len(new) = B + (L - 1)
      /\ \A i \in 1..Len(new) : new[i] = IF i <= B THEN below[i] ELSE Tail(left)[i - B]
  BY <1>1, ConcatProperties
<1>3. ASSUME NEW i \in 1..Len(new)
      PROVE  \/ i \in 1..B /\ new[i] = below[i]
             \/ i \in B + 1..B + (L - 1) /\ i - B + 1 \in 2..L /\ new[i] = left[i - B + 1]
  <2>1. CASE i <= B
    BY <2>1, <1>1, <1>2
  <2>2. CASE ~(i <= B)
    <3>1. i \in B + 1..B + (L - 1) /\ i - B \in 1..L - 1 /\ i - B + 1 \in 2..L
      BY <2>2, <1>1, <1>2
    <3>2. new[i] = Tail(left)[i - B] /\ Tail(left)[i - B] = left[(i - B) + 1]
      BY <2>2, <3>1, <1>1, <1>2
    <3> QED
      BY <3>1, <3>2
  <2> QED
    BY <2>1, <2>2
<1>4. /\ \A i \in 1..B : i \in 1..Len(new) /\ new[i] = below[i]
      /\ \A k \in 2..L : k - 1 + B \in 1..Len(new) /\ new[k - 1 + B] = left[k]
  <2>1. ASSUME NEW i \in 1..B PROVE i \in 1..Len(new) /\ new[i] = below[i]
    BY <1>1, <1>2
  <2>2. ASSUME NEW k \in 2..L PROVE k - 1 + B \in 1..Len(new) /\ new[k - 1 + B] = left[k]
    <3>1. k - 1 + B \in 1..Len(new) /\ ~(k - 1 + B <= B) /\ k - 1 \in 1..L - 1 /\ (k - 1 + B) - B = k - 1
      BY <1>1, <1>2
    <3>2. new[k - 1 + B] = Tail(left)[k - 1]
      BY <3>1, <1>2
    <3> QED
      BY <3>1, <3>2, <1>1
  <2> QED
    BY <2>1, <2>2
<1> HIDE DEF new
<1>5. ASSUME NEW i \in 1..Len(new), NEW j \in 1..Len(new), new[i] = new[j] PROVE i = j
  <2>1. CASE i \in 1..B /\ j \in 1..B /\ new[i] = below[i] /\ new[j] = below[j]
    BY <2>1, <1>5
  <2>2. CASE /\ i - B + 1 \in 2..L /\ new[i] = left[i - B + 1]
             /\ j - B + 1 \in 2..L /\ new[j] = left[j - B + 1]
    <3>1. \A a, b \in 2..L : left[a] = left[b] => a = b
      BY <1>1
    <3>2. i - B + 1 = j - B + 1
      <4>1. left[i - B + 1] = left[j - B + 1]
        BY <2>2, <1>5
      <4> HIDE DEF B, L
      <4> QED
        BY <4>1, <3>1, <2>2
    <3> QED
      BY <3>2, <1>1, <1>2
  <2>3. ASSUME NEW x \in 1..B, NEW y \in 2..L PROVE below[x] # left[y]
    BY <1>1 DEF Set
  <2> QED
    BY <1>3, <1>5, <2>1, <2>2, <2>3
<1>6. Set(new) = Set(below) \cup (Set(left) \ {left[1]})
  <2>1. ASSUME NEW x \in Set(new) PROVE x \in Set(below) \cup (Set(left) \ {left[1]})
    <3>1. PICK i \in 1..Len(new) : x = new[i]
      BY DEF Set
    <3>2. CASE i \in 1..B /\ new[i] = below[i]
      BY <3>1, <3>2 DEF Set
    <3>3. CASE i - B + 1 \in 2..L /\ new[i] = left[i - B + 1]
      <4>1. PICK k \in 2..L : x = left[k]
        BY <3>1, <3>3
      <4>2. k \in 1..L /\ k # 1 /\ 1 \in 1..L
        BY <1>1
      <4>3. left[k] # left[1]
        BY <4>2
      <4> QED
        BY <4>1, <4>2, <4>3 DEF Set
    <3> QED
      BY <1>3, <3>2, <3>3
  <2>2. ASSUME NEW x \in Set(below) PROVE x \in Set(new)
    <3>1. PICK i \in 1..B : x = below[i]
      BY DEF Set
    <3> QED
      BY <3>1, <1>4 DEF Set
  <2>3. ASSUME NEW x \in Set(left), x # left[1] PROVE x \in Set(new)
    <3>1. PICK k \in 1..L : x = left[k]
      BY DEF Set
    <3>2. k \in 2..L
      BY <2>3, <3>1, <1>1
    <3> QED
      BY <3>1, <3>2, <1>4 DEF Set
  <2> QED
    BY <2>1, <2>2, <2>3
<1>7. left[1] \in Set(left)
  BY <1>1 DEF Set
<1> QED
  BY <1>2, <1>5, <1>6, <1>7 DEF new

\* A walk of an undamaged tree takes the next block.
LEMMA TakesNext ==
    ASSUME NEW top \in Set(Below[Roots]), NEW before, NEW after,
           NEW left \in Seq(Under[top]), NEW taken \in SUBSET Under[top], Walking(before, top, left, taken),
           left # << >>,
           after.stack = Pointers(Tree, left[1]) \o Tail(before.stack),
           after.visited = before.visited \cup {Tree[left[1]].at},
           before.got \subseteq after.got, Hands(after.got, left[1])
    PROVE  /\ Below[left[1]] \o Tail(left) \in Seq(Under[top])
           /\ Walking(after, top, Below[left[1]] \o Tail(left), taken \cup {left[1]})
<1> DEFINE n == left[1]
           new == Below[n] \o Tail(left)
<1>1. /\ before.stack = [k \in 1..Len(left) |-> Pointer(Tree, left[k])]
      /\ before.visited = {Tree[m].at : m \in taken}
      /\ \A i, j \in 1..Len(left) : left[i] = left[j] => i = j
      /\ Set(left) \cap taken = {} /\ top \in taken \cup Set(left)
      /\ \A m \in taken \cup Set(left) : m = top \/ \E k \in taken : m \in Set(Below[k])
      /\ \A m \in taken : Hands(before.got, m) /\ Set(Below[m]) \subseteq taken \cup Set(left)
  BY DEF Walking
<1>2. n \in Under[top] /\ Under[top] \subseteq Blocks /\ Set(Below[n]) \subseteq Under[top]
      /\ n \in Set(left) /\ n \notin taken /\ Len(left) \in Nat /\ Len(left) >= 1
  <2>1. Len(left) \in Nat /\ Len(left) >= 1 /\ n \in Under[top]
    OBVIOUS
  <2>2. n \in Set(left)
    BY <2>1 DEF Set
  <2>3. top \in Blocks
    BY Tops DEF Set
  <2> QED
    BY <2>1, <2>2, <2>3, <1>1, UnderFacts
<1>3. Below[n] \in Seq(Under[top])
  <2>1. Below[n] \in Seq(Blocks)
    BY <1>2, TreesAssumption
  <2>2. \A i \in 1..Len(Below[n]) : Below[n][i] \in Under[top]
    BY <1>2 DEF Set
  <2> QED
    BY <2>1, <2>2
<1>4. \A i, j \in 1..Len(Below[n]) : Below[n][i] = Below[n][j] => i = j
  BY <1>2, OnePlace
<1>5. Set(Below[n]) \cap (taken \cup Set(left)) = {}
  <2> SUFFICES ASSUME NEW x \in Set(Below[n]), x \in taken \cup Set(left) PROVE FALSE
    OBVIOUS
  <2>1. x # top
    BY <1>2, OnePlace
  <2>2. PICK k \in taken : x \in Set(Below[k])
    BY <2>1, <1>1
  <2>3. \A y : y \in Set(Below[k]) /\ y \in Set(Below[n]) => k = n
    <3>1. k \in Under[top] /\ n \in Under[top]
      BY <1>2
    <3> HIDE DEF n
    <3> QED
      BY <3>1, OnePlace
  <2>4. k = n
    BY <2>2, <2>3
  <2> QED
    BY <2>2, <2>4, <1>2
<1>6. /\ new \in Seq(Under[top])
      /\ Set(new) = Set(Below[n]) \cup (Set(left) \ {n})
      /\ \A i, j \in 1..Len(new) : new[i] = new[j] => i = j
  <2>1. Set(Below[n]) \cap Set(left) = {}
    BY <1>5
  <2> DEFINE below == Below[n]
  <2>2. /\ below \in Seq(Under[top]) /\ Set(below) \cap Set(left) = {}
        /\ \A i, j \in 1..Len(below) : below[i] = below[j] => i = j
        /\ \A i, j \in 1..Len(left) : left[i] = left[j] => i = j
    BY <2>1, <1>1, <1>3, <1>4
  <2> HIDE DEF below
  <2>3. /\ below \o Tail(left) \in Seq(Under[top])
        /\ Set(below \o Tail(left)) = Set(below) \cup (Set(left) \ {left[1]})
        /\ \A i, j \in 1..Len(below \o Tail(left)) :
              (below \o Tail(left))[i] = (below \o Tail(left))[j] => i = j
    BY <2>2, MakesWay
  <2> QED
    BY <2>3 DEF below
<1>7. after.stack = [k \in 1..Len(new) |-> Pointer(Tree, new[k])]
  <2> DEFINE f == [m \in Under[top] |-> Pointer(Tree, m)]
             S == {Pointer(Tree, m) : m \in Under[top]}
             below == Below[n]
  <2>1. f \in [Under[top] -> S] /\ \A m \in Under[top] : f[m] = Pointer(Tree, m)
    OBVIOUS
  <2>2. below \in Seq(Under[top]) /\ Tail(left) \in Seq(Under[top])
    BY <1>3, HeadTailProperties
  <2>3. ASSUME NEW seq \in Seq(Under[top])
        PROVE  [k \in 1..Len(seq) |-> Pointer(Tree, seq[k])] = [k \in 1..Len(seq) |-> f[seq[k]]]
    <3>1. \A k \in 1..Len(seq) : f[seq[k]] = Pointer(Tree, seq[k])
      BY <2>1
    <3> HIDE DEF f
    <3> QED
      BY <3>1
  <2>4. Pointers(Tree, n) = [k \in 1..Len(below) |-> Pointer(Tree, below[k])]
    BY DEF Pointers
  <2> HIDE DEF f, S, below
  <2>5. Pointers(Tree, n) = [k \in 1..Len(below) |-> f[below[k]]]
    BY <2>2, <2>3, <2>4
  <2>6. before.stack = [k \in 1..Len(left) |-> f[left[k]]]
    BY <1>1, <2>3
  <2>7. Tail(before.stack) = [k \in 1..Len(Tail(left)) |-> f[Tail(left)[k]]]
    BY <2>1, <2>6, MappedTail
  <2> DEFINE rest == Tail(left)
             here == [k \in 1..Len(below) |-> f[below[k]]]
             there == [k \in 1..Len(rest) |-> f[rest[k]]]
  <2>8. Pointers(Tree, n) = here /\ Tail(before.stack) = there
    BY <2>5, <2>7
  <2>9. here \o there = [k \in 1..Len(below \o rest) |-> f[(below \o rest)[k]]]
    <3>1. rest \in Seq(Under[top])
      BY <2>2
    <3> HIDE DEF rest
    <3> QED
      BY <3>1, <2>1, <2>2, MappedConcat
  <2> HIDE DEF here, there
  <2>10. after.stack = [k \in 1..Len(below \o Tail(left)) |-> f[(below \o Tail(left))[k]]]
    BY <2>8, <2>9
  <2>11. new = below \o Tail(left)
    BY DEF below
  <2> HIDE DEF new
  <2>12. after.stack = [k \in 1..Len(new) |-> f[new[k]]]
    BY <2>10, <2>11
  <2> QED
    BY <1>6, <2>3, <2>12
<1>8. after.visited = {Tree[m].at : m \in taken \cup {n}}
  BY <1>1
<1> HIDE DEF new
<1>9. ASSUME NEW m \in (taken \cup {n}) \cup Set(new)
      PROVE  m = top \/ \E k \in taken \cup {n} : m \in Set(Below[k])
  BY <1>1, <1>2, <1>6
<1>10. ASSUME NEW m \in taken \cup {n}
       PROVE  Hands(after.got, m) /\ Set(Below[m]) \subseteq (taken \cup {n}) \cup Set(new)
  <2>1. CASE m = n
    BY <2>1, <1>6
  <2>2. CASE m \in taken
    BY <2>2, <1>1, <1>6 DEF Hands
  <2> QED
    BY <2>1, <2>2
<1>11. Set(new) \cap (taken \cup {n}) = {} /\ top \in (taken \cup {n}) \cup Set(new)
  BY <1>1, <1>2, <1>5, <1>6
<1> QED
  BY <1>6, <1>7, <1>8, <1>9, <1>10, <1>11 DEF Walking, new

\* A walk that is through has handed the whole tree over.
LEMMA WalkIsDone ==
    ASSUME NEW top \in Blocks, NEW at_hand, NEW left \in Seq(Under[top]), NEW taken \in SUBSET Under[top],
           Walking(at_hand, top, left, taken), at_hand.stack = << >>
    PROVE  \A n \in Under[top] : Hands(at_hand.got, n)
<1>1. Len(left) = 0
  <2>1. at_hand.stack = [k \in 1..Len(left) |-> Pointer(Tree, left[k])] /\ Len(left) \in Nat
    BY DEF Walking
  <2>2. DOMAIN at_hand.stack = 1..Len(left)
    BY <2>1
  <2>3. DOMAIN at_hand.stack = {}
    OBVIOUS
  <2> QED
    BY <2>1, <2>2, <2>3
<1>2. Set(left) = {}
  BY <1>1 DEF Set
<1>3. top \in taken /\ \A n \in taken : Hands(at_hand.got, n) /\ Set(Below[n]) \subseteq taken
  BY <1>2 DEF Walking
<1>4. Under[top] \subseteq taken
  BY <1>3, UnderFacts
<1> QED
  BY <1>3, <1>4

\* What is left of a sequence after its first i, without the next one.
LEMMA OneFewer ==
    ASSUME NEW S, NEW N \in Nat, NEW f \in [1..N -> S], NEW i \in 0..N,
           NEW g, g = [k \in 1..N - i |-> f[i + k]], g # << >>
    PROVE  /\ i + 1 \in 1..N /\ Head(g) = f[i + 1]
           /\ Tail(g) = [k \in 1..N - (i + 1) |-> f[(i + 1) + k]]
<1>1. N - i \in Nat /\ \A k \in 1..N - i : i + k \in 1..N
  OBVIOUS
<1>2. g \in Seq(S) /\ Len(g) = N - i /\ \A k \in 1..N - i : g[k] = f[i + k]
  BY <1>1
<1>3. N - i # 0
  BY <1>2
<1>4. i + 1 \in 1..N /\ N - (i + 1) \in Nat /\ N - (i + 1) = (N - i) - 1 /\ 1 \in 1..N - i
  BY <1>1, <1>3
<1>5. Head(g) = g[1] /\ Tail(g) \in Seq(S) /\ Len(Tail(g)) = (N - i) - 1
      /\ \A k \in 1..(N - i) - 1 : Tail(g)[k] = g[k + 1]
  <2>1. g \in Seq(S) /\ g # << >> /\ Len(g) = N - i
    BY <1>2
  <2>2. /\ Head(g) \in S /\ Tail(g) \in Seq(S) /\ Len(Tail(g)) = Len(g) - 1
        /\ \A k \in 1..Len(Tail(g)) : Tail(g)[k] = g[k + 1]
    BY <2>1, HeadTailProperties
  <2>3. Head(g) = g[1]
    BY <2>1
  <2>4. Len(Tail(g)) = (N - i) - 1
    BY <2>1, <2>2
  <2> QED
    BY <2>2, <2>3, <2>4
<1> DEFINE h == Tail(g)
<1>6. ASSUME NEW k \in 1..N - (i + 1) PROVE h[k] = f[(i + 1) + k]
  <2>1. k + 1 \in 1..N - i /\ i + (k + 1) = (i + 1) + k
    BY <1>4
  <2> QED
    BY <2>1, <1>2, <1>4, <1>5
<1>7. h \in Seq(S) /\ Len(h) = N - (i + 1)
  BY <1>4, <1>5
<1> HIDE DEF h
<1>8. h = [k \in 1..N - (i + 1) |-> h[k]]
  BY <1>7
<1>9. h = [k \in 1..N - (i + 1) |-> f[(i + 1) + k]]
  BY <1>6, <1>8
<1> QED
  BY <1>2, <1>4, <1>5, <1>9 DEF h

\* The walk of the next tree begins at its top.
LEMMA WalkBegins ==
    ASSUME NEW top \in Blocks, NEW after, after.stack = <<Pointer(Tree, top)>>, after.visited = {}
    PROVE  \E left \in Seq(Under[top]), taken \in SUBSET Under[top] : Walking(after, top, left, taken)
<1>1. <<top>> \in Seq(Under[top]) /\ {} \in SUBSET Under[top]
  <2>1. top \in Under[top]
    BY UnderFacts
  <2>2. \A V : top \in V => <<top>> \in Seq(V)
    OBVIOUS
  <2> QED
    BY <2>1, <2>2
<1> DEFINE left == <<top>>
<1>2. Len(left) = 1 /\ left[1] = top
  OBVIOUS
<1>3. Set(left) = {top}
  BY <1>2 DEF Set
<1>4. after.stack = [k \in 1..Len(left) |-> Pointer(Tree, left[k])]
  BY <1>2
<1> HIDE DEF left
<1>5. Walking(after, top, left, {})
  BY <1>2, <1>3, <1>4 DEF Walking
<1> QED
  BY <1>1, <1>5 DEF left

\* Going on to the next tree leaves the one before it done.
LEMMA OnwardProgresses ==
    ASSUME NEW after, DOMAIN after = DOMAIN Closed, NEW i \in 0..Len(Below[Roots]), At(after, i)
    PROVE  Progress(Onward(after))
<1>1. CASE after.stack # << >> \/ after.trees = << >>
  <2>1. Onward(after) = after
    BY <1>1 DEF Onward
  <2> QED
    BY <2>1, <1>1 DEF Progress
<1>2. CASE ~(after.stack # << >> \/ after.trees = << >>)
  <2> DEFINE N == Len(Below[Roots])
             f == [k \in 1..N |-> Pointer(Tree, Below[Roots][k])]
             S == {Pointer(Tree, Below[Roots][k]) : k \in 1..N}
             later == Onward(after)
  <2>1. later = [after EXCEPT !.stack = <<Head(after.trees)>>, !.trees = Tail(@), !.visited = {}]
    BY <1>2 DEF Onward
  <2> HIDE DEF later
  <2>2. /\ later.stack = <<Head(after.trees)>> /\ later.trees = Tail(after.trees)
        /\ later.visited = {} /\ later.got = after.got
    BY <2>1, Fields
  <2>3. /\ Hands(after.got, Roots)
        /\ after.trees = [k \in 1..N - i |-> Pointer(Tree, Below[Roots][i + k])]
        /\ \A j \in 1..i - 1 : DoneWith(after.got, Below[Roots][j])
        /\ i > 0 /\ Safe(Below[Roots][i]) =>
              \E left \in Seq(Under[Below[Roots][i]]), taken \in SUBSET Under[Below[Roots][i]] :
                  Walking(after, Below[Roots][i], left, taken)
    BY DEF At
  <2>4. N \in Nat /\ f \in [1..N -> S] /\ \A k \in 1..N : f[k] = Pointer(Tree, Below[Roots][k])
    BY Tops
  <2>5. after.trees = [k \in 1..N - i |-> f[i + k]]
    <3>1. \A k \in 1..N - i : f[i + k] = Pointer(Tree, Below[Roots][i + k])
      BY <2>4
    <3> HIDE DEF f, N
    <3> QED
      BY <3>1, <2>3
  <2>6. /\ i + 1 \in 1..N /\ Head(after.trees) = f[i + 1]
        /\ Tail(after.trees) = [k \in 1..N - (i + 1) |-> f[(i + 1) + k]]
    <3> HIDE DEF f, S, N
    <3>1. i \in 0..N
      BY DEF N
    <3> QED
      BY <3>1, <2>4, <2>5, <1>2, OneFewer
  <2>7. later.trees = [k \in 1..N - (i + 1) |-> Pointer(Tree, Below[Roots][(i + 1) + k])]
    <3>1. \A k \in 1..N - (i + 1) : f[(i + 1) + k] = Pointer(Tree, Below[Roots][(i + 1) + k])
      BY <2>4, <2>6
    <3> HIDE DEF f, N
    <3> QED
      BY <3>1, <2>2, <2>6
  <2>8. later.stack = <<Pointer(Tree, Below[Roots][i + 1])>> /\ Below[Roots][i + 1] \in Blocks
    BY <2>2, <2>4, <2>6, Tops
  <2>9. \E left \in Seq(Under[Below[Roots][i + 1]]), taken \in SUBSET Under[Below[Roots][i + 1]] :
            Walking(later, Below[Roots][i + 1], left, taken)
    BY <2>2, <2>8, WalkBegins
  <2>10. ASSUME NEW j \in 1..(i + 1) - 1 PROVE DoneWith(later.got, Below[Roots][j])
    <3>1. CASE j \in 1..i - 1
      BY <3>1, <2>2, <2>3
    <3>2. CASE j = i
      <4> SUFFICES ASSUME Safe(Below[Roots][i])
                   PROVE  \A n \in Under[Below[Roots][i]] : Hands(after.got, n)
        BY <3>2, <2>2 DEF DoneWith
      <4>1. i \in 1..N /\ i > 0
        BY <3>2, <2>6
      <4>2. PICK left \in Seq(Under[Below[Roots][i]]), taken \in SUBSET Under[Below[Roots][i]] :
               Walking(after, Below[Roots][i], left, taken)
        BY <4>1, <2>3
      <4>3. Below[Roots][i] \in Blocks
        BY <4>1, Tops
      <4> QED
        BY <4>2, <4>3, <1>2, WalkIsDone
    <3>3. j \in 1..i - 1 \/ j = i
      BY <2>6
    <3> QED
      BY <3>1, <3>2, <3>3
  <2>11. At(later, i + 1)
    <3>1. Hands(later.got, Roots)
      BY <2>2, <2>3
    <3>2. i + 1 # 0
      BY <2>6
    <3> HIDE DEF f, S
    <3> QED
      BY <2>7, <2>9, <2>10, <3>1, <3>2 DEF At
  <2>12. later.stack # << >> /\ i + 1 \in 0..N
    BY <2>2, <2>6
  <2> QED
    BY <2>11, <2>12 DEF Progress, later
<1> QED
  BY <1>1, <1>2

\* What one more block, or giving up, leaves of a lenient reading.
LEMMA OneMore ==
    ASSUME DOMAIN reader = DOMAIN Closed, Descend
    PROVE  \E after :
              LET p == Head(reader.stack)
              IN  /\ reader' = Onward(after) /\ DOMAIN after = DOMAIN Closed
                  /\ after.trees = reader.trees /\ after.policy = reader.policy
                  /\ \/ /\ p.at \in reader.visited \/ ~Fetches(p) \/ Block(p).level # p.level
                        /\ after.stack = << >> /\ after.got = reader.got
                     \/ /\ Fetches(p) /\ Block(p).level = p.level
                        /\ after.stack = Block(p).children \o Tail(reader.stack)
                        /\ after.visited = reader.visited \cup {p.at}
                        /\ after.got = reader.got \cup {[asked |-> p.name, block |-> Block(p)]}
<1> DEFINE p == Head(reader.stack)
<1>1. PICK after :
         /\ reader' = Onward(after)
         /\ \/ (p.at \in reader.visited \/ ~Fetches(p)) /\ after = GivesUp(reader, p)
            \/ Block(p).level # p.level /\ after = GivesUp(Fetched(p), p)
            \/ /\ Fetches(p) /\ Block(p).level = p.level
               /\ after = [Took(p) EXCEPT !.stack = Block(p).children \o Tail(@), !.visited = @ \cup {p.at}]
  BY DEF Descend
<1> HIDE DEF p
<1>2. /\ DOMAIN Fetched(p) = DOMAIN Closed /\ DOMAIN Took(p) = DOMAIN Closed
      /\ \A f \in {"pc", "policy", "trees", "stack", "visited", "refused"} :
            Fetched(p)[f] = reader[f] /\ Took(p)[f] = reader[f]
  BY FetchFacts
<1>3. /\ Fetched(p).got = reader.got
      /\ Took(p).got = reader.got \cup {[asked |-> p.name, block |-> Block(p)]}
  <2> DEFINE asked_for == IF p.at \in Keys(reader.cache) THEN Get(reader.cache, p.at) ELSE reader.cache
             cache == IF Held(p) THEN asked_for ELSE Insert(asked_for, Capacity, p.at, Block(p))
  <2>1. Fetched(p) = [reader EXCEPT !.cache = cache, !.through = @ \cup Through(p)]
    BY DEF Fetched
  <2> HIDE DEF cache, asked_for
  <2>2. Fetched(p).got = reader.got
    BY <2>1, Fields
  <2>3. Took(p) = [Fetched(p) EXCEPT !.got = @ \cup {[asked |-> p.name, block |-> Block(p)]}]
    BY DEF Took
  <2> QED
    BY <2>2, <2>3, <1>2, Fields
<1>4. CASE (p.at \in reader.visited \/ ~Fetches(p)) /\ after = GivesUp(reader, p)
  <2>1. /\ DOMAIN after = DOMAIN Closed /\ after.trees = reader.trees /\ after.stack = << >>
        /\ after.got = reader.got /\ after.policy = reader.policy
    BY <1>4, Fields DEF GivesUp
  <2> QED
    BY <1>1, <1>4, <2>1 DEF p
<1>5. CASE Block(p).level # p.level /\ after = GivesUp(Fetched(p), p)
  <2>1. /\ DOMAIN after = DOMAIN Closed /\ after.trees = reader.trees /\ after.stack = << >>
        /\ after.got = reader.got /\ after.policy = reader.policy
    BY <1>2, <1>3, <1>5, Fields DEF GivesUp
  <2> QED
    BY <1>1, <1>5, <2>1 DEF p
<1>6. CASE /\ Fetches(p) /\ Block(p).level = p.level
           /\ after = [Took(p) EXCEPT !.stack = Block(p).children \o Tail(@), !.visited = @ \cup {p.at}]
  <2>1. /\ DOMAIN after = DOMAIN Closed /\ after.trees = reader.trees
        /\ after.stack = Block(p).children \o Tail(reader.stack)
        /\ after.visited = reader.visited \cup {p.at}
        /\ after.got = reader.got \cup {[asked |-> p.name, block |-> Block(p)]}
        /\ after.policy = reader.policy
    BY <1>2, <1>3, <1>6, Fields
  <2> QED
    BY <1>1, <1>6, <2>1 DEF p
<1> QED
  BY <1>1, <1>4, <1>5, <1>6

LEMMA DescendProgresses ==
    ASSUME CommitInv, Genuine, ToldApart, Intact(Roots), reader.policy = "lenient", Descend, Progress(reader)
    PROVE  \E at_hand : at_hand = reader' /\ Progress(at_hand)
<1> DEFINE p == Head(reader.stack)
<1>1. reader.stack # << >> /\ DOMAIN reader = DOMAIN Closed
  BY DEF Descend, CommitInv, ReadingOK
<1>2. PICK i \in 0..Len(Below[Roots]) : At(reader, i)
  BY DEF Progress
<1>3. PICK after :
         /\ reader' = Onward(after) /\ DOMAIN after = DOMAIN Closed /\ after.trees = reader.trees
         /\ \/ /\ p.at \in reader.visited \/ ~Fetches(p) \/ Block(p).level # p.level
               /\ after.stack = << >> /\ after.got = reader.got
            \/ /\ Fetches(p) /\ Block(p).level = p.level
               /\ after.stack = Block(p).children \o Tail(reader.stack)
               /\ after.visited = reader.visited \cup {p.at}
               /\ after.got = reader.got \cup {[asked |-> p.name, block |-> Block(p)]}
  BY <1>1, OneMore
<1> HIDE DEF p
<1>4. reader.got \subseteq after.got
  BY <1>3
<1>5. /\ Hands(after.got, Roots)
      /\ after.trees = [k \in 1..Len(Below[Roots]) - i |-> Pointer(Tree, Below[Roots][i + k])]
      /\ \A j \in 1..i - 1 : DoneWith(after.got, Below[Roots][j])
  BY <1>2, <1>3, <1>4 DEF At, Hands, DoneWith
<1>6. ASSUME i = 0 PROVE after.stack \in {<<Pointer(Tree, Roots)>>, << >>}
  <2>1. reader.stack = <<Pointer(Tree, Roots)>>
    BY <1>1, <1>2, <1>6 DEF At
  <2>2. p = Pointer(Tree, Roots) /\ Tail(reader.stack) = << >>
    BY <2>1 DEF p
  <2>3. Block(p) = BlockOf(Tree, Roots)
    BY <2>2, Tops, IntactIsTaken
  <2>4. Block(p).children = << >>
    BY <2>3 DEF BlockOf
  <2>5. << >> \o << >> = << >>
    OBVIOUS
  <2> QED
    BY <2>2, <2>4, <2>5, <1>3
<1>7. ASSUME i > 0, Safe(Below[Roots][i])
      PROVE  \E left \in Seq(Under[Below[Roots][i]]), taken \in SUBSET Under[Below[Roots][i]] :
                Walking(after, Below[Roots][i], left, taken)
  <2> DEFINE top == Below[Roots][i]
  <2>1. i \in 1..Len(Below[Roots])
    BY <1>7, Tops
  <2>2. top \in Blocks /\ top \in Set(Below[Roots]) /\ Roots \notin Under[top]
    BY <2>1, Tops
  <2>3. Under[top] \subseteq Blocks
    BY <2>2, UnderFacts
  <2>4. \E left \in Seq(Under[top]), taken \in SUBSET Under[top] : Walking(reader, top, left, taken)
    BY <1>2, <1>7 DEF At
  <2>5. Safe(top)
    BY <1>7
  <2> HIDE DEF top
  <2>6. PICK left \in Seq(Under[top]), taken \in SUBSET Under[top] : Walking(reader, top, left, taken)
    BY <2>4
  <2>7. /\ reader.stack = [k \in 1..Len(left) |-> Pointer(Tree, left[k])]
        /\ reader.visited = {Tree[m].at : m \in taken} /\ Set(left) \cap taken = {}
    BY <2>6 DEF Walking
  <2>8. left # << >>
    BY <2>7, <1>1
  <2>9. Len(left) \in Nat /\ Len(left) >= 1 /\ left[1] \in Under[top] /\ left[1] \in Set(left)
    <3>1. Len(left) \in Nat /\ Len(left) >= 1 /\ left[1] \in Under[top]
      BY <2>8
    <3> QED
      BY <3>1 DEF Set
  <2>10. p = Pointer(Tree, left[1])
    <3>1. Head(reader.stack) = reader.stack[1]
      BY <1>1
    <3> QED
      BY <3>1, <2>7, <2>9 DEF p
  <2>11. left[1] \in Blocks /\ Intact(left[1]) /\ left[1] # Roots
    BY <2>2, <2>3, <2>5, <2>9 DEF Safe
  <2>12. Fetches(p) /\ Block(p) = BlockOf(Tree, left[1]) /\ Block(p).level = p.level
    BY <2>10, <2>11, IntactIsTaken
  <2>13. p.at = Tree[left[1]].at /\ p.name = left[1]
    BY <2>10 DEF Pointer
  <2>14. p.at \notin reader.visited
    <3>1. Chosen \in Whole
      BY ChosenFacts DEF Genuine, CommitInv
    <3>2. Laid(Tree)
      BY <3>1 DEF CommitInv, SupersOK, Tree
    <3>3. \A m \in taken : m \in Blocks /\ m # left[1]
      BY <2>3, <2>7, <2>9
    <3>4. \A m \in taken : Tree[m].at # Tree[left[1]].at
      BY <3>2, <3>3, <2>11 DEF Laid
    <3> QED
      BY <3>4, <2>7, <2>13
  <2>15. Block(p).children = Pointers(Tree, left[1])
    BY <2>11, <2>12 DEF BlockOf
  <2>16. /\ after.stack = Pointers(Tree, left[1]) \o Tail(reader.stack)
         /\ after.visited = reader.visited \cup {Tree[left[1]].at}
         /\ Hands(after.got, left[1])
    BY <1>3, <2>12, <2>13, <2>14, <2>15 DEF Hands
  <2>17. /\ Below[left[1]] \o Tail(left) \in Seq(Under[top])
         /\ Walking(after, top, Below[left[1]] \o Tail(left), taken \cup {left[1]})
    BY <1>4, <2>2, <2>6, <2>8, <2>16, TakesNext
  <2>18. taken \cup {left[1]} \in SUBSET Under[top]
    BY <2>9
  <2>19. \E some \in Seq(Under[top]), more \in SUBSET Under[top] : Walking(after, top, some, more)
    BY <2>17, <2>18
  <2> QED
    BY <2>19 DEF top
<1>8. At(after, i)
  BY <1>5, <1>6, <1>7 DEF At
<1>9. Progress(Onward(after))
  BY <1>3, <1>8, OnwardProgresses
<1> QED
  BY <1>3, <1>9

\* A reading that was through has handed over every undamaged tree.
LEMMA ThroughIsGathered ==
    ASSUME NEW at_hand, Progress(at_hand), at_hand.stack = << >>
    PROVE  Gathered(at_hand.got)
<1>1. PICK i \in 0..Len(Below[Roots]) : At(at_hand, i)
  BY DEF Progress
<1>2. Len(Below[Roots]) - i = 0
  <2>1. at_hand.trees = [k \in 1..Len(Below[Roots]) - i |-> Pointer(Tree, Below[Roots][i + k])]
    BY <1>1 DEF At
  <2>2. at_hand.trees = << >>
    BY DEF Progress
  <2>3. Len(Below[Roots]) - i \in Nat
    BY Tops
  <2>4. DOMAIN at_hand.trees = 1..Len(Below[Roots]) - i /\ DOMAIN at_hand.trees = {}
    <3>1. DOMAIN at_hand.trees = 1..Len(Below[Roots]) - i
      BY <2>1
    <3>2. DOMAIN at_hand.trees = {}
      BY <2>2
    <3> QED
      BY <3>1, <3>2
  <2>5. \A x \in Nat : 1..x = {} => x = 0
    OBVIOUS
  <2> QED
    BY <2>3, <2>4, <2>5
<1>3. i = Len(Below[Roots])
  BY <1>2, Tops
<1>4. ASSUME NEW top \in Set(Below[Roots]) PROVE DoneWith(at_hand.got, top)
  <2>1. PICK j \in 1..Len(Below[Roots]) : top = Below[Roots][j]
    BY DEF Set
  <2>2. CASE j \in 1..i - 1
    BY <2>1, <2>2, <1>1 DEF At
  <2>3. CASE j = i
    <3> SUFFICES ASSUME Safe(top) PROVE \A n \in Under[top] : Hands(at_hand.got, n)
      BY DEF DoneWith
    <3>1. i > 0 /\ top = Below[Roots][i] /\ top \in Blocks
      BY <2>1, <2>3, Tops
    <3>2. PICK left \in Seq(Under[top]), taken \in SUBSET Under[top] : Walking(at_hand, top, left, taken)
      BY <3>1, <1>1 DEF At
    <3> QED
      BY <3>1, <3>2, WalkIsDone
  <2>4. j \in 1..i - 1 \/ j = i
    BY <1>3, Tops
  <2> QED
    BY <2>2, <2>3, <2>4
<1> QED
  BY <1>1, <1>4 DEF Gathered, At

\* The root tree is read, and the walk of every tree is to come.
LEMMA RootsProgress ==
    ASSUME CommitInv, Genuine, ToldApart, Intact(Roots), reader.policy = "lenient", ReadRoots
    PROVE  answers' = answers /\ \E at_hand : at_hand = reader' /\ Progress(at_hand)
<1> DEFINE p == Pointer(Tree, Roots)
<1>1. RootTree(supers[Chosen]) = p /\ Roots \in Blocks
  BY Tops DEF Genuine, Tree, RootTree
<1>2. Fetches(p) /\ Block(p) = BlockOf(Tree, Roots) /\ Block(p).level = p.level
  BY <1>1, IntactIsTaken
<1>3. DOMAIN reader = DOMAIN Closed /\ reader.cache \in Seq([key : Addresses, value : OnDisk])
  BY DEF CommitInv, ReadingOK
<1>4. Told(OnDisk, Tree) /\ p.at \in Addresses
  BY <1>1, TreeIsTold
<1>5. /\ DOMAIN Took(p) = DOMAIN Closed
      /\ Took(p).got = reader.got \cup {[asked |-> Roots, block |-> BlockOf(Tree, Roots)]}
  BY <1>1, <1>2, <1>3, <1>4, TookFacts
<1>6. Block(p).items = [k \in 1..Len(Below[Roots]) |-> Pointer(Tree, Below[Roots][k])]
  BY <1>2 DEF BlockOf, Pointers
<1> HIDE DEF p
<1>7. /\ answers' = answers
      /\ reader' = [Took(p) EXCEPT !.pc = "trees", !.stack = <<p>>, !.trees = Block(p).items]
  BY <1>1, <1>2 DEF ReadRoots
<1> DEFINE after == [Took(p) EXCEPT !.pc = "trees", !.stack = <<p>>, !.trees = Block(p).items]
<1>8. after.stack = <<p>> /\ after.trees = Block(p).items /\ after.got = Took(p).got
  BY <1>5, Fields
<1> HIDE DEF after
<1>9. At(after, 0)
  <2>1. Hands(after.got, Roots)
    BY <1>5, <1>8 DEF Hands
  <2>2. after.trees = [k \in 1..Len(Below[Roots]) - 0 |-> Pointer(Tree, Below[Roots][0 + k])]
    <3>1. Len(Below[Roots]) - 0 = Len(Below[Roots]) /\ \A k \in 1..Len(Below[Roots]) : 0 + k = k
      BY Tops
    <3> QED
      BY <3>1, <1>6, <1>8
  <2>3. \A j \in 1..0 - 1 : FALSE
    OBVIOUS
  <2> QED
    BY <2>1, <2>2, <2>3, <1>8 DEF At, p
<1>10. after.stack # << >> /\ 0 \in 0..Len(Below[Roots])
  BY <1>8, Tops
<1>11. Progress(after)
  BY <1>9, <1>10 DEF Progress
<1> QED
  BY <1>7, <1>11 DEF after

\* What a reading is measured by stays as it is while it reads.
LEMMA MeasureRests ==
    ASSUME UNCHANGED <<image, driver>>
    PROVE  /\ (Genuine' <=> Genuine) /\ (ToldApart' <=> ToldApart) /\ (Intact(Roots)' <=> Intact(Roots))
           /\ \A at_hand : Progress(at_hand) => Progress(at_hand)'
           /\ \A got : Gathered(got) => Gathered(got)'
<1>1. Tree' = Tree /\ disk' = disk /\ (Genuine' <=> Genuine) /\ (ToldApart' <=> ToldApart)
  BY StaysPut DEF image
<1>2. ASSUME NEW n PROVE Intact(n) <=> Intact(n)'
  BY <1>1 DEF Intact, BlockOf, Pointers, Pointer
<1>3. ASSUME NEW got, NEW n PROVE Hands(got, n) <=> Hands(got, n)'
  BY <1>1 DEF Hands, BlockOf, Pointers, Pointer
<1>4. ASSUME NEW top PROVE Safe(top) <=> Safe(top)'
  BY <1>2 DEF Safe
<1>5. ASSUME NEW got, NEW top PROVE DoneWith(got, top) <=> DoneWith(got, top)'
  BY <1>3, <1>4 DEF DoneWith
<1>6. ASSUME NEW at_hand, NEW top, NEW left, NEW taken
      PROVE  Walking(at_hand, top, left, taken) <=> Walking(at_hand, top, left, taken)'
  BY <1>1, <1>3 DEF Walking, Pointer
<1>7. ASSUME NEW at_hand, NEW i PROVE At(at_hand, i) <=> At(at_hand, i)'
  BY <1>1, <1>3, <1>4, <1>5, <1>6 DEF At, Pointer
<1>8. ASSUME NEW at_hand PROVE Progress(at_hand) => Progress(at_hand)'
  BY <1>7 DEF Progress
<1>9. ASSUME NEW got PROVE Gathered(got) => Gathered(got)'
  BY <1>3, <1>5 DEF Gathered
<1> QED
  BY <1>1, <1>2, <1>8, <1>9

LEMMA ReadsOnStep ==
    ASSUME CommitInv, ReadsOn, [Next]_vars
    PROVE  ReadsOn'
<1>1. /\ DOMAIN reader = DOMAIN Closed /\ DOMAIN answers = Policies
      /\ answers["lenient"] # Unread => answers["strict"] # Unread
      /\ reader.pc \in {"roots", "trees"} => reader.policy \in Policies
      /\ power = "on" => reader = Closed /\ answers["strict"] = Unread
  BY DEF CommitInv, ReadingOK, DriverOK
<1>2. CASE Begin \/ LoseBlocks \/ WriteSuper \/ Stop \/ Mount \/ SpoilSuper \/ SpoilBlock
  <2>1. UNCHANGED asked /\ (power = "on" \/ (reader = Closed /\ answers["strict"] = Unread))
    BY <1>2 DEF Begin, LoseBlocks, WriteSuper, Stop, Mount, SpoilSuper, SpoilBlock, Untouched
  <2>2. reader' = Closed /\ answers'["lenient"] = Unread
    BY <1>1, <2>1 DEF asked
  <2>3. reader'.pc # "trees"
    BY <2>2 DEF Closed
  <2> QED
    BY <2>2, <2>3 DEF ReadsOn
<1>3. CASE ReadImage \/ UNCHANGED vars
  <2>1. UNCHANGED <<image, driver>>
    BY <1>3 DEF ReadImage, Read, Open, ReadRoots, Descend, Report, vars
  <2> SUFFICES ASSUME Genuine, ToldApart, Intact(Roots)
               PROVE  /\ reader'.policy = "lenient" /\ reader'.pc = "trees" =>
                            \E at_hand : at_hand = reader' /\ Progress(at_hand)
                      /\ answers'["lenient"] # Unread =>
                            answers'["lenient"].outcome = "read" /\ Gathered(answers'["lenient"].got)
    BY <2>1, MeasureRests DEF ReadsOn, Opened
  <2>2. /\ reader.policy = "lenient" /\ reader.pc = "trees" => Progress(reader)
        /\ answers["lenient"] # Unread =>
              answers["lenient"].outcome = "read" /\ Gathered(answers["lenient"].got)
    BY DEF ReadsOn, Opened
  <2>3. CASE UNCHANGED asked
    BY <2>2, <2>3 DEF asked
  <2>4. ASSUME NEW policy \in Policies, NEW told, Answer(policy, told),
               policy = "lenient" => told.outcome = "read" /\ Gathered(told.got)
        PROVE  /\ reader'.pc # "trees"
               /\ answers'["lenient"] # Unread =>
                     answers'["lenient"].outcome = "read" /\ Gathered(answers'["lenient"].got)
    <3>1. reader' = Closed /\ answers' = [answers EXCEPT ![policy] = told]
      BY <2>4 DEF Answer
    <3>2. reader'.pc # "trees"
      BY <3>1 DEF Closed
    <3>3. CASE policy = "lenient"
      BY <3>1, <3>2, <3>3, <2>4, <1>1
    <3>4. CASE policy # "lenient"
      <4>1. answers'["lenient"] = answers["lenient"]
        BY <3>1, <3>4, <1>1
      <4> QED
        BY <4>1, <3>2, <2>2
    <3> QED
      BY <3>3, <3>4
  <2>5. ASSUME NEW policy \in Policies, Open(policy)
        PROVE  /\ reader'.pc # "trees"
               /\ answers'["lenient"] # Unread =>
                     answers'["lenient"].outcome = "read" /\ Gathered(answers'["lenient"].got)
    <3>1. CASE Answer(policy, Refused) /\ policy # "lenient"
      BY <3>1, <2>4
    <3>2. CASE reader' = [Closed EXCEPT !.pc = "roots", !.policy = policy] /\ UNCHANGED answers
      <4>1. reader'.pc = "roots"
        BY <3>2, Fields
      <4> QED
        BY <4>1, <3>2, <2>2
    <3> QED
      BY <2>5, <3>1, <3>2 DEF Open, Genuine
  <2>6. CASE ReadRoots
    <3>1. reader.pc = "roots" /\ reader.policy \in Policies
      BY <2>6, <1>1 DEF ReadRoots
    <3>2. CASE reader.policy = "lenient"
      <4>1. answers' = answers /\ \E at_hand : at_hand = reader' /\ Progress(at_hand)
        BY <2>6, <3>2, RootsProgress
      <4> QED
        BY <4>1, <2>2
    <3>3. CASE reader.policy # "lenient"
      <4> DEFINE p == RootTree(supers[Chosen])
      <4>1. CASE Answer(reader.policy, Refused)
        BY <4>1, <3>1, <3>3, <2>4
      <4>2. CASE /\ reader' = [Took(p) EXCEPT !.pc = "trees", !.stack = <<p>>, !.trees = Block(p).items]
                 /\ answers' = answers
        <5> HIDE DEF p
        <5>1. DOMAIN Took(p) = DOMAIN Closed /\ Took(p).policy = reader.policy
          BY <1>1, ReaderShape
        <5>2. reader'.policy = reader.policy
          BY <4>2, <5>1, Fields
        <5> QED
          BY <4>2, <5>2, <3>3, <2>2
      <4> QED
        BY <2>6, <4>1, <4>2 DEF ReadRoots
    <3> QED
      BY <3>2, <3>3
  <2>7. CASE Descend
    <3>1. answers' = answers /\ reader.pc = "trees"
      BY <2>7 DEF Descend
    <3>2. CASE reader.policy = "lenient"
      <4>1. \E at_hand : at_hand = reader' /\ Progress(at_hand)
        BY <2>2, <2>7, <3>1, <3>2, DescendProgresses
      <4> QED
        BY <4>1, <3>1, <2>2
    <3>3. CASE reader.policy # "lenient"
      <4>1. reader'.policy = reader.policy
        BY <1>1, <2>7, OneMore, OnwardFacts
      <4> QED
        BY <4>1, <3>1, <3>3, <2>2
    <3> QED
      BY <3>2, <3>3
  <2>8. CASE Report
    <3> DEFINE told == [outcome |-> "read", got |-> reader.got, refused |-> reader.refused,
                        through |-> reader.through, faulty |-> {m \in 1..Mirrors : MirrorAnomaly(m)}]
    <3>1. /\ reader.pc = "trees" /\ reader.stack = << >> /\ reader.policy \in Policies
          /\ Answer(reader.policy, told) /\ told.outcome = "read" /\ told.got = reader.got
      BY <2>8, <1>1 DEF Report
    <3> HIDE DEF told
    <3>2. reader.policy = "lenient" => Gathered(told.got)
      BY <2>2, <3>1, ThroughIsGathered
    <3> QED
      BY <3>1, <3>2, <2>4
  <2> QED
    BY <1>3, <2>3, <2>5, <2>6, <2>7, <2>8 DEF ReadImage, Read, vars
<1> QED
  BY <1>2, <1>3 DEF Next, Over

\* As read, so promised.
LEMMA NewestServes ==
    ASSUME CommitInv, Current, Unhurt, ReadsOn
    PROVE  ReadsTheNewestPastDamage
<1>1. ReadsPastDamage
  BY DEF ReadsOn, ReadsPastDamage, Gathered, DoneWith, Safe, Hands, Serves
<1>2. DriverOK /\ SupersOK
  BY DEF CommitInv
<1>3. ASSUME \E m \in Whole : supers[m] \in {Super(live), Super(next)} PROVE Tree \in {live, next}
  <2>1. PICK m \in Whole : supers[m] \in {Super(live), Super(next)}
    BY <1>3
  <2>2. supers[m].of \in {live, next}
    BY <2>1 DEF Super
  <2> QED
    BY <1>2, <2>2, NewestIsTaken
<1>4. ASSUME faults = 0, answers["lenient"] # Unread
      PROVE  /\ Tree \in {live, next} /\ Opened("lenient")
             /\ \A n \in Blocks : Serves("lenient", Tree, n)
  <2>1. /\ ~lost
        /\ \E m \in Whole : supers[m].of \in {live, next}
        /\ \A m \in Whole : supers[m] = Super(supers[m].of)
        /\ \A tree \in {live, next} : \A n \in Blocks, c \in 1..Copies :
              disk[tree[n].at][c] = BlockOf(tree, n)
    BY <1>4 DEF Unhurt
  <2>2. Tree \in {live, next}
    BY <1>2, <2>1, NewestIsTaken
  <2>3. Whole # {} /\ Chosen \in Whole
    BY <1>2, <2>1, ChosenFacts
  <2>4. Genuine
    <3>1. supers[Chosen] = Super(Tree)
      BY <2>1, <2>3 DEF Tree
    <3> QED
      BY <3>1, <2>3 DEF Genuine, Super
  <2>5. ToldApart
    BY <2>1 DEF ToldApart
  <2>6. \A n \in Blocks : Intact(n)
    <3>1. 1 \in 1..Copies
      BY VolumeAssumption
    <3> QED
      BY <3>1, <2>1, <2>2 DEF Intact
  <2>7. Opened("lenient") /\ Gathered(answers["lenient"].got)
    BY <1>4, <2>4, <2>5, <2>6, Tops DEF ReadsOn
  <2>8. ASSUME NEW n \in Blocks PROVE Hands(answers["lenient"].got, n)
    <3>1. CASE n = Roots
      BY <3>1, <2>7 DEF Gathered
    <3>2. CASE n # Roots
      <4>1. PICK top \in Set(Below[Roots]) : n \in Under[top]
        BY <3>2, PlacesAssumption
      <4>2. top \in Blocks
        BY <4>1, Tops DEF Set
      <4>3. Safe(top)
        BY <4>2, <2>6, UnderFacts DEF Safe
      <4> QED
        BY <4>1, <4>3, <2>7 DEF Gathered, DoneWith
    <3> QED
      BY <3>1, <3>2
  <2> QED
    BY <2>2, <2>7, <2>8 DEF Hands, Serves
<1>5. NewestIsRead
  BY <1>3, <1>4 DEF NewestIsRead
<1> QED
  BY <1>1, <1>5 DEF ReadsTheNewestPastDamage

LEMMA NewestAtFirst ==
    ASSUME Init
    PROVE  Current /\ Unhurt /\ ReadsOn
<1>1. PICK at \in [Blocks -> Addresses] :
          /\ \A m, n \in Blocks : m # n => at[m] # at[n]
          /\ live = [n \in Blocks |-> [at |-> at[n], gen |-> 1, epoch |-> 1]]
  BY DEF Init
<1>2. /\ next = live /\ lost = FALSE
      /\ reader = Closed /\ answers = [policy \in Policies |-> Unread]
      /\ supers = [m \in 1..Mirrors |-> IF m <= Room THEN Super(live) ELSE BadSuper]
      /\ disk = [a \in Addresses |-> [c \in 1..Copies |->
                    IF \E n \in Blocks : live[n].at = a
                    THEN BlockOf(live, CHOOSE n \in Blocks : live[n].at = a) ELSE Blank]]
  BY DEF Init
<1>3. \A m \in Whole : supers[m] = Super(live)
  <2>1. BadSuper.state # "whole"
    BY DEF BadSuper
  <2> QED
    BY <1>2, <2>1 DEF Whole
<1>4. 1 \in Whole
  <2>1. Super(live).state = "whole"
    BY DEF Super
  <2> QED
    BY <1>2, <2>1, VolumeAssumption DEF Whole
<1>5. Super(live).of = live
  BY DEF Super
<1>6. ASSUME NEW n \in Blocks, NEW c \in 1..Copies PROVE disk[live[n].at][c] = BlockOf(live, n)
  <2>1. live[n].at \in Addresses /\ \A m \in Blocks : live[m].at = live[n].at => m = n
    BY <1>1
  <2>2. (CHOOSE m \in Blocks : live[m].at = live[n].at) = n
    BY <2>1
  <2> QED
    BY <1>2, <2>1, <2>2
<1>7. Current
  BY <1>2, <1>3, <1>5 DEF Current
<1>8. Unhurt
  <2>1. ~lost
    BY <1>2
  <2>2. /\ \E m \in Whole : supers[m].of \in {live, next}
        /\ \A m \in Whole : supers[m] = Super(supers[m].of)
    BY <1>2, <1>3, <1>4, <1>5
  <2>3. \A tree \in {live, next} : \A n \in Blocks, c \in 1..Copies :
           disk[tree[n].at][c] = BlockOf(tree, n)
    <3>1. next = live
      BY <1>2
    <3>2. \A tree \in {live, next} : tree = live
      BY <3>1
    <3> QED
      BY <3>2, <1>6
  <2> QED
    BY <2>1, <2>2, <2>3 DEF Unhurt
<1>9. ReadsOn
  <2>1. reader.pc # "trees" /\ answers["lenient"] = Unread
    BY <1>2 DEF Closed, Policies
  <2> QED
    BY <2>1 DEF ReadsOn
<1> QED
  BY <1>7, <1>8, <1>9

\* What is read is the newest commit a copy of the superblock tells of, and of it whatever damage
\* has left a copy of: all of it where nothing but crashes has touched the image (the newest
\* superblock that verifies; Volume::fetch reading past bad copies; the scan going on past a tree
\* it cannot walk).
THEOREM ReadsTheNewest == Spec => []ReadsTheNewestPastDamage
<1>1. Init => CommitInv /\ Current /\ Unhurt /\ ReadsOn
  BY CommitInit, NewestAtFirst
<1>2. CommitInv /\ Current /\ Unhurt /\ ReadsOn /\ [Next]_vars => CommitInv' /\ Current' /\ Unhurt' /\ ReadsOn'
  BY CommitNext, NewestStep, ReadsOnStep
<1>3. CommitInv /\ Current /\ Unhurt /\ ReadsOn => ReadsTheNewestPastDamage
  BY NewestServes
<1> QED
  BY <1>1, <1>2, <1>3, PTL DEF Spec

-----------------------------------------------------------------------------
\* The chain of a FAT volume that a read follows.

\* The first places of the chain from start in a table.
First(fat, start) == IF start \in Cluster THEN start ELSE Broken
After(fat, c) == IF c \in Cluster THEN NextIn(fat, c) ELSE c
Follows(g, fat, start, m) == g = [n \in 0..m |-> IF n = 0 THEN First(fat, start) ELSE After(fat, g[n - 1])]

LEMMA FollowsFacts ==
    ASSUME NEW fat, NEW start, NEW m \in Nat, NEW g, Follows(g, fat, start, m)
    PROVE  /\ DOMAIN g = 0..m /\ g[0] = First(fat, start)
           /\ \A n \in 1..m : g[n] = After(fat, g[n - 1])
<1> DEFINE e == [n \in 0..m |-> IF n = 0 THEN First(fat, start) ELSE After(fat, g[n - 1])]
<1>1. g = e
  BY DEF Follows
<1>2. /\ DOMAIN e = 0..m /\ e[0] = First(fat, start)
      /\ \A n \in 1..m : e[n] = After(fat, g[n - 1])
  OBVIOUS
<1> HIDE DEF e
<1> QED
  BY <1>1, <1>2

LEMMA FollowsStep ==
    ASSUME NEW fat, NEW start, NEW m \in Nat, NEW g, Follows(g, fat, start, m), NEW n \in 1..m
    PROVE  g[n] = After(fat, g[n - 1])
  BY FollowsFacts

LEMMA FollowsExists ==
    ASSUME NEW fat, NEW start, NEW m \in Nat
    PROVE  \E g : Follows(g, fat, start, m)
<1> DEFINE T == {k \in Nat : ~\E g : Follows(g, fat, start, k)}
<1> SUFFICES ASSUME T # {} PROVE FALSE
  OBVIOUS
<1>1. PICK k \in T : \A l \in T : k <= l
  <2>1. T \in SUBSET Nat
    OBVIOUS
  <2> HIDE DEF T
  <2> QED
    BY <2>1, LeastOf
<1>2. CASE k = 0
  <2> DEFINE g == [n \in 0..0 |-> First(fat, start)]
  <2>1. Follows(g, fat, start, 0)
    BY DEF Follows
  <2> QED
    BY <2>1, <1>1, <1>2
<1>3. CASE k # 0
  <2>1. k - 1 \in Nat /\ k - 1 \notin T
    BY <1>1, <1>3
  <2>2. PICK h : Follows(h, fat, start, k - 1)
    BY <2>1
  <2>3. /\ h[0] = First(fat, start)
        /\ \A n \in 1..(k - 1) : h[n] = After(fat, h[n - 1])
    BY <2>1, <2>2, FollowsFacts
  <2> DEFINE g == [n \in 0..k |-> IF n = k THEN After(fat, h[k - 1]) ELSE h[n]]
  <2>4. ASSUME NEW n \in 0..k
        PROVE  g[n] = IF n = 0 THEN First(fat, start) ELSE After(fat, g[n - 1])
    <3>1. CASE n = 0
      BY <3>1, <2>3, <1>3
    <3>2. CASE n = k
      BY <3>2, <1>3
    <3>3. CASE n \in 1..(k - 1)
      <4>1. g[n] = h[n] /\ n - 1 \in 0..k /\ n - 1 # k
        BY <3>3
      <4>2. g[n - 1] = h[n - 1]
        BY <4>1
      <4> QED
        BY <4>1, <4>2, <3>3, <2>3
    <3> QED
      BY <3>1, <3>2, <3>3
  <2>5. Follows(g, fat, start, k)
    <3>1. g = [n \in 0..k |-> g[n]]
      OBVIOUS
    <3> HIDE DEF g
    <3> QED
      BY <3>1, <2>4 DEF Follows
  <2> HIDE DEF g
  <2> QED
    BY <2>5, <1>1
<1> QED
  BY <1>2, <1>3

LEMMA FollowsAgree ==
    ASSUME NEW fat, NEW start, NEW m \in Nat, NEW g, Follows(g, fat, start, m),
           NEW k \in Nat, NEW h, Follows(h, fat, start, k), NEW n \in Nat, n <= m, n <= k
    PROVE  g[n] = h[n]
<1>1. /\ g[0] = First(fat, start) /\ \A i \in 1..m : g[i] = After(fat, g[i - 1])
      /\ h[0] = First(fat, start) /\ \A i \in 1..k : h[i] = After(fat, h[i - 1])
  BY FollowsFacts
<1> DEFINE T == {i \in 0..n : g[i] # h[i]}
<1> SUFFICES ASSUME T # {} PROVE FALSE
  OBVIOUS
<1>2. PICK i \in T : \A j \in T : i <= j
  <2>1. T \in SUBSET Nat
    OBVIOUS
  <2> HIDE DEF T
  <2> QED
    BY <2>1, LeastOf
<1>3. i # 0
  BY <1>1, <1>2
<1>4. i - 1 \in 0..n /\ i - 1 \notin T /\ i \in 1..m /\ i \in 1..k
  BY <1>2, <1>3
<1>5. g[i - 1] = h[i - 1]
  BY <1>4
<1> QED
  BY <1>1, <1>2, <1>4, <1>5

\* Along is the chain, but for what is past the number of clusters.
LEMMA AlongFollows ==
    ASSUME NEW fat, NEW start, NEW m \in Nat, NEW g, Follows(g, fat, start, m),
           NEW n \in Nat, n <= m
    PROVE  Along(fat, start, n) = IF n > Clusters /\ g[n] \in Cluster THEN Broken ELSE g[n]
<1> DEFINE Is(at) == at = [i \in 0..n |-> IF i = 0 THEN (IF start \in Cluster THEN start ELSE Broken)
                                          ELSE IF at[i - 1] \in Cluster THEN NextIn(fat, at[i - 1]) ELSE at[i - 1]]
           at0 == CHOOSE at : Is(at)
<1>1. Along(fat, start, n) = IF n > Clusters /\ at0[n] \in Cluster THEN Broken ELSE at0[n]
  BY DEF Along
<1>2. \A h : Follows(h, fat, start, n) <=> Is(h)
  BY DEF Follows, First, After
<1>3. \E h : Is(h)
  BY <1>2, FollowsExists
<1>4. Is(at0)
  <2> HIDE DEF Is
  <2> QED
    BY <1>3
<1>5. Follows(at0, fat, start, n)
  <2> HIDE DEF Is, at0
  <2> QED
    BY <1>2, <1>4
<1> HIDE DEF at0, Is
<1>6. at0[n] = g[n]
  BY <1>5, FollowsAgree
<1> QED
  BY <1>1, <1>6

\* A table that says the same of every entry has the same chains.
LEMMA SameChains ==
    ASSUME NEW fat, NEW other, \A c \in Indices : fat[c] = other[c], NEW start, NEW n \in Nat
    PROVE  Along(fat, start, n) = Along(other, start, n)
<1>1. ASSUME NEW c PROVE After(fat, c) = After(other, c)
  BY DEF After, NextIn
<1>2. PICK g : Follows(g, fat, start, n)
  BY FollowsExists
<1>3. Follows(g, other, start, n)
  <2>1. g = [i \in 0..n |-> IF i = 0 THEN First(fat, start) ELSE After(fat, g[i - 1])]
    BY <1>2 DEF Follows
  <2>2. First(fat, start) = First(other, start)
    BY DEF First
  <2>3. \A i \in 0..n : (IF i = 0 THEN First(fat, start) ELSE After(fat, g[i - 1]))
                        = (IF i = 0 THEN First(other, start) ELSE After(other, g[i - 1]))
    BY <1>1, <2>2
  <2> QED
    BY <2>1, <2>3, Zenon DEF Follows
<1> QED
  BY <1>2, <1>3, AlongFollows

\* A chain goes from cluster to cluster and ends one way or the other.
LEMMA ChainValues ==
    ASSUME NEW fat, NEW start, NEW m \in Nat, NEW g, Follows(g, fat, start, m), NEW n \in 0..m
    PROVE  g[n] \in Cluster \cup {Ended, Broken}
<1>1. g[0] = First(fat, start) /\ \A i \in 1..m : g[i] = After(fat, g[i - 1])
  BY FollowsFacts
<1> DEFINE T == {i \in 0..m : g[i] \notin Cluster \cup {Ended, Broken}}
<1> SUFFICES ASSUME T # {} PROVE FALSE
  OBVIOUS
<1>2. PICK i \in T : \A j \in T : i <= j
  <2>1. T \in SUBSET Nat
    OBVIOUS
  <2> HIDE DEF T
  <2> QED
    BY <2>1, LeastOf
<1>3. i # 0
  BY <1>1, <1>2 DEF First
<1>4. i - 1 \in 0..m /\ i - 1 \notin T /\ i \in 1..m
  BY <1>2, <1>3
<1>5. g[i - 1] \in Cluster \cup {Ended, Broken} /\ g[i] = After(fat, g[i - 1])
  BY <1>1, <1>4
<1>6. After(fat, g[i - 1]) \in Cluster \cup {Ended, Broken}
  BY <1>5 DEF After, NextIn
<1> QED
  BY <1>2, <1>5, <1>6

\* From a place of the chain the read goes on along it.
LEMMA GoesAlong ==
    ASSUME NEW start, NEW position, position.index \in 0..Clusters, position.cluster \in Cluster,
           position.cluster = Along(ActiveFat, start, position.index),
           NEW steps \in Nat, position.index + steps <= Clusters + 1
    PROVE  ClusterAfter(position, steps) = Along(ActiveFat, start, position.index + steps)
<1> DEFINE m == position.index + steps
           Is(r) == r = [n \in 0..steps |->
                           IF n = 0 THEN position.cluster
                           ELSE IF r[n - 1] \in {Ended, Broken} THEN r[n - 1]
                           ELSE LET succ == NextCluster(r[n - 1])
                                IN  IF succ \in Cluster /\ position.index + n > Clusters
                                    THEN Broken ELSE succ]
           r0 == CHOOSE r : Is(r)
           w == [n \in 0..steps |-> Along(ActiveFat, start, position.index + n)]
<1>0. m \in Nat /\ Clusters \in Nat /\ position.index \in Nat
  BY ClustersAssumption
<1>1. ClusterAfter(position, steps) = r0[steps]
  BY DEF ClusterAfter
<1>2. PICK g : Follows(g, ActiveFat, start, m)
  BY <1>0, FollowsExists
<1>3. \A i \in 0..m : Along(ActiveFat, start, i) = IF i > Clusters /\ g[i] \in Cluster THEN Broken ELSE g[i]
  BY <1>0, <1>2, AlongFollows
<1>4. /\ \A i \in 1..m : g[i] = After(ActiveFat, g[i - 1])
      /\ \A i \in 0..m : g[i] \in Cluster \cup {Ended, Broken}
  <2> HIDE DEF m
  <2>3. m \in Nat /\ Follows(g, ActiveFat, start, m)
    BY <1>0, <1>2
  <2>1. ASSUME NEW i \in 1..m PROVE g[i] = After(ActiveFat, g[i - 1])
    BY <2>3, FollowsStep
  <2>2. ASSUME NEW i \in 0..m PROVE g[i] \in Cluster \cup {Ended, Broken}
    BY <1>0, <1>2, ChainValues
  <2> QED
    BY <2>1, <2>2
<1>5. ASSUME NEW n \in 0..steps
      PROVE  w[n] = IF n = 0 THEN position.cluster
                    ELSE IF w[n - 1] \in {Ended, Broken} THEN w[n - 1]
                    ELSE LET succ == NextCluster(w[n - 1])
                         IN  IF succ \in Cluster /\ position.index + n > Clusters
                             THEN Broken ELSE succ
  <2>1. CASE n = 0
    BY <2>1, <1>0
  <2>2. CASE n # 0
    <3> DEFINE i == position.index + n
    <3>1. i \in 1..m /\ i - 1 \in 0..m /\ i - 1 <= Clusters /\ n - 1 \in 0..steps /\ i - 1 = position.index + (n - 1)
      BY <2>2, <1>0
    <3>2. w[n] = Along(ActiveFat, start, i) /\ w[n - 1] = Along(ActiveFat, start, i - 1)
      BY <3>1
    <3>3. w[n - 1] = g[i - 1] /\ w[n] = (IF i > Clusters /\ g[i] \in Cluster THEN Broken ELSE g[i])
      BY <3>1, <3>2, <1>3, <1>0
    <3>4. g[i] = After(ActiveFat, g[i - 1]) /\ g[i - 1] \in Cluster \cup {Ended, Broken}
      BY <3>1, <1>4
    <3>5. Cluster \cap {Ended, Broken} = {}
      BY DEF Cluster, Ended, Broken
    <3> HIDE DEF w, i, m
    <3>6. CASE g[i - 1] \in Cluster
      <4>1. g[i] = NextCluster(w[n - 1]) /\ w[n - 1] \notin {Ended, Broken}
        BY <3>3, <3>4, <3>5, <3>6 DEF After, NextCluster
      <4> QED
        BY <4>1, <3>3, <2>2 DEF i
    <3>7. CASE g[i - 1] \in {Ended, Broken}
      <4>1. g[i] = w[n - 1] /\ g[i] \notin Cluster
        BY <3>3, <3>4, <3>5, <3>7 DEF After
      <4> QED
        BY <4>1, <3>3, <3>7, <2>2
    <3> QED
      BY <3>4, <3>6, <3>7
  <2> QED
    BY <2>1, <2>2
<1>6. Is(w)
  <2>1. w = [n \in 0..steps |-> w[n]]
    OBVIOUS
  <2> HIDE DEF w
  <2> QED
    BY <2>1, <1>5
<1>7. Is(r0)
  <2> HIDE DEF Is, w
  <2> QED
    BY <1>6
<1> HIDE DEF r0
<1>8. w[steps] = Along(ActiveFat, start, m) /\ steps \in 0..steps
  OBVIOUS
<1> HIDE DEF w
<1>9. ASSUME NEW n \in 0..steps PROVE r0[n] = w[n]
  <2> DEFINE T == {k \in 0..steps : r0[k] # w[k]}
  <2> SUFFICES ASSUME T # {} PROVE FALSE
    OBVIOUS
  <2>1. PICK k \in T : \A l \in T : k <= l
    <3>1. T \in SUBSET Nat
      OBVIOUS
    <3> HIDE DEF T
    <3> QED
      BY <3>1, LeastOf
  <2>2. CASE k = 0
    BY <2>1, <2>2, <1>6, <1>7
  <2>3. CASE k # 0
    <3>1. k - 1 \in 0..steps /\ k - 1 \notin T
      BY <2>1, <2>3
    <3>2. r0[k - 1] = w[k - 1]
      BY <3>1
    <3> QED
      BY <3>2, <2>1, <2>3, <1>6, <1>7
  <2> QED
    BY <2>2, <2>3
<1> QED
  BY <1>1, <1>8, <1>9

\* The cursor is at its place of its chain, and what was answered is of the chain asked for.
ReadsFollow ==
    /\ volume \in Volumes \cup ReadVolumes
    /\ \/ cursor = NoCursor
       \/ /\ cursor.start \in Cluster /\ cursor.index \in 0..Clusters /\ cursor.cluster \in Cluster
          /\ cursor.cluster = Along(ActiveFat, cursor.start, cursor.index)
    /\ answer.index \in 0..(Clusters + 1)
    /\ answer.got = Along(ActiveFat, answer.start, answer.index)

LEMMA AlongAtOnce ==
    ASSUME NEW fat, NEW start
    PROVE  /\ Along(fat, start, 0) = First(fat, start)
           /\ \A n \in Nat : n > Clusters => Along(fat, start, n) \notin Cluster
<1>1. Along(fat, start, 0) = First(fat, start)
  <2>1. PICK g : Follows(g, fat, start, 0)
    BY FollowsExists
  <2>2. g[0] = First(fat, start)
    BY <2>1, FollowsFacts
  <2> QED
    BY <2>1, <2>2, AlongFollows, ClustersAssumption
<1>2. ASSUME NEW n \in Nat, n > Clusters PROVE Along(fat, start, n) \notin Cluster
  <2>1. PICK g : Follows(g, fat, start, n)
    BY FollowsExists
  <2>2. Broken \notin Cluster
    BY DEF Broken, Cluster
  <2> QED
    BY <1>2, <2>1, <2>2, AlongFollows
<1> QED
  BY <1>1, <1>2

\* A read is given the chain's cluster, wherever it resumes.
LEMMA ReadsAlong ==
    ASSUME ReadsFollow, NEW start, NEW index \in 0..(Clusters + 1)
    PROVE  ClusterAt(start, index) = Along(ActiveFat, start, index)
<1>0. Clusters \in Nat /\ Clusters > 0
  BY ClustersAssumption
<1>1. CASE start \notin Cluster
  <2>1. PICK g : Follows(g, ActiveFat, start, index)
    BY <1>0, FollowsExists
  <2>7. index \in Nat /\ First(ActiveFat, start) = Broken
    BY <1>0, <1>1 DEF First
  <2>2. g[0] = Broken /\ \A i \in 1..index : g[i] = After(ActiveFat, g[i - 1])
    BY <2>1, <2>7, FollowsFacts
  <2>3. Broken \notin Cluster
    BY DEF Broken, Cluster
  <2> DEFINE T == {i \in 0..index : g[i] # Broken}
  <2>4. ASSUME T # {} PROVE FALSE
    <3>1. PICK i \in T : \A j \in T : i <= j
      <4>1. T \in SUBSET Nat
        BY <1>0
      <4> HIDE DEF T
      <4> QED
        BY <4>1, <2>4, LeastOf
    <3>2. i # 0
      BY <2>2, <3>1
    <3>3. i - 1 \in 0..index /\ i - 1 \notin T /\ i \in 1..index
      BY <1>0, <3>1, <3>2
    <3>4. g[i - 1] = Broken
      BY <3>3
    <3> QED
      BY <2>2, <2>3, <3>1, <3>3, <3>4 DEF After
  <2>5. g[index] = Broken
    BY <1>0, <2>4
  <2>6. Along(ActiveFat, start, index) = Broken
    BY <1>0, <2>1, <2>5, AlongFollows
  <2> QED
    BY <1>1, <2>6 DEF ClusterAt
<1>2. CASE start \in Cluster
  <2> DEFINE from == Resume(start, index)
  <2>1. /\ from.index \in 0..Clusters /\ from.cluster \in Cluster
        /\ from.cluster = Along(ActiveFat, start, from.index) /\ from.index <= index
    <3>1. CASE cursor.start = start /\ cursor.index <= index
      <4>1. cursor # NoCursor
        BY <3>1, <1>2 DEF NoCursor, Cluster
      <4> QED
        BY <3>1, <4>1 DEF ReadsFollow, Resume
    <3>2. CASE ~(cursor.start = start /\ cursor.index <= index)
      <4>1. from = [start |-> start, index |-> 0, cluster |-> start]
        BY <3>2 DEF Resume
      <4>2. Along(ActiveFat, start, 0) = start
        BY <1>2, AlongAtOnce DEF First
      <4> QED
        BY <4>1, <4>2, <1>0, <1>2
    <3> QED
      BY <3>1, <3>2
  <2> HIDE DEF from
  <2>2. index - from.index \in Nat /\ from.index + (index - from.index) = index
        /\ from.index + (index - from.index) <= Clusters + 1
    BY <1>0, <2>1
  <2>3. ClusterAfter(from, index - from.index) = Along(ActiveFat, start, from.index + (index - from.index))
    BY <2>1, <2>2, GoesAlong
  <2>4. ClusterAt(start, index) = ClusterAfter(from, index - from.index)
    BY <1>2 DEF ClusterAt, from
  <2> QED
    BY <2>2, <2>3, <2>4
<1> QED
  BY <1>1, <1>2

LEMMA ReadsFollowInit == ScanInit => ReadsFollow
<1> SUFFICES ASSUME ScanInit PROVE ReadsFollow
  OBVIOUS
<1>1. 0 \notin Cluster
  BY DEF Cluster
<1>2. Along(ActiveFat, 0, 0) = Broken
  BY <1>1, AlongAtOnce DEF First
<1>3. answer.start = 0 /\ answer.index = 0 /\ answer.got = Broken
  BY DEF ScanInit
<1> QED
  BY <1>2, <1>3, ClustersAssumption DEF ScanInit, ReadsFollow

LEMMA ReadsFollowStep == ReadsFollow /\ [ScanNext]_scanVars => ReadsFollow'
<1> SUFFICES ASSUME ReadsFollow, [ScanNext]_scanVars PROVE ReadsFollow'
  OBVIOUS
<1>1. ASSUME UNCHANGED <<volume, cursor, answer>> PROVE ReadsFollow'
  <2>1. ActiveFat' = ActiveFat
    BY <1>1 DEF ActiveFat
  <2> QED
    BY <1>1, <2>1 DEF ReadsFollow
<1>2. CASE ReadFile
  <2>1. PICK start \in Indices, index \in 0..(Clusters + 1) : ReadInto(start, index)
    BY <1>2 DEF ReadFile
  <2> DEFINE got == ClusterAt(start, index)
  <2>2. got = Along(ActiveFat, start, index)
    BY ReadsAlong
  <2>3. ActiveFat' = ActiveFat /\ volume' = volume
    BY <2>1 DEF ReadInto, ActiveFat
  <2>4. /\ answer' = [start |-> start, index |-> index, got |-> got]
        /\ cursor' = IF got \in Cluster THEN [start |-> start, index |-> index, cluster |-> got] ELSE cursor
    BY <2>1 DEF ReadInto
  <2> HIDE DEF got
  <2>5. ASSUME got \in Cluster PROVE index \in 0..Clusters /\ start \in Cluster
    <3>1. index \in Nat /\ Clusters \in Nat
      BY ClustersAssumption
    <3>2. ~(index > Clusters)
      BY <2>2, <2>5, <3>1, AlongAtOnce
    <3>3. start \in Cluster
      BY <2>5 DEF got, ClusterAt, Broken, Cluster
    <3> QED
      BY <3>1, <3>2, <3>3
  <2>6. answer'.index = index /\ answer'.start = start /\ answer'.got = got
    BY <2>4
  <2>7. /\ answer'.index \in 0..(Clusters + 1)
        /\ answer'.got = Along(ActiveFat', answer'.start, answer'.index)
    BY <2>2, <2>3, <2>6
  <2>8. \/ cursor' = NoCursor
        \/ /\ cursor'.start \in Cluster /\ cursor'.index \in 0..Clusters /\ cursor'.cluster \in Cluster
           /\ cursor'.cluster = Along(ActiveFat', cursor'.start, cursor'.index)
    <3>1. CASE got \in Cluster
      BY <3>1, <2>2, <2>3, <2>4, <2>5
    <3>2. CASE got \notin Cluster
      BY <3>2, <2>3, <2>4 DEF ReadsFollow
    <3> QED
      BY <3>1, <3>2
  <2> QED
    BY <2>3, <2>7, <2>8 DEF ReadsFollow, Along, NextIn
<1>3. CASE ScanTables
  BY <1>1, <1>3 DEF ScanTables
<1>4. CASE ScanFull
  BY <1>1, <1>4 DEF ScanFull
<1>5. CASE ScanDirectory
  BY <1>1, <1>5 DEF ScanDirectory
<1>6. CASE ScanFile
  BY <1>1, <1>6 DEF ScanFile
<1>7. CASE ScanWalked
  BY <1>1, <1>7 DEF ScanWalked
<1>8. CASE ScanUsage
  BY <1>1, <1>8 DEF ScanUsage
<1>9. CASE UNCHANGED scanVars
  BY <1>1, <1>9 DEF scanVars
<1> QED
  BY <1>2, <1>3, <1>4, <1>5, <1>6, <1>7, <1>8, <1>9 DEF ScanNext

LEMMA ReadsFollowReads == ReadsFollow => ReadsTheLiveChain
<1> SUFFICES ASSUME ReadsFollow, NEW copy \in DOMAIN volume.fats, Vouched(copy)
             PROVE  answer.got = Along(volume.fats[copy], answer.start, answer.index)
  BY DEF ReadsTheLiveChain
<1>1. /\ volume.fats \in Seq([Indices -> Nat]) /\ volume.fats # << >>
      /\ volume.mirrored \in BOOLEAN /\ volume.named \in Nat
  BY VolumesAssumption DEF ReadsFollow, IsVolume
<1>2. copy \in 1..Len(volume.fats) /\ 1 \in 1..Len(volume.fats)
  BY <1>1
<1>3. \A c \in Indices : volume.fats[copy][c] = ActiveFat[c]
  <2>1. CASE volume.mirrored
    BY <2>1, <1>1, <1>2 DEF Vouched, AgreeOn, ActiveFat
  <2>2. CASE ~volume.mirrored
    <3>1. volume.named + 1 = copy /\ volume.named < Len(volume.fats)
      BY <2>2, <1>1, <1>2 DEF Vouched
    <3> QED
      BY <2>2, <3>1 DEF ActiveFat
  <2> QED
    BY <2>1, <2>2
<1>4. answer.index \in Nat
  BY ClustersAssumption DEF ReadsFollow
<1> QED
  BY <1>3, <1>4, SameChains DEF ReadsFollow

\* In whatever order clusters of files are asked for, a read is given the clusters of the chain in
\* a table the volume vouches for: a cursor of another chain, of another copy or from past a
\* failure never shows (cluster_at, active_fat).
THEOREM ReadsFollowTheChain == ScanSpec => []ReadsTheLiveChain
  BY ReadsFollowInit, ReadsFollowStep, ReadsFollowReads, PTL DEF ScanSpec
=============================================================================
