------------------------------ MODULE LogReplay -----------------------------
(***************************************************************************)
(* How the ext reader opens a filesystem that was not unmounted cleanly:   *)
(* `plan`, `scan` and `apply` in replay.rs, and `recover`, `replay_journal`*)
(* and the overlay reads in read.rs.                                       *)
(*                                                                         *)
(* The log is a ring of blocks. A block is what the scan can tell of it:   *)
(* its kind (the magic and type words), its sequence, what it names, and   *)
(* whether its checksum holds. A block's content is the version of it that *)
(* was written and whether it begins with the jbd2 magic; the copy of such *)
(* a block is logged with the magic zeroed and its tag marked escaped.     *)
(***************************************************************************)
EXTENDS Integers, Sequences, FiniteSets, BlockCache

CONSTANTS
    Homes,      \* the filesystem's blocks
    Super,      \* the block the superblock is in
    Table,      \* the inode table block the journal's inode is in
    Wild,       \* a block number past the filesystem
    Versions,   \* what a block may have been written with
    First,      \* s_first
    MaxLen,     \* s_maxlen
    SeqMod,     \* sequence numbers wrap here (2^32 in the code)
    Checksums,  \* whether the log carries csum_v2 or csum_v3 checksums
    Capacity    \* blocks the table cache holds

ASSUME HomesAssumption == Super \in Homes /\ Table \in Homes /\ Wild \notin Homes
ASSUME RingAssumption == First \in Nat /\ MaxLen \in Nat /\ First < MaxLen
ASSUME SequenceAssumption == SeqMod \in Nat \ {0}
ASSUME ChecksumsAssumption == Checksums \in BOOLEAN
ASSUME CapacityAssumption == Capacity \in Nat

Span == MaxLen - First
Positions == First..(MaxLen - 1)
Sequences32 == 0..(SeqMod - 1)
Contents == [ver : Versions, magic : BOOLEAN]
Named == [home : Homes \cup {Wild}, escaped : BOOLEAN]
Tags == [home : Homes \cup {Wild}, escaped : BOOLEAN, at : Positions]
Kinds == {"none", "data", "descriptor", "revoke", "commit", "other"}
Headers == Kinds \ {"none", "data"}
LogBlocks == [kind : Kinds, seq : Sequences32, names : Seq(Named),
              revokes : SUBSET Homes, content : Contents, sound : BOOLEAN]
Transactions == [seq : Sequences32, tags : Seq(Tags), revokes : SUBSET Homes]
Copies == [at : Positions, escaped : BOOLEAN]

VARIABLES
    log, start, startseq, layoutOK,     \* the journal: blocks, s_start, s_sequence, features
    home,                               \* the blocks of the filesystem, at home
    strict,                             \* the read policy
    phase,                              \* how far opening has come
    at, visited, current, committed,    \* `scan`: position, count, open and closed transactions
    plan,                               \* what `apply` decided
    overlay, outcome, sb, cache         \* the reader: journal, superblock, table cache

disk == <<log, start, startseq, layoutOK, home>>
scanning == <<at, visited, current, committed>>
reader == <<strict, phase, at, visited, current, committed, plan, overlay, outcome, sb, cache>>

Nothing == [x \in {} |-> x]
NoPlan == [copies |-> Nothing, skipped |-> {}]
EmptyTransaction(s) == [seq |-> s, tags |-> << >>, revokes |-> {}]

\* The log block n places after p: the ring continues at s_first.
After(p, n) == First + ((p - First + n) % Span)

Holds(b) == Checksums => b.sound

ReaderInit ==
    /\ strict \in BOOLEAN
    /\ phase = "closed"
    /\ at = First
    /\ visited = 0
    /\ current = EmptyTransaction(0)
    /\ committed = << >>
    /\ plan = NoPlan
    /\ overlay = Nothing
    /\ outcome = "none"
    /\ sb = home[Super]
    /\ cache = Empty

-----------------------------------------------------------------------------

\* Mutant: what was installed is kept.
FaultKeepsOverlay ==
    /\ phase' = IF strict THEN "refused" ELSE "open"
    /\ outcome' = "not_replayed"
    /\ UNCHANGED <<disk, strict, scanning, plan, overlay, sb, cache>>

\* Nothing of a replay that failed is kept; a lenient read goes ahead without it.
Fault ==
    /\ phase' = IF strict THEN "refused" ELSE "open"
    /\ overlay' = Nothing
    /\ cache' = Empty
    /\ outcome' = "not_replayed"
    /\ UNCHANGED <<disk, strict, scanning, plan, sb>>

\* The superblock and the journal's inode are read from their homes, and an empty
\* log (s_start zero) has nothing to plan.
Open ==
    /\ phase = "closed"
    /\ layoutOK
    /\ start = 0 \/ start \in Positions
    /\ sb' = home[Super]
    /\ cache' = Insert(Empty, Capacity, Table, home[Table])
    /\ IF start = 0 THEN phase' = "installing" /\ UNCHANGED <<at, current>>
       ELSE /\ phase' = "scanning"
            /\ at' = start
            /\ current' = EmptyTransaction(startseq)
    /\ UNCHANGED <<disk, strict, visited, committed, plan, overlay, outcome>>

\* A log whose features are not replayed, or one starting outside itself.
OpenFaults ==
    /\ phase = "closed"
    /\ ~layoutOK \/ (start # 0 /\ start \notin Positions)
    /\ Fault

-----------------------------------------------------------------------------
\* One pass of the scan's loop, at the block `at`.

Block == log[at]
Expected == Block.kind \in Headers /\ Block.seq = current.seq
Scanning == phase = "scanning"

\* Mutant: only headers are counted.
VisitsHeaders == 1

\* Blocks a pass visits: the header, and the copies a sound descriptor names.
Visits == 1 + IF Expected /\ Block.kind = "descriptor" THEN Len(Block.names) ELSE 0

\* Mutant: a log that fills its ring is refused with the others.
InBudgetStrictly == visited + Visits < Span

InBudget == visited + Visits <= Span

Advance(n) == at' = After(at, n) /\ visited' = visited + n

\* The first block that is not a header of the expected sequence, of no known
\* type, or a commit whose checksum does not hold, ends the log.
ScanEnds ==
    /\ Scanning /\ InBudget
    /\ \/ ~Expected
       \/ Block.kind = "other"
       \/ Block.kind = "commit" /\ ~Holds(Block)
    /\ phase' = "applying"
    /\ visited' = visited + 1
    /\ UNCHANGED <<disk, strict, at, current, committed, plan, overlay, outcome, sb, cache>>

Pass(k) == Scanning /\ InBudget /\ Expected /\ Block.kind = k /\ Holds(Block)

ScanDescriptor ==
    /\ Pass("descriptor")
    /\ Block.names # << >>
    /\ current' = [current EXCEPT !.tags = @ \o
           [i \in 1..Len(Block.names) |->
               [home |-> Block.names[i].home, escaped |-> Block.names[i].escaped,
                at |-> After(at, i)]]]
    /\ Advance(1 + Len(Block.names))
    /\ UNCHANGED <<disk, strict, phase, committed, plan, overlay, outcome, sb, cache>>

\* Mutant: the scan stays at the revoke block.
ScanRevokeStays ==
    /\ Pass("revoke")
    /\ current' = [current EXCEPT !.revokes = @ \cup Block.revokes]
    /\ UNCHANGED <<disk, strict, phase, at, visited, committed, plan, overlay, outcome, sb, cache>>

ScanRevoke ==
    /\ Pass("revoke")
    /\ current' = [current EXCEPT !.revokes = @ \cup Block.revokes]
    /\ Advance(1)
    /\ UNCHANGED <<disk, strict, phase, committed, plan, overlay, outcome, sb, cache>>

ScanCommit ==
    /\ Pass("commit")
    /\ committed' = Append(committed, current)
    /\ current' = EmptyTransaction((current.seq + 1) % SeqMod)
    /\ Advance(1)
    /\ UNCHANGED <<disk, strict, phase, plan, overlay, outcome, sb, cache>>

\* A log longer than its journal, a descriptor or revoke block whose checksum does
\* not hold, and a descriptor with no tag stop recovery with nothing applied.
ScanFaults ==
    /\ Scanning
    /\ \/ ~InBudget
       \/ Expected /\ Block.kind \in {"descriptor", "revoke"} /\ ~Holds(Block)
       \/ Expected /\ Block.kind = "descriptor" /\ Block.names = << >>
    /\ Fault

-----------------------------------------------------------------------------
\* `apply`: entries are ordered by transaction and then by tag.

Entries == UNION {{<<i, j>> : j \in 1..Len(committed[i].tags)} : i \in 1..Len(committed)}
TagOf(e) == committed[e[1]].tags[e[2]]
Later(e, f) == f[1] < e[1] \/ (f[1] = e[1] /\ f[2] < e[2])

\* Mutants: a revoke cancels earlier transactions' copies only; transactions are
\* ordered by their sequence numbers.
RevokedBy(i, h) == h \in committed[i].revokes
ApplicableInOwn ==
    {e \in Entries : ~ \E i \in (e[1] + 1)..Len(committed) : RevokedBy(i, TagOf(e).home)}
ApplicableBySequence ==
    {e \in Entries : ~ \E i \in 1..Len(committed) :
        RevokedBy(i, TagOf(e).home) /\ committed[i].seq >= committed[e[1]].seq}

\* A revoke record cancels the copies of its own transaction and of every earlier
\* one. Transactions are ordered by their place in the log, never by sequence.
Applicable == {e \in Entries : ~ \E i \in e[1]..Len(committed) : RevokedBy(i, TagOf(e).home)}

\* Mutant: no copy's checksum is asked for.
SkippedNone == {}

Skipped == {e \in Applicable : ~Holds(log[TagOf(e).at])}
Winner(h) == CHOOSE e \in Applicable \ Skipped :
    /\ TagOf(e).home = h
    /\ \A f \in Applicable \ Skipped : TagOf(f).home = h /\ f # e => Later(e, f)

Apply ==
    /\ phase = "applying"
    /\ \A e \in Applicable : TagOf(e).home \in Homes
    /\ plan' = [copies  |-> [h \in {TagOf(e).home : e \in Applicable \ Skipped} |->
                                [at |-> TagOf(Winner(h)).at, escaped |-> TagOf(Winner(h)).escaped]],
                skipped |-> {TagOf(e).home : e \in Skipped}]
    /\ phase' = "installing"
    /\ UNCHANGED <<disk, strict, scanning, overlay, outcome, sb, cache>>

ApplyFaults ==
    /\ phase = "applying"
    /\ \E e \in Applicable : TagOf(e).home \notin Homes
    /\ Fault

-----------------------------------------------------------------------------

\* A block as the reader presents it: the copy the overlay gives it, with an
\* escaped block's magic put back, or its home.
Through(copies, b) ==
    IF b \in DOMAIN copies
    THEN LET c == log[copies[b].at].content
         IN  IF copies[b].escaped THEN [c EXCEPT !.magic = TRUE] ELSE c
    ELSE home[b]

View(b) == Through(overlay, b)

\* Mutant: blocks cached from the homes survive the overlay.
InstallKeepsCache ==
    /\ phase = "installing"
    /\ ~(strict /\ plan.skipped # {})
    /\ overlay' = plan.copies
    /\ phase' = "rereading"
    /\ UNCHANGED <<disk, strict, scanning, plan, outcome, sb, cache>>

\* The overlay is installed and what was cached from the homes is dropped.
Install ==
    /\ phase = "installing"
    /\ ~(strict /\ plan.skipped # {})
    /\ overlay' = plan.copies
    /\ cache' = Empty
    /\ phase' = "rereading"
    /\ UNCHANGED <<disk, strict, scanning, plan, outcome, sb>>

\* The superblock is read again through the overlay, and taken.
TakeSuperblock ==
    /\ phase = "rereading"
    /\ sb' = View(Super)
    /\ outcome' = "replayed"
    /\ phase' = "open"
    /\ UNCHANGED <<disk, strict, scanning, plan, overlay, cache>>

\* A strict read refuses a skipped copy before anything is installed; a replayed
\* superblock naming another block size is refused after.
InstallFaults ==
    /\ \/ phase = "installing" /\ strict /\ plan.skipped # {}
       \/ phase = "rereading" /\ Super \in DOMAIN overlay
    /\ Fault

\* The open reader takes a block from its table cache, or reads it and holds it there.
ReadTable ==
    /\ phase = "open"
    /\ \E b \in Homes : cache' = Access(cache, Capacity, b, View(b))
    /\ UNCHANGED <<disk, strict, phase, scanning, plan, overlay, outcome, sb>>

Replay == \/ Open \/ OpenFaults \/ ScanEnds \/ ScanDescriptor \/ ScanRevoke \/ ScanCommit
          \/ ScanFaults \/ Apply \/ ApplyFaults \/ Install \/ TakeSuperblock
          \/ InstallFaults

Opened == phase \in {"open", "refused"}
=============================================================================
