-------------------------- MODULE IdentityRewrite ---------------------------
(***************************************************************************)
(* Re-identifying an ext image in place (identity.rs): every superblock    *)
(* copy and the journal's own record are read and patched in memory, then  *)
(* written one after another over an image a power loss or an I/O error    *)
(* may cut short at any write; the caller's answer is the same change      *)
(* again. Copy 0 is the primary, 1 to Last the backups, Log the journal's  *)
(* superblock. A checksum is the word Crc of what it covers.               *)
(***************************************************************************)
EXTENDS Integers, FiniteSets

CONSTANTS
    Last,           \* backups: one copy for each group that carries one
    Uuids, Labels, Rests, Seeds,
    Keep,           \* the value of a change that leaves a field alone
    Words,          \* checksums
    Crc(_),         \* crc32c over a record's bytes
    SeedOf(_),      \* crc32c over a UUID
    Images,         \* the images re-identified
    Changes,        \* the changes asked for
    MaxStops        \* bound on power losses and I/O errors

ASSUME LastAssumption == Last \in Nat
ASSUME StopsAssumption == MaxStops \in Nat
ASSUME KeepAssumption == Keep \notin Uuids \cup Labels
ASSUME SeedAssumption == \A u \in Uuids : SeedOf(u) \in Seeds

Groups == 0..Last
Log == Last + 1
Places == 0..Log

Fields == [uuid : Uuids, label : Labels, csum : BOOLEAN, seeded : BOOLEAN, seed : Seeds,
           rest : Rests]
LogFields == [uuid : Uuids, declared : BOOLEAN, crc32c : BOOLEAN]
Copies == [magic : BOOLEAN, is : Fields, sum : Words]
LogCopies == [is : LogFields, sum : Words]
Change == [uuid : Uuids \cup {Keep}, label : Labels \cup {Keep}, setSeed : BOOLEAN]
IsImage(m) ==
    /\ m \in [Places -> Copies \cup LogCopies]
    /\ \A g \in Groups : m[g] \in Copies
    /\ m[Log] \in LogCopies

\* No two of the superblocks one rewrite meets share a checksum, which is what
\* SuperblockChecksumMismatch takes a checksum that holds to mean.
ASSUME CrcAssumption ==
    /\ \A x \in Fields \cup LogFields : Crc(x) \in Words
    /\ \A x, y \in Fields : Crc(x) = Crc(y) => x = y
ASSUME ImagesAssumption == \A m \in Images : IsImage(m)
ASSUME ChangesAssumption == Changes \subseteq Change

VARIABLES
    hasLog, recover, short,     \* the filesystem: a journal, needing recovery, cut short
    change,                     \* the change asked for, again after every stop
    image, disk,                \* what a read sees, and what a power loss keeps
    phase, planned, next,       \* the run: planning, then writing `planned` in order
    turnedOn,                   \* IdentityReport::checksum_seed_set
    first, stops, lost          \* observers: the image at the start, stops, power losses

filesystem == <<hasLog, recover, short, change>>
observers == <<first, stops, lost>>
vars == <<filesystem, image, disk, phase, planned, next, turnedOn, observers>>

Sound(c) == c.sum = Crc(c.is)

\* The journal's record is written only when the UUID moves.
WritesLog == hasLog /\ change.uuid # Keep
Written == IF WritesLog THEN Places ELSE Groups

-----------------------------------------------------------------------------
\* plan_rewrite

\* Mutant: the seed is always that of the UUID the primary carries now.
SeedWantedAnew(m) ==
    IF ~m[0].is.csum THEN {}
    ELSE IF change.setSeed \/ change.uuid # Keep THEN {SeedOf(m[0].is.uuid)}
    ELSE {}

\* The seed every copy is to record, if any: the one the primary records, or the one
\* its UUID implies.
SeedWanted(m) ==
    IF ~m[0].is.csum THEN {}
    ELSE IF m[0].is.seeded
         THEN IF change.setSeed \/ change.uuid # Keep THEN {m[0].is.seed} ELSE {}
         ELSE IF change.setSeed THEN {SeedOf(m[0].is.uuid)} ELSE {}

\* Mutant: only the primary is checked against its checksum.
RefusalOfPrimary(m) ==
    \/ recover \/ short
    \/ ~m[0].is.csum /\ change.setSeed
    \/ m[0].is.csum /\ ~m[0].is.seeded /\ ~change.setSeed /\ change.uuid # Keep
    \/ \E g \in Groups : ~m[g].magic
    \/ m[0].is.csum /\ ~Sound(m[0])
    \/ WritesLog /\ m[Log].is.declared /\ (~m[Log].is.crc32c \/ ~Sound(m[Log]))

\* What is refused before a byte is written: a journal to recover, a group past the
\* end, a seed nothing uses, a UUID that is the seed, a copy missing or damaged, a log
\* whose checksum is not crc32c or does not hold.
Refusal(m) ==
    \/ recover \/ short
    \/ ~m[0].is.csum /\ change.setSeed
    \/ m[0].is.csum /\ ~m[0].is.seeded /\ ~change.setSeed /\ change.uuid # Keep
    \/ \E g \in Groups : ~m[g].magic \/ (m[0].is.csum /\ ~Sound(m[g]))
    \/ WritesLog /\ m[Log].is.declared /\ (~m[Log].is.crc32c \/ ~Sound(m[Log]))

Or(new, old) == IF new = Keep THEN old ELSE new

\* A copy's own bytes with the identity fields overwritten, then its checksum.
PatchFields(f, seed) ==
    [f EXCEPT !.uuid = Or(change.uuid, @), !.label = Or(change.label, @),
              !.seeded = @ \/ seed # {},
              !.seed = IF seed = {} THEN @ ELSE CHOOSE s \in seed : TRUE]

\* Mutant: the checksum is left as it was.
PatchKeepsSum(c, seed, csum) == [c EXCEPT !.is = PatchFields(c.is, seed)]

Patch(c, seed, csum) ==
    LET is == PatchFields(c.is, seed)
    IN  [c EXCEPT !.is = is, !.sum = IF csum THEN Crc(is) ELSE @]

PatchJournal(c) ==
    LET is == [c.is EXCEPT !.uuid = change.uuid]
    IN  [is |-> is, sum |-> IF c.is.declared THEN Crc(is) ELSE c.sum]

Rewrite(m) ==
    [p \in Written |-> IF p = Log THEN PatchJournal(m[Log])
                       ELSE Patch(m[p], SeedWanted(m), m[0].is.csum)]

Init ==
    /\ first \in Images
    /\ change \in Changes
    /\ hasLog \in BOOLEAN /\ recover \in BOOLEAN /\ short \in BOOLEAN
    /\ image = first /\ disk = first
    /\ phase = "idle" /\ planned = << >> /\ next = 0 /\ turnedOn = FALSE
    /\ stops = 0 /\ lost = FALSE

Refuse ==
    /\ phase = "idle"
    /\ Refusal(image)
    /\ phase' = "refused"
    /\ UNCHANGED <<filesystem, image, disk, planned, next, turnedOn, observers>>

\* Mutant: a run goes ahead when the primary is sound.
PlanChecksPrimary ==
    /\ phase = "idle"
    /\ ~RefusalOfPrimary(image)
    /\ phase' = "writing"
    /\ planned' = Rewrite(image)
    /\ next' = 0
    /\ turnedOn' = \E g \in Groups : SeedWanted(image) # {} /\ ~image[g].is.seeded
    /\ UNCHANGED <<filesystem, image, disk, observers>>

Plan ==
    /\ phase = "idle"
    /\ ~Refusal(image)
    /\ phase' = "writing"
    /\ planned' = Rewrite(image)
    /\ next' = 0
    /\ turnedOn' = \E g \in Groups : SeedWanted(image) # {} /\ ~image[g].is.seeded
    /\ UNCHANGED <<filesystem, image, disk, observers>>

-----------------------------------------------------------------------------
\* rewrite_identity_at: the writes, in order

\* Mutants: the last place is written first; the same copy is written
\* for ever.
WriteBackwards ==
    /\ phase = "writing" /\ next \in Written
    /\ LET p == Cardinality(Written) - 1 - next
       IN  image' = [image EXCEPT ![p] = planned[p]]
    /\ next' = next + 1
    /\ UNCHANGED <<filesystem, disk, phase, planned, turnedOn, observers>>
WriteStays ==
    /\ phase = "writing" /\ next \in Written
    /\ image' = [image EXCEPT ![next] = planned[next]]
    /\ UNCHANGED <<filesystem, disk, phase, planned, next, turnedOn, observers>>

WriteNext ==
    /\ phase = "writing" /\ next \in Written
    /\ image' = [image EXCEPT ![next] = planned[next]]
    /\ next' = next + 1
    /\ UNCHANGED <<filesystem, disk, phase, planned, turnedOn, observers>>

Finish ==
    /\ phase = "writing" /\ next \notin Written
    /\ phase' = "done" /\ planned' = << >> /\ next' = 0
    /\ UNCHANGED <<filesystem, image, disk, turnedOn, observers>>

\* A record torn partway through its write: each field a run may change is the old
\* one or the new one.
Pieces == {"uuid", "label", "seeded", "seed", "sum"}
Torn(old, new, S) ==
    [old EXCEPT !.is = [f \in DOMAIN @ |-> IF f \in S THEN new.is[f] ELSE @[f]],
                !.sum = IF "sum" \in S THEN new.sum ELSE @]

Again == phase' = "idle" /\ planned' = << >> /\ next' = 0 /\ turnedOn' = FALSE

\* An I/O error ends the run with the write it met torn, or not begun.
WriteFails ==
    /\ phase = "writing" /\ next \in Written
    /\ stops < MaxStops
    /\ \E S \in SUBSET Pieces : image' = [image EXCEPT ![next] = Torn(@, planned[next], S)]
    /\ stops' = stops + 1
    /\ Again
    /\ UNCHANGED <<filesystem, disk, first, lost>>

\* A write reaches the disk at any time, in any order.
Writeback(p) ==
    /\ disk[p] # image[p]
    /\ disk' = [disk EXCEPT ![p] = image[p]]
    /\ UNCHANGED <<filesystem, image, phase, planned, next, turnedOn, observers>>

\* Power is lost, before a run, in it or after: what is not on the disk is gone, and one
\* write may be cut short.
PowerLoss ==
    /\ stops < MaxStops
    /\ \E p \in Places, S \in SUBSET Pieces :
          disk' = [disk EXCEPT ![p] = Torn(@, image[p], S)]
    /\ image' = disk'
    /\ stops' = stops + 1
    /\ lost' = TRUE
    /\ Again
    /\ UNCHANGED <<filesystem, first>>

Step == Refuse \/ Plan \/ WriteNext \/ Finish

Next == Step \/ WriteFails \/ PowerLoss \/ (\E p \in Places : Writeback(p))

Spec == Init /\ [][Next]_vars
FairSpec == Spec /\ WF_vars(Step) /\ \A p \in Places : WF_vars(Writeback(p))

-----------------------------------------------------------------------------

TypeOK ==
    /\ change \in Change
    /\ hasLog \in BOOLEAN /\ recover \in BOOLEAN /\ short \in BOOLEAN
    /\ IsImage(first) /\ IsImage(image) /\ IsImage(disk)
    /\ phase \in {"idle", "writing", "done", "refused"}
    /\ next \in 0..(Log + 1)
    /\ turnedOn \in BOOLEAN /\ lost \in BOOLEAN
    /\ stops \in 0..MaxStops

Target == [p \in Places |-> IF p \in Written THEN Rewrite(first)[p] ELSE first[p]]

\* Every copy is whole: none is torn between what it was and what it becomes.
Whole(m) == \A p \in Places : m[p] \in {first[p], Target[p]}

\* rewrite_identity, "whichever of the writes reached the image, a second run reaches
\* exactly the bytes a first run over the untouched image does": after any number of
\* stops, a run that ends has made what one run uninterrupted makes.
RerunReachesTarget == phase = "done" => image = Target

\* A run cut short is never left without an answer: while no write was torn, a change
\* accepted at first is accepted again.
RerunIsAccepted == Whole(image) /\ ~Refusal(first) => ~Refusal(image)

\* A change cut short by power losses is finished by asking for it again: the second run is
\* accepted, and what it ends with is what one run uninterrupted makes.
RerunFinishes == RerunReachesTarget /\ RerunIsAccepted

SeedInForce(c) == IF c.is.seeded THEN c.is.seed ELSE SeedOf(c.is.uuid)

\* "every existing checksum stays valid": at every moment, stopped or not, a copy whose
\* own checksum holds gives the seed the filesystem's checksums were made with, if it did
\* at first or was written by a change that hands every copy the primary's. (A change of
\* label alone leaves a backup the seed it has, and may.)
ChecksumsStayValid ==
    image[0].is.csum /\ ~Refusal(first) =>
        \A g \in Groups :
            /\ Sound(image[g])
            /\ \/ SeedInForce(first[g]) = SeedInForce(first[0])
               \/ image[g] # first[g] /\ SeedWanted(first) # {}
            => SeedInForce(image[g]) = SeedInForce(first[0])

\* "The primary is written first": a run stopped by anything but a power loss leaves the
\* primary written if anything is.
PrimaryLeads ==
    ~lost /\ image # first => image[0] = Target[0] \/ \A p \in 1..Log : image[p] = first[p]

\* SuperblockChecksumMismatch, "writing a correct checksum over a wrong superblock": no
\* run makes a damaged copy check out, which only the disk's own older copy may.
NoLaundering ==
    [][image[0].is.csum =>
        \A g \in Groups : ~Sound(image[g]) /\ Sound(image[g]') => image[g]' = disk[g]]_vars

\* Run until it is not interrupted, a change is refused or is durably everywhere.
Settles == <>(phase = "refused" \/ (phase = "done" /\ disk = image))
=============================================================================
