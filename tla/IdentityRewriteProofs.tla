----------------------- MODULE IdentityRewriteProofs ------------------------
(***************************************************************************)
(* The rewrite's properties, proved for every image, change and number of  *)
(* stops. Whatever was torn or lost, each place holds fields that are each *)
(* the original's or the target's (Mixed); a copy whose checksum holds is  *)
(* therefore the one or the other, whole; and what a run plans from such   *)
(* an image is the target again, because patching is idempotent and the    *)
(* seed every copy is given is the one the first run gave.                 *)
(***************************************************************************)
EXTENDS IdentityRewrite, TLAPS

HasSums == first[0].is.csum

\* A superblock copy between what it was and what it is to be.
MixedCopy(c, g) ==
    /\ c \in Copies
    /\ c.magic = first[g].magic
    /\ c.is.csum = first[g].is.csum /\ c.is.rest = first[g].is.rest
    /\ c.is.uuid \in {first[g].is.uuid, Target[g].is.uuid}
    /\ c.is.label \in {first[g].is.label, Target[g].is.label}
    /\ c.is.seeded \in {first[g].is.seeded, Target[g].is.seeded}
    /\ c.is.seed \in {first[g].is.seed, Target[g].is.seed}
    /\ c.sum \in {first[g].sum, Target[g].sum}

\* And the log's.
MixedLog(c) ==
    /\ c \in LogCopies
    /\ c.is.declared = first[Log].is.declared /\ c.is.crc32c = first[Log].is.crc32c
    /\ c.is.uuid \in {first[Log].is.uuid, Target[Log].is.uuid}
    /\ c.sum \in {first[Log].sum, Target[Log].sum}

Mixed(m) ==
    /\ m \in [Places -> Copies \cup LogCopies]
    /\ \A g \in Groups : MixedCopy(m[g], g)
    /\ MixedLog(m[Log])

\* A change refused of the first image touches nothing.
Untouched == Refusal(first) => image = first /\ disk = first /\ phase \in {"idle", "refused"}

\* A run writes the target, in order, over copies that are sound.
Writing ==
    phase = "writing" =>
        /\ planned = [p \in Written |-> Target[p]]
        /\ \A p \in Written : p < next => image[p] = Target[p]
        /\ HasSums => \A g \in Groups : Sound(image[g])

\* What the disk has yet to be given is a copy no run had touched.
DiskBehind == HasSums => \A g \in Groups : disk[g] \in {first[g], image[g]}

IInv ==
    /\ TypeOK
    /\ Mixed(image) /\ Mixed(disk)
    /\ Untouched
    /\ Writing
    /\ RerunReachesTarget
    /\ PrimaryLeads
    /\ DiskBehind

-----------------------------------------------------------------------------
\* Records and places

\* The log stands behind every superblock copy, and the primary is the first of them.
LEMMA Where ==
    /\ Log \in Places /\ Log \notin Groups /\ 0 \in Groups
    /\ Places = Groups \cup {Log} /\ Groups \subseteq Written /\ Written \subseteq Places
    /\ Log \in Written <=> WritesLog
BY LastAssumption DEF Log, Groups, Places, Written

\* Superblock fields that agree one by one are the same.
LEMMA SameFields ==
    ASSUME NEW f \in Fields, NEW h \in Fields,
           f.uuid = h.uuid, f.label = h.label, f.csum = h.csum, f.seeded = h.seeded,
           f.seed = h.seed, f.rest = h.rest
    PROVE  f = h
BY DEF Fields

\* And copies.
LEMMA SameCopy ==
    ASSUME NEW c \in Copies, NEW d \in Copies, c.magic = d.magic, c.is = d.is, c.sum = d.sum
    PROVE  c = d
BY DEF Copies

\* And the log's record.
LEMMA SameLog ==
    ASSUME NEW c \in LogCopies, NEW d \in LogCopies,
           c.is.uuid = d.is.uuid, c.is.declared = d.is.declared, c.is.crc32c = d.is.crc32c,
           c.sum = d.sum
    PROVE  c = d
<1>1. c.is \in LogFields /\ d.is \in LogFields
  BY DEF LogCopies
<1>2. c.is = d.is
  BY <1>1 DEF LogFields
<1> QED
  BY <1>2 DEF LogCopies

\* A change's own field, or the one that was there.
LEMMA OrType ==
    ASSUME TypeOK
    PROVE  /\ \A u \in Uuids : Or(change.uuid, u) \in Uuids
           /\ \A l \in Labels : Or(change.label, l) \in Labels
BY DEF TypeOK, Change, Or

\* decide_checksum_seed answers no seed or one.
LEMMA SeedType ==
    ASSUME NEW m, IsImage(m)
    PROVE  \/ SeedWanted(m) = {}
           \/ \E s \in Seeds : SeedWanted(m) = {s} /\ (CHOOSE x \in {s} : TRUE) = s
<1>1. m[0].is \in Fields
  BY Where DEF IsImage, Copies
<1>2. m[0].is.seed \in Seeds /\ SeedOf(m[0].is.uuid) \in Seeds
  BY <1>1, SeedAssumption DEF Fields
<1>3. \A s : (CHOOSE x \in {s} : TRUE) = s
  OBVIOUS
<1> QED
  BY <1>2, <1>3 DEF SeedWanted

\* patch's identity fields, one by one.
LEMMA PatchedFields ==
    ASSUME TypeOK, NEW f \in Fields, NEW m, IsImage(m)
    PROVE  LET h == PatchFields(f, SeedWanted(m))
           IN  /\ h \in Fields
               /\ h.uuid = Or(change.uuid, f.uuid) /\ h.label = Or(change.label, f.label)
               /\ h.csum = f.csum /\ h.rest = f.rest
               /\ h.seeded = (f.seeded \/ SeedWanted(m) # {})
               /\ SeedWanted(m) = {} => h.seed = f.seed
               /\ \A s : SeedWanted(m) = {s} => h.seed = s
<1>1. /\ f.uuid \in Uuids /\ f.label \in Labels /\ f.csum \in BOOLEAN /\ f.seeded \in BOOLEAN
      /\ f.seed \in Seeds /\ f.rest \in Rests
  BY DEF Fields
<1>2. Or(change.uuid, f.uuid) \in Uuids /\ Or(change.label, f.label) \in Labels
  BY <1>1, OrType
<1>3. CASE SeedWanted(m) = {}
  <2>1. PatchFields(f, {}) = [f EXCEPT !.uuid = Or(change.uuid, f.uuid),
                                       !.label = Or(change.label, f.label),
                                       !.seeded = f.seeded, !.seed = f.seed]
    BY <1>1 DEF PatchFields
  <2> HIDE DEF Or
  <2> QED
    BY <1>1, <1>2, <1>3, <2>1 DEF Fields
<1>4. CASE \E s \in Seeds : SeedWanted(m) = {s} /\ (CHOOSE x \in {s} : TRUE) = s
  <2>1. PICK s \in Seeds : SeedWanted(m) = {s} /\ (CHOOSE x \in {s} : TRUE) = s
    BY <1>4
  <2>2. PatchFields(f, {s}) = [f EXCEPT !.uuid = Or(change.uuid, f.uuid),
                                        !.label = Or(change.label, f.label),
                                        !.seeded = TRUE, !.seed = s]
    BY <1>1, <2>1 DEF PatchFields
  <2> HIDE DEF Or
  <2>3. /\ PatchFields(f, {s}) \in Fields
        /\ PatchFields(f, {s}).uuid = Or(change.uuid, f.uuid)
        /\ PatchFields(f, {s}).label = Or(change.label, f.label)
        /\ PatchFields(f, {s}).csum = f.csum /\ PatchFields(f, {s}).rest = f.rest
        /\ PatchFields(f, {s}).seeded = TRUE /\ PatchFields(f, {s}).seed = s
    BY <1>1, <1>2, <2>2 DEF Fields
  <2>4. {s} # {} /\ \A t : {s} = {t} => t = s
    OBVIOUS
  <2> QED
    BY <2>1, <2>3, <2>4
<1> QED
  BY <1>3, <1>4, SeedType

\* patch: the fields, and their checksum where the filesystem has checksums.
LEMMA PatchedCopy ==
    ASSUME TypeOK, NEW c \in Copies, NEW m, IsImage(m), NEW b \in BOOLEAN
    PROVE  LET d == Patch(c, SeedWanted(m), b)
           IN  /\ d \in Copies
               /\ d.magic = c.magic /\ d.is = PatchFields(c.is, SeedWanted(m))
               /\ d.sum = IF b THEN Crc(d.is) ELSE c.sum
<1> DEFINE is == PatchFields(c.is, SeedWanted(m))
<1>1. c.magic \in BOOLEAN /\ c.is \in Fields /\ c.sum \in Words
  BY DEF Copies
<1>2. is \in Fields /\ Crc(is) \in Words
  BY <1>1, PatchedFields, CrcAssumption
<1>3. Patch(c, SeedWanted(m), b) = [c EXCEPT !.is = is, !.sum = IF b THEN Crc(is) ELSE c.sum]
  BY DEF Patch
<1> HIDE DEF is
<1>4. /\ Patch(c, SeedWanted(m), b) \in Copies
      /\ Patch(c, SeedWanted(m), b).magic = c.magic
      /\ Patch(c, SeedWanted(m), b).is = is
      /\ Patch(c, SeedWanted(m), b).sum = IF b THEN Crc(is) ELSE c.sum
  BY <1>1, <1>2, <1>3 DEF Copies
<1> QED
  BY <1>4 DEF is

\* patch_journal: the UUID, and the checksum where the log declares one.
LEMMA PatchedLog ==
    ASSUME TypeOK, WritesLog, NEW c \in LogCopies
    PROVE  LET d == PatchJournal(c)
           IN  /\ d \in LogCopies
               /\ d.is.uuid = change.uuid
               /\ d.is.declared = c.is.declared /\ d.is.crc32c = c.is.crc32c
               /\ d.sum = IF c.is.declared THEN Crc(d.is) ELSE c.sum
<1> DEFINE is == [c.is EXCEPT !.uuid = change.uuid]
<1>1. c.is \in LogFields /\ c.sum \in Words /\ change.uuid \in Uuids
  BY DEF LogCopies, TypeOK, Change, WritesLog
<1>2. /\ is \in LogFields /\ is.uuid = change.uuid
      /\ is.declared = c.is.declared /\ is.crc32c = c.is.crc32c
  BY <1>1 DEF LogFields
<1>3. Crc(is) \in Words
  BY <1>2, CrcAssumption
<1>4. PatchJournal(c) = [is |-> is, sum |-> IF c.is.declared THEN Crc(is) ELSE c.sum]
  BY DEF PatchJournal
<1> HIDE DEF is
<1> QED
  BY <1>1, <1>2, <1>3, <1>4 DEF LogCopies

-----------------------------------------------------------------------------
\* The target

\* What a run not interrupted makes of each place.
LEMMA TargetIs ==
    ASSUME TypeOK
    PROVE  /\ Target \in [Places -> Copies \cup LogCopies]
           /\ \A g \in Groups : /\ first[g] \in Copies /\ Target[g] \in Copies
                                /\ Target[g] = Patch(first[g], SeedWanted(first), HasSums)
           /\ first[Log] \in LogCopies /\ Target[Log] \in LogCopies
           /\ WritesLog => Target[Log] = PatchJournal(first[Log])
           /\ ~WritesLog => Target[Log] = first[Log]
<1>1. IsImage(first) /\ HasSums \in BOOLEAN
  BY Where DEF TypeOK, IsImage, HasSums, Copies, Fields
<1>2. \A g \in Groups : first[g] \in Copies
  BY <1>1 DEF IsImage
<1>3. first[Log] \in LogCopies
  BY <1>1 DEF IsImage
<1>4. \A p \in Places : Target[p] = IF p \in Written THEN Rewrite(first)[p] ELSE first[p]
  BY DEF Target
<1>5. ASSUME NEW g \in Groups
      PROVE  Target[g] = Patch(first[g], SeedWanted(first), HasSums) /\ Target[g] \in Copies
  <2>1. g \in Places /\ g \in Written /\ g # Log
    BY Where
  <2>2. Rewrite(first)[g] = Patch(first[g], SeedWanted(first), HasSums)
    BY <2>1 DEF Rewrite, HasSums
  <2>3. Patch(first[g], SeedWanted(first), HasSums) \in Copies
    BY <1>1, <1>2, PatchedCopy
  <2> QED
    BY <2>1, <2>2, <2>3, <1>4
<1>6. WritesLog => Target[Log] = PatchJournal(first[Log]) /\ Target[Log] \in LogCopies
  <2> SUFFICES ASSUME WritesLog
               PROVE  Target[Log] = PatchJournal(first[Log]) /\ Target[Log] \in LogCopies
    OBVIOUS
  <2>1. Log \in Places /\ Log \in Written
    BY Where
  <2>2. Rewrite(first)[Log] = PatchJournal(first[Log])
    BY <2>1 DEF Rewrite
  <2>3. PatchJournal(first[Log]) \in LogCopies
    BY <1>3, PatchedLog
  <2> QED
    BY <2>1, <2>2, <2>3, <1>4
<1>7. ~WritesLog => Target[Log] = first[Log]
  BY <1>4, Where
<1>8. Target \in [Places -> Copies \cup LogCopies]
  <2>1. \A p \in Places : Target[p] \in Copies \cup LogCopies
    BY <1>3, <1>5, <1>6, <1>7, Where
  <2>2. Target = [p \in Places |-> Target[p]]
    BY DEF Target
  <2> HIDE DEF Target
  <2> QED
    BY <2>1, <2>2
<1> QED
  BY <1>2, <1>3, <1>5, <1>6, <1>7, <1>8

\* The target's fields, one by one, and that its checksums hold.
LEMMA TargetFields ==
    ASSUME TypeOK, NEW g \in Groups
    PROVE  /\ Target[g].magic = first[g].magic
           /\ Target[g].is \in Fields /\ first[g].is \in Fields
           /\ Target[g].is.uuid = Or(change.uuid, first[g].is.uuid)
           /\ Target[g].is.label = Or(change.label, first[g].is.label)
           /\ Target[g].is.csum = first[g].is.csum /\ Target[g].is.rest = first[g].is.rest
           /\ Target[g].is.seeded = (first[g].is.seeded \/ SeedWanted(first) # {})
           /\ SeedWanted(first) = {} => Target[g].is.seed = first[g].is.seed
           /\ \A s : SeedWanted(first) = {s} => Target[g].is.seed = s
           /\ Target[g].sum = IF HasSums THEN Crc(Target[g].is) ELSE first[g].sum
<1>1. IsImage(first) /\ HasSums \in BOOLEAN
  BY Where DEF TypeOK, IsImage, HasSums, Copies, Fields
<1>2. first[g] \in Copies /\ first[g].is \in Fields
  BY TargetIs DEF Copies
<1>3. Target[g] = Patch(first[g], SeedWanted(first), HasSums)
  BY TargetIs
<1> DEFINE d == Patch(first[g], SeedWanted(first), HasSums)
<1>4. /\ d.magic = first[g].magic
      /\ d.is = PatchFields(first[g].is, SeedWanted(first))
      /\ d.sum = IF HasSums THEN Crc(d.is) ELSE first[g].sum
  BY <1>1, <1>2, PatchedCopy
<1> HIDE DEF d
<1> DEFINE h == PatchFields(first[g].is, SeedWanted(first))
<1>5. /\ h \in Fields
      /\ h.uuid = Or(change.uuid, first[g].is.uuid) /\ h.label = Or(change.label, first[g].is.label)
      /\ h.csum = first[g].is.csum /\ h.rest = first[g].is.rest
      /\ h.seeded = (first[g].is.seeded \/ SeedWanted(first) # {})
      /\ SeedWanted(first) = {} => h.seed = first[g].is.seed
      /\ \A s : SeedWanted(first) = {s} => h.seed = s
  BY <1>1, <1>2, PatchedFields
<1>6. Target[g] = d /\ d.is = h
  BY <1>3, <1>4 DEF d
<1> HIDE DEF h
<1> QED
  BY <1>2, <1>4, <1>5, <1>6

\* And the log's.
LEMMA TargetLog ==
    ASSUME TypeOK, WritesLog
    PROVE  /\ Target[Log].is.uuid = change.uuid
           /\ Target[Log].is.declared = first[Log].is.declared
           /\ Target[Log].is.crc32c = first[Log].is.crc32c
           /\ Target[Log].sum = IF first[Log].is.declared THEN Crc(Target[Log].is)
                                ELSE first[Log].sum
BY TargetIs, PatchedLog

\* The image before the first run, and after the last, is between the two.
LEMMA EndsAreMixed == TypeOK => Mixed(first) /\ Mixed(Target)
<1> SUFFICES ASSUME TypeOK PROVE Mixed(first) /\ Mixed(Target)
  OBVIOUS
<1>1. \A g \in Groups : MixedCopy(first[g], g) /\ MixedCopy(Target[g], g)
  <2> TAKE g \in Groups
  <2> QED
    BY TargetIs, TargetFields DEF MixedCopy
<1>2. MixedLog(first[Log]) /\ MixedLog(Target[Log])
  <2>1. CASE WritesLog
    BY <2>1, TargetIs, TargetLog DEF MixedLog
  <2>2. CASE ~WritesLog
    BY <2>2, TargetIs DEF MixedLog
  <2> QED
    BY <2>1, <2>2
<1>3. first \in [Places -> Copies \cup LogCopies] /\ Target \in [Places -> Copies \cup LogCopies]
  BY TargetIs DEF TypeOK, IsImage
<1> QED
  BY <1>1, <1>2, <1>3 DEF Mixed

\* Whoever shares the target's primary wants the seed the first run wanted: the one
\* recorded, or none.
LEMMA SeedStays ==
    ASSUME TypeOK, NEW m, IsImage(m), m[0] = first[0] \/ m[0] = Target[0], m[0].is.csum
    PROVE  SeedWanted(m) = SeedWanted(first)
<1>1. 0 \in Groups /\ IsImage(first)
  BY Where DEF TypeOK
<1>2. CASE m[0] = first[0]
  BY <1>2 DEF SeedWanted
<1>3. CASE m[0] = Target[0]
  <2>1. /\ first[0].is.csum
        /\ m[0].is.seeded = (first[0].is.seeded \/ SeedWanted(first) # {})
        /\ SeedWanted(first) = {} => m[0].is.seed = first[0].is.seed
        /\ \A s : SeedWanted(first) = {s} => m[0].is.seed = s
    BY <1>1, <1>3, TargetFields
  <2>2. CASE first[0].is.seeded
    BY <2>1, <2>2 DEF SeedWanted
  <2>3. CASE ~first[0].is.seeded /\ change.setSeed
    <3>1. SeedWanted(first) = {SeedOf(first[0].is.uuid)}
      BY <2>1, <2>3 DEF SeedWanted
    <3> QED
      BY <2>1, <2>3, <3>1 DEF SeedWanted
  <2>4. CASE ~first[0].is.seeded /\ ~change.setSeed
    <3>1. SeedWanted(first) = {}
      BY <2>1, <2>4 DEF SeedWanted
    <3> QED
      BY <2>1, <2>4, <3>1 DEF SeedWanted
  <2> QED
    BY <2>2, <2>3, <2>4
<1> QED
  BY <1>2, <1>3

-----------------------------------------------------------------------------
\* What a run makes of an image between the two

\* SuperblockChecksumMismatch: a copy between the original and the target whose checksum
\* holds is one of them, whole.
LEMMA SoundIsWhole ==
    ASSUME TypeOK, HasSums, ~Refusal(first), NEW g \in Groups, NEW c, MixedCopy(c, g), Sound(c)
    PROVE  c = first[g] \/ c = Target[g]
<1>1. Sound(first[g]) /\ c.sum = Crc(c.is)
  BY DEF Refusal, HasSums, Sound
<1>2. first[g].sum = Crc(first[g].is) /\ Target[g].sum = Crc(Target[g].is)
  BY <1>1, TargetFields DEF Sound
<1>3. c \in Copies /\ first[g] \in Copies /\ Target[g] \in Copies
  BY TargetIs DEF MixedCopy
<1>4. c.is \in Fields /\ first[g].is \in Fields /\ Target[g].is \in Fields
  BY <1>3 DEF Copies
<1>5. c.magic = first[g].magic /\ c.magic = Target[g].magic
  BY TargetFields DEF MixedCopy
<1>6. CASE c.sum = first[g].sum
  <2>1. c.is = first[g].is
    BY <1>1, <1>2, <1>4, <1>6, CrcAssumption
  <2> QED
    BY <1>3, <1>5, <1>6, <2>1, SameCopy
<1>7. CASE c.sum = Target[g].sum
  <2>1. c.is = Target[g].is
    BY <1>1, <1>2, <1>4, <1>7, CrcAssumption
  <2> QED
    BY <1>3, <1>5, <1>7, <2>1, SameCopy
<1> QED
  BY <1>6, <1>7 DEF MixedCopy

\* A field the change sets is the change's, whatever it is set over.
LEMMA OrAgain ==
    ASSUME NEW a, NEW old, NEW new, new \in {old, Or(a, old)}
    PROVE  Or(a, new) = Or(a, old)
BY DEF Or

\* Patching a copy between the two, with the seed every copy is given, makes the target:
\* with checksums a copy that is whole, without them whatever a torn write left.
LEMMA PatchReaches ==
    ASSUME TypeOK, NEW g \in Groups, NEW c, MixedCopy(c, g),
           HasSums => c = first[g] \/ c = Target[g]
    PROVE  Patch(c, SeedWanted(first), HasSums) = Target[g]
<1> DEFINE W == SeedWanted(first)
           d == Patch(c, W, HasSums)
           h == PatchFields(c.is, W)
<1>1. IsImage(first) /\ HasSums \in BOOLEAN
  BY Where DEF TypeOK, IsImage, HasSums, Copies, Fields
<1>2. c \in Copies /\ c.is \in Fields /\ first[g].is \in Fields
  BY TargetFields DEF MixedCopy, Copies
<1>3. d \in Copies /\ d.magic = c.magic /\ d.is = h /\ d.sum = IF HasSums THEN Crc(d.is) ELSE c.sum
  BY <1>1, <1>2, PatchedCopy
<1>4. /\ h \in Fields
      /\ h.uuid = Or(change.uuid, c.is.uuid) /\ h.label = Or(change.label, c.is.label)
      /\ h.csum = c.is.csum /\ h.rest = c.is.rest
      /\ h.seeded = (c.is.seeded \/ W # {})
      /\ W = {} => h.seed = c.is.seed
      /\ \A s : W = {s} => h.seed = s
  BY <1>1, <1>2, PatchedFields
<1>5. /\ Target[g].magic = first[g].magic
      /\ Target[g].is \in Fields
      /\ Target[g].is.uuid = Or(change.uuid, first[g].is.uuid)
      /\ Target[g].is.label = Or(change.label, first[g].is.label)
      /\ Target[g].is.csum = first[g].is.csum /\ Target[g].is.rest = first[g].is.rest
      /\ Target[g].is.seeded = (first[g].is.seeded \/ W # {})
      /\ W = {} => Target[g].is.seed = first[g].is.seed
      /\ \A s : W = {s} => Target[g].is.seed = s
      /\ Target[g].sum = IF HasSums THEN Crc(Target[g].is) ELSE first[g].sum
  BY TargetFields
<1>6. W = {} \/ \E s : W = {s}
  BY <1>1, SeedType
<1>7. first[g].is.seeded \in BOOLEAN /\ c.is.seeded \in BOOLEAN
  BY <1>2 DEF Fields
<1> HIDE DEF d, h, W
<1>8. h.uuid = Target[g].is.uuid /\ h.label = Target[g].is.label
  BY <1>4, <1>5, OrAgain DEF MixedCopy
<1>9. h.csum = Target[g].is.csum /\ h.rest = Target[g].is.rest
  BY <1>4, <1>5 DEF MixedCopy
<1>10. h.seeded = Target[g].is.seeded
  BY <1>4, <1>5, <1>7 DEF MixedCopy
<1>11. h.seed = Target[g].is.seed
  BY <1>4, <1>5, <1>6 DEF MixedCopy
<1>12. h = Target[g].is
  BY <1>4, <1>5, <1>8, <1>9, <1>10, <1>11, SameFields
<1>13. d.sum = Target[g].sum
  <2>1. CASE HasSums
    BY <1>3, <1>5, <1>12, <2>1
  <2>2. CASE ~HasSums
    BY <1>3, <1>5, <2>2 DEF MixedCopy
  <2> QED
    BY <2>1, <2>2
<1>14. d.magic = Target[g].magic
  BY <1>3, <1>5 DEF MixedCopy
<1>15. d = Target[g]
  BY <1>3, <1>12, <1>13, <1>14, TargetIs, SameCopy
<1> QED
  BY <1>15 DEF d, W

\* Patching the log between the two makes the target.
LEMMA PatchLogReaches ==
    ASSUME TypeOK, WritesLog, NEW c, MixedLog(c)
    PROVE  PatchJournal(c) = Target[Log]
<1>1. c \in LogCopies
  BY DEF MixedLog
<1> DEFINE d == PatchJournal(c)
<1>2. /\ d \in LogCopies /\ d.is.uuid = change.uuid
      /\ d.is.declared = c.is.declared /\ d.is.crc32c = c.is.crc32c
      /\ d.sum = IF c.is.declared THEN Crc(d.is) ELSE c.sum
  BY <1>1, PatchedLog
<1> HIDE DEF d
<1>3. /\ Target[Log] \in LogCopies
      /\ Target[Log].is.uuid = change.uuid
      /\ Target[Log].is.declared = first[Log].is.declared
      /\ Target[Log].is.crc32c = first[Log].is.crc32c
      /\ Target[Log].sum = IF first[Log].is.declared THEN Crc(Target[Log].is) ELSE first[Log].sum
  BY TargetIs, TargetLog
<1>4. d.is \in LogFields /\ Target[Log].is \in LogFields
  BY <1>2, <1>3 DEF LogCopies
<1>5. d.is = Target[Log].is
  BY <1>2, <1>3, <1>4 DEF MixedLog, LogFields
<1>6. d.sum = Target[Log].sum
  BY <1>2, <1>3, <1>5 DEF MixedLog
<1>7. d = Target[Log]
  BY <1>2, <1>3, <1>5, <1>6 DEF LogCopies
<1> QED
  BY <1>7 DEF d

\* What the second run plans is what the first did: plan_rewrite over any image a stopped
\* run leaves, when it is accepted, is the target.
LEMMA PlanReaches ==
    ASSUME TypeOK, Mixed(image), ~Refusal(image), ~Refusal(first)
    PROVE  Rewrite(image) = [p \in Written |-> Target[p]]
<1>1. IsImage(image) /\ IsImage(first) /\ 0 \in Groups
  BY Where DEF TypeOK
<1>2. \A g \in Groups : MixedCopy(image[g], g)
  BY DEF Mixed
<1>3. image[0].is.csum = HasSums
  BY <1>1, <1>2 DEF MixedCopy, HasSums
<1>4. ASSUME HasSums, NEW g \in Groups PROVE image[g] = first[g] \/ image[g] = Target[g]
  <2>1. Sound(image[g])
    BY <1>3, <1>4 DEF Refusal
  <2> QED
    BY <1>2, <1>4, <2>1, SoundIsWhole
<1>5. SeedWanted(image) = SeedWanted(first)
  <2>1. CASE HasSums
    BY <1>1, <1>3, <1>4, <2>1, SeedStays
  <2>2. CASE ~HasSums
    BY <1>3, <2>2 DEF SeedWanted, HasSums
  <2> QED
    BY <2>1, <2>2
<1>6. ASSUME NEW p \in Written PROVE Rewrite(image)[p] = Target[p]
  <2>1. CASE p \in Groups
    <3>1. p # Log
      BY <2>1, Where
    <3>2. Rewrite(image)[p] = Patch(image[p], SeedWanted(image), image[0].is.csum)
      BY <3>1 DEF Rewrite
    <3>3. Patch(image[p], SeedWanted(first), HasSums) = Target[p]
      BY <2>1, <1>2, <1>4, PatchReaches
    <3> QED
      BY <3>2, <3>3, <1>3, <1>5
  <2>2. CASE p = Log
    <3>1. WritesLog /\ MixedLog(image[Log])
      BY <2>2, Where DEF Mixed
    <3>2. Rewrite(image)[p] = PatchJournal(image[Log])
      BY <2>2 DEF Rewrite
    <3> QED
      BY <2>2, <3>1, <3>2, PatchLogReaches
  <2> QED
    BY <2>1, <2>2, Where
<1>7. Rewrite(image) = [p \in Written |-> Rewrite(image)[p]]
  BY DEF Rewrite
<1> QED
  BY <1>6, <1>7

\* A write cut short leaves a copy whose fields are each the old or the new.
LEMMA TornCopyMixed ==
    ASSUME TypeOK, NEW g \in Groups, NEW old, NEW new, MixedCopy(old, g), MixedCopy(new, g),
           NEW S \in SUBSET Pieces
    PROVE  /\ MixedCopy(Torn(old, new, S), g)
           /\ \A x \in {"uuid", "label", "seeded", "seed"} :
                 Torn(old, new, S).is[x] = IF x \in S THEN new.is[x] ELSE old.is[x]
           /\ Torn(old, new, S).sum = IF "sum" \in S THEN new.sum ELSE old.sum
<1> DEFINE is == [f \in DOMAIN old.is |-> IF f \in S THEN new.is[f] ELSE old.is[f]]
           sum == IF "sum" \in S THEN new.sum ELSE old.sum
           d == [old EXCEPT !.is = is, !.sum = sum]
<1>1. old \in Copies /\ new \in Copies /\ old.is \in Fields /\ new.is \in Fields
  BY DEF MixedCopy, Copies
<1>2. "csum" \notin S /\ "rest" \notin S
  BY DEF Pieces
<1>3. DOMAIN old.is = {"uuid", "label", "csum", "seeded", "seed", "rest"}
  BY <1>1 DEF Fields
<1>4. /\ is.uuid = IF "uuid" \in S THEN new.is.uuid ELSE old.is.uuid
      /\ is.label = IF "label" \in S THEN new.is.label ELSE old.is.label
      /\ is.seeded = IF "seeded" \in S THEN new.is.seeded ELSE old.is.seeded
      /\ is.seed = IF "seed" \in S THEN new.is.seed ELSE old.is.seed
      /\ is.csum = old.is.csum /\ is.rest = old.is.rest
  BY <1>2, <1>3
<1>5. is \in Fields
  <2>1. /\ is.uuid \in Uuids /\ is.label \in Labels /\ is.csum \in BOOLEAN
        /\ is.seeded \in BOOLEAN /\ is.seed \in Seeds /\ is.rest \in Rests
    BY <1>1, <1>4 DEF Fields
  <2>2. is = [f \in {"uuid", "label", "csum", "seeded", "seed", "rest"} |-> is[f]]
    BY <1>3
  <2> HIDE DEF is
  <2>3. is = [uuid |-> is.uuid, label |-> is.label, csum |-> is.csum, seeded |-> is.seeded,
              seed |-> is.seed, rest |-> is.rest]
    BY <2>2
  <2> QED
    BY <2>1, <2>3 DEF Fields
<1>6. Torn(old, new, S) = d
  BY DEF Torn
<1>7. sum \in Words /\ sum \in {first[g].sum, Target[g].sum}
  BY <1>1 DEF MixedCopy, Copies
<1> HIDE DEF is, sum
<1>8. d \in Copies /\ d.magic = old.magic /\ d.is = is /\ d.sum = sum
  BY <1>1, <1>5, <1>7 DEF Copies
<1>9. MixedCopy(d, g)
  <2>1. /\ is.uuid \in {first[g].is.uuid, Target[g].is.uuid}
        /\ is.label \in {first[g].is.label, Target[g].is.label}
        /\ is.seeded \in {first[g].is.seeded, Target[g].is.seeded}
        /\ is.seed \in {first[g].is.seed, Target[g].is.seed}
    BY <1>4 DEF MixedCopy
  <2>2. d.magic = first[g].magic /\ is.csum = first[g].is.csum /\ is.rest = first[g].is.rest
    BY <1>4, <1>8 DEF MixedCopy
  <2> HIDE DEF d
  <2> QED
    BY <1>7, <1>8, <2>1, <2>2 DEF MixedCopy
<1> HIDE DEF d
<1> QED
  BY <1>4, <1>6, <1>8, <1>9 DEF sum

\* And so for the log.
LEMMA TornLogMixed ==
    ASSUME TypeOK, NEW old, NEW new, MixedLog(old), MixedLog(new), NEW S \in SUBSET Pieces
    PROVE  MixedLog(Torn(old, new, S))
<1> DEFINE is == [f \in DOMAIN old.is |-> IF f \in S THEN new.is[f] ELSE old.is[f]]
           sum == IF "sum" \in S THEN new.sum ELSE old.sum
           d == [old EXCEPT !.is = is, !.sum = sum]
<1>1. old \in LogCopies /\ new \in LogCopies /\ old.is \in LogFields /\ new.is \in LogFields
  BY DEF MixedLog, LogCopies
<1>2. "declared" \notin S /\ "crc32c" \notin S
  BY DEF Pieces
<1>3. DOMAIN old.is = {"uuid", "declared", "crc32c"}
  BY <1>1 DEF LogFields
<1>4. /\ is.uuid = IF "uuid" \in S THEN new.is.uuid ELSE old.is.uuid
      /\ is.declared = old.is.declared /\ is.crc32c = old.is.crc32c
  BY <1>2, <1>3
<1>5. is \in LogFields
  <2>1. is.uuid \in Uuids /\ is.declared \in BOOLEAN /\ is.crc32c \in BOOLEAN
    BY <1>1, <1>4 DEF LogFields
  <2>2. is = [f \in {"uuid", "declared", "crc32c"} |-> is[f]]
    BY <1>3
  <2> HIDE DEF is
  <2>3. is = [uuid |-> is.uuid, declared |-> is.declared, crc32c |-> is.crc32c]
    BY <2>2
  <2> QED
    BY <2>1, <2>3 DEF LogFields
<1>6. Torn(old, new, S) = d
  BY DEF Torn
<1>7. sum \in Words /\ sum \in {first[Log].sum, Target[Log].sum}
  BY <1>1 DEF MixedLog, LogCopies
<1> HIDE DEF is, sum
<1>8. d \in LogCopies /\ d.is = is /\ d.sum = sum
  BY <1>1, <1>5, <1>7 DEF LogCopies
<1>9. /\ is.uuid \in {first[Log].is.uuid, Target[Log].is.uuid}
      /\ is.declared = first[Log].is.declared /\ is.crc32c = first[Log].is.crc32c
  BY <1>4 DEF MixedLog
<1> HIDE DEF d
<1> QED
  BY <1>6, <1>7, <1>8, <1>9 DEF MixedLog

\* Tearing a write over the copy it would write changes nothing.
LEMMA TornOverItself ==
    ASSUME NEW c, c \in Copies \cup LogCopies, NEW S \in SUBSET Pieces
    PROVE  Torn(c, c, S) = c
<1>1. c.is \in Fields \cup LogFields
  BY DEF Copies, LogCopies
<1>2. [f \in DOMAIN c.is |-> IF f \in S THEN c.is[f] ELSE c.is[f]] = c.is
  BY <1>1 DEF Fields, LogFields
<1>3. Torn(c, c, S) = [c EXCEPT !.is = c.is, !.sum = c.sum]
  BY <1>2 DEF Torn
<1> QED
  BY <1>3 DEF Copies, LogCopies

-----------------------------------------------------------------------------
\* The invariant

MixedAt(c, p) == IF p = Log THEN MixedLog(c) ELSE MixedCopy(c, p)

\* What an image of mixed places is, place by place.
LEMMA MixedPlaces ==
    ASSUME NEW m, m \in [Places -> Copies \cup LogCopies]
    PROVE  Mixed(m) <=> \A p \in Places : MixedAt(m[p], p)
BY Where DEF Mixed, MixedAt

\* An image of mixed places is an image.
LEMMA MixedIsImage == ASSUME NEW m, Mixed(m) PROVE IsImage(m)
BY Where DEF Mixed, MixedCopy, MixedLog, IsImage

\* One place given a mixed record leaves a mixed image.
LEMMA MixedWrite ==
    ASSUME NEW m, Mixed(m), NEW p \in Places, NEW c, MixedAt(c, p)
    PROVE  Mixed([m EXCEPT ![p] = c])
<1>1. m \in [Places -> Copies \cup LogCopies] /\ c \in Copies \cup LogCopies
  BY DEF Mixed, MixedAt, MixedCopy, MixedLog
<1>2. \A q \in Places : MixedAt(m[q], q)
  BY <1>1, MixedPlaces
<1> DEFINE n == [m EXCEPT ![p] = c]
<1>3. n \in [Places -> Copies \cup LogCopies] /\ \A q \in Places : n[q] = IF q = p THEN c ELSE m[q]
  BY <1>1
<1> HIDE DEF n
<1>4. \A q \in Places : MixedAt(n[q], q)
  BY <1>2, <1>3
<1>5. Mixed(n)
  BY <1>3, <1>4, MixedPlaces
<1> QED
  BY <1>5 DEF n

\* A torn write of one mixed record over another leaves a mixed record.
LEMMA TornMixed ==
    ASSUME TypeOK, NEW p \in Places, NEW old, NEW new, MixedAt(old, p), MixedAt(new, p),
           NEW S \in SUBSET Pieces
    PROVE  MixedAt(Torn(old, new, S), p)
<1>1. p = Log \/ (p \in Groups /\ p # Log)
  BY Where
<1> QED
  BY <1>1, TornCopyMixed, TornLogMixed DEF MixedAt

\* The change and the first image are the run's for good, and so is what is made of them.
LEMMA Fixed ==
    ASSUME UNCHANGED <<filesystem, first>>
    PROVE  /\ WritesLog' <=> WritesLog
           /\ Written' = Written
           /\ Target' = Target
           /\ HasSums' = HasSums
           /\ SeedWanted(first)' = SeedWanted(first)
           /\ Refusal(first)' <=> Refusal(first)
<1>1. hasLog' = hasLog /\ recover' = recover /\ short' = short /\ change' = change /\ first' = first
  BY DEF filesystem
<1>2. (WritesLog' <=> WritesLog) /\ Written' = Written
  BY <1>1 DEF WritesLog, Written
<1>3. Rewrite(first)' = Rewrite(first)
  BY <1>1, <1>2 DEF Rewrite, Patch, PatchJournal, PatchFields, Or, SeedWanted
<1>4. Target' = Target
  BY <1>1, <1>2, <1>3 DEF Target
<1>5. HasSums' = HasSums /\ SeedWanted(first)' = SeedWanted(first)
  BY <1>1 DEF HasSums, SeedWanted
<1>6. Refusal(first)' <=> Refusal(first)
  BY <1>1, <1>2 DEF Refusal, Sound
<1> QED
  BY <1>2, <1>4, <1>5, <1>6

\* So a mixed image stays one.
LEMMA StillMixed ==
    ASSUME UNCHANGED <<filesystem, first>>, NEW m, Mixed(m)
    PROVE  (image' = m => Mixed(image)') /\ (disk' = m => Mixed(disk)')
<1>1. Target' = Target /\ first' = first
  BY Fixed
<1> QED
  BY <1>1 DEF Mixed, MixedCopy, MixedLog

\* The parts of the types a step may disturb.
LEMMA StillTyped ==
    ASSUME TypeOK, UNCHANGED <<filesystem, first>>, Mixed(image)', Mixed(disk)',
           phase' \in {"idle", "writing", "done", "refused"}, next' \in 0..(Log + 1),
           turnedOn' \in BOOLEAN, lost' \in BOOLEAN, stops' \in 0..MaxStops
    PROVE  TypeOK'
<1>1. IsImage(image') /\ IsImage(disk')
  BY Where DEF Mixed, MixedCopy, MixedLog, IsImage
<1> QED
  BY <1>1 DEF TypeOK, filesystem, IsImage

\* A change refused of the first image is never planned.
LEMMA AcceptedAtFirst == IInv /\ (phase \in {"writing", "done"} \/ ~Refusal(image)) => ~Refusal(first)
BY DEF IInv, Untouched

\* The initial states.
LEMMA IInvInit == Init => IInv
<1> SUFFICES ASSUME Init PROVE IInv
  OBVIOUS
<1>1. TypeOK
  <2>1. IsImage(first) /\ change \in Change
    BY ImagesAssumption, ChangesAssumption DEF Init
  <2>2. 0 \in 0..(Log + 1) /\ 0 \in 0..MaxStops
    BY LastAssumption, StopsAssumption DEF Log
  <2> QED
    BY <2>1, <2>2 DEF Init, TypeOK
<1>2. Mixed(image) /\ Mixed(disk)
  BY <1>1, EndsAreMixed DEF Init
<1> QED
  BY <1>1, <1>2 DEF IInv, Init, Untouched, Writing, RerunReachesTarget, PrimaryLeads, DiskBehind

\* Refusing, and doing nothing, leave both images alone.
LEMMA RefuseKeeps == IInv /\ (Refuse \/ UNCHANGED vars) => IInv'
<1> SUFFICES ASSUME IInv, Refuse \/ UNCHANGED vars PROVE IInv'
  OBVIOUS
<1>1. /\ UNCHANGED <<filesystem, first>> /\ image' = image /\ disk' = disk /\ lost' = lost
      /\ planned' = planned /\ next' = next /\ turnedOn' = turnedOn /\ stops' = stops
      /\ phase' = phase \/ phase' = "refused"
  BY DEF Refuse, vars, observers
<1>2. Target' = Target /\ Written' = Written /\ HasSums' = HasSums /\ (Refusal(first)' <=> Refusal(first))
  BY <1>1, Fixed
<1>3. Mixed(image)' /\ Mixed(disk)'
  BY <1>1, StillMixed DEF IInv
<1>4. TypeOK'
  BY <1>1, <1>3, StillTyped DEF IInv, TypeOK
<1>5. Untouched'
  BY <1>1, <1>2 DEF IInv, Untouched
<1>6. Writing'
  BY <1>1, <1>2 DEF IInv, Writing, Sound
<1> QED
  BY <1>1, <1>2, <1>3, <1>4, <1>5, <1>6
  DEF IInv, RerunReachesTarget, PrimaryLeads, DiskBehind

\* An accepted run plans the target, over copies that are sound.
LEMMA PlanKeeps == IInv /\ Plan => IInv'
<1> SUFFICES ASSUME IInv, Plan PROVE IInv'
  OBVIOUS
<1>1. /\ UNCHANGED <<filesystem, first>> /\ image' = image /\ disk' = disk /\ lost' = lost
      /\ planned' = Rewrite(image) /\ next' = 0 /\ phase' = "writing" /\ stops' = stops
      /\ turnedOn' \in BOOLEAN /\ ~Refusal(image)
  BY DEF Plan, observers
<1>2. Target' = Target /\ Written' = Written /\ HasSums' = HasSums /\ (Refusal(first)' <=> Refusal(first))
  BY <1>1, Fixed
<1>3. ~Refusal(first) /\ TypeOK /\ Mixed(image)
  BY <1>1, AcceptedAtFirst DEF IInv
<1>4. Mixed(image)' /\ Mixed(disk)'
  BY <1>1, StillMixed DEF IInv
<1>5. TypeOK'
  <2>1. 0 \in 0..(Log + 1) /\ stops \in 0..MaxStops /\ lost \in BOOLEAN
    BY LastAssumption DEF IInv, TypeOK, Log
  <2> QED
    BY <1>1, <1>3, <1>4, <2>1, StillTyped
<1>6. Writing'
  <2>1. planned' = [p \in Written |-> Target[p]]
    BY <1>1, <1>3, PlanReaches
  <2>2. HasSums => \A g \in Groups : Sound(image[g])
    BY <1>1, <1>3, Where DEF Refusal, Mixed, MixedCopy, HasSums
  <2>3. \A p \in Written : ~(p < 0)
    BY LastAssumption DEF Written, Places, Groups, Log
  <2> QED
    BY <1>1, <1>2, <2>1, <2>2, <2>3 DEF Writing, Sound
<1> QED
  BY <1>1, <1>2, <1>3, <1>4, <1>5, <1>6
  DEF IInv, Untouched, RerunReachesTarget, PrimaryLeads, DiskBehind

\* What a run about to write finds: where it is, what it writes there, and what is there.
LEMMA WritingHere ==
    ASSUME IInv, phase = "writing", next \in Written
    PROVE  /\ TypeOK /\ ~Refusal(first) /\ next \in Places /\ next \in Nat
           /\ planned[next] = Target[next] /\ image[next] \in Copies \cup LogCopies
           /\ MixedAt(image[next], next) /\ MixedAt(Target[next], next)
           /\ next \in Groups /\ HasSums => image[next] \in {first[next], Target[next]}
           /\ next # 0 => image[0] = Target[0]
<1>1. TypeOK /\ Mixed(image) /\ Writing
  BY DEF IInv
<1>2. next \in Places /\ next \in Nat /\ planned[next] = Target[next]
  BY <1>1, Where, LastAssumption DEF Writing, Places, Log
<1>3. Mixed(Target)
  BY <1>1, EndsAreMixed
<1>4. MixedAt(image[next], next) /\ MixedAt(Target[next], next)
  BY <1>1, <1>2, <1>3, MixedPlaces DEF Mixed
<1>5. ~Refusal(first)
  BY AcceptedAtFirst
<1>6. ASSUME next \in Groups, HasSums PROVE image[next] \in {first[next], Target[next]}
  BY <1>1, <1>5, <1>6, SoundIsWhole DEF Writing, Mixed
<1>7. next # 0 => image[0] = Target[0]
  BY <1>1, <1>2, Where DEF Writing
<1>8. image[next] \in Copies \cup LogCopies
  BY <1>1, <1>2 DEF Mixed
<1> QED
  BY <1>1, <1>2, <1>4, <1>5, <1>6, <1>7, <1>8

\* A sound target: with checksums, every superblock copy of it checks out.
LEMMA TargetSound == ASSUME TypeOK, HasSums PROVE \A g \in Groups : Sound(Target[g])
BY TargetFields DEF Sound

\* The next place is given the target.
LEMMA WriteKeeps == IInv /\ WriteNext => IInv'
<1> SUFFICES ASSUME IInv, WriteNext PROVE IInv'
  OBVIOUS
<1>1. /\ UNCHANGED <<filesystem, first>> /\ disk' = disk /\ lost' = lost /\ stops' = stops
      /\ phase = "writing" /\ phase' = "writing" /\ planned' = planned /\ turnedOn' = turnedOn
      /\ next \in Written /\ next' = next + 1
      /\ image' = [image EXCEPT ![next] = planned[next]]
  BY DEF WriteNext, observers
<1>2. Target' = Target /\ Written' = Written /\ HasSums' = HasSums /\ (Refusal(first)' <=> Refusal(first))
  BY <1>1, Fixed
<1>3. /\ TypeOK /\ ~Refusal(first) /\ next \in Places /\ next \in Nat
      /\ planned[next] = Target[next] /\ MixedAt(Target[next], next)
      /\ next \in Groups /\ HasSums => image[next] \in {first[next], Target[next]}
      /\ next # 0 => image[0] = Target[0]
  BY <1>1, WritingHere
<1>4. Mixed(image)' /\ Mixed(disk)'
  BY <1>1, <1>3, MixedWrite, StillMixed DEF IInv
<1>5. \A p \in Places : image'[p] = IF p = next THEN Target[p] ELSE image[p]
  BY <1>1, <1>3 DEF IInv, Mixed
<1>6. TypeOK'
  <2>1. next + 1 \in 0..(Log + 1)
    BY <1>3, LastAssumption DEF Places, Log
  <2> QED
    BY <1>1, <1>3, <1>4, <2>1, StillTyped DEF TypeOK
<1>7. Writing'
  <2>1. planned' = [p \in Written |-> Target[p]]
    BY <1>1 DEF IInv, Writing
  <2>2. ASSUME NEW p \in Written, p < next + 1 PROVE image'[p] = Target[p]
    <3>1. p \in Places /\ (p = next \/ p < next)
      BY <1>3, <2>2, Where, LastAssumption DEF Places, Log
    <3> QED
      BY <1>1, <1>5, <3>1 DEF IInv, Writing
  <2>3. ASSUME HasSums, NEW g \in Groups PROVE image'[g].sum = Crc(image'[g].is)
    <3>1. Sound(image[g]) /\ Sound(Target[g])
      BY <1>1, <1>3, <2>3, TargetSound DEF IInv, Writing
    <3> QED
      BY <1>5, <3>1, Where DEF Sound
  <2> QED
    BY <1>1, <1>2, <2>1, <2>2, <2>3 DEF Writing, Sound
<1>8. PrimaryLeads'
  <2>1. image'[0] = Target[0]
    BY <1>3, <1>5, Where
  <2> QED
    BY <1>2, <2>1 DEF PrimaryLeads
<1>9. DiskBehind'
  <2>1. ASSUME HasSums, NEW g \in Groups PROVE disk[g] \in {first[g], image'[g]}
    BY <1>3, <1>5, <2>1, Where DEF IInv, DiskBehind
  <2> QED
    BY <1>1, <1>2, <2>1 DEF DiskBehind
<1> QED
  BY <1>1, <1>2, <1>3, <1>4, <1>6, <1>7, <1>8, <1>9 DEF IInv, Untouched, RerunReachesTarget

\* A run that has written everything it planned has made the target.
LEMMA FinishKeeps == IInv /\ Finish => IInv'
<1> SUFFICES ASSUME IInv, Finish PROVE IInv'
  OBVIOUS
<1>1. /\ UNCHANGED <<filesystem, first>> /\ image' = image /\ disk' = disk /\ lost' = lost
      /\ stops' = stops /\ phase = "writing" /\ phase' = "done" /\ turnedOn' = turnedOn
      /\ next \notin Written /\ next' = 0
  BY DEF Finish, observers
<1>2. Target' = Target /\ HasSums' = HasSums /\ (Refusal(first)' <=> Refusal(first))
  BY <1>1, Fixed
<1>3. ~Refusal(first) /\ TypeOK /\ Mixed(image)
  BY <1>1, AcceptedAtFirst DEF IInv
<1>4. Mixed(image)' /\ Mixed(disk)'
  BY <1>1, StillMixed DEF IInv
<1>5. TypeOK'
  <2>1. 0 \in 0..(Log + 1)
    BY LastAssumption DEF Log
  <2> QED
    BY <1>1, <1>3, <1>4, <2>1, StillTyped DEF TypeOK
<1>6. image = Target
  <2>1. ASSUME NEW p \in Written PROVE image[p] = Target[p]
    <3>1. p < next
      BY <1>1, <1>3, LastAssumption DEF TypeOK, Written, Places, Groups, Log
    <3> QED
      BY <1>1, <3>1 DEF IInv, Writing
  <2>2. ASSUME Log \notin Written PROVE image[Log] = Target[Log]
    <3>1. Target[Log] = first[Log] /\ MixedLog(image[Log]) /\ first[Log] \in LogCopies
      BY <1>3, <2>2, Where, TargetIs DEF Mixed
    <3> QED
      BY <3>1, SameLog DEF MixedLog
  <2>3. \A p \in Places : image[p] = Target[p]
    BY <2>1, <2>2, Where
  <2>4. image \in [Places -> Copies \cup LogCopies] /\ Target \in [Places -> Copies \cup LogCopies]
    BY <1>3, TargetIs DEF Mixed
  <2> QED
    BY <2>3, <2>4
<1>7. RerunReachesTarget'
  BY <1>1, <1>2, <1>6 DEF RerunReachesTarget
<1> QED
  BY <1>1, <1>2, <1>3, <1>4, <1>5, <1>7
  DEF IInv, Untouched, Writing, PrimaryLeads, DiskBehind

\* An error leaves one copy torn, ahead of a disk that has it as it was.
LEMMA FailKeeps == IInv /\ WriteFails => IInv'
<1> SUFFICES ASSUME IInv, WriteFails PROVE IInv'
  OBVIOUS
<1>1. PICK S \in SUBSET Pieces : image' = [image EXCEPT ![next] = Torn(@, planned[next], S)]
  BY DEF WriteFails
<1>2. /\ UNCHANGED <<filesystem, first>> /\ disk' = disk /\ lost' = lost
      /\ phase = "writing" /\ phase' = "idle" /\ next' = 0 /\ turnedOn' = FALSE
      /\ next \in Written /\ stops < MaxStops /\ stops' = stops + 1
  BY DEF WriteFails, Again
<1>3. Target' = Target /\ Written' = Written /\ HasSums' = HasSums /\ (Refusal(first)' <=> Refusal(first))
  BY <1>2, Fixed
<1>4. /\ TypeOK /\ ~Refusal(first) /\ next \in Places /\ next \in Nat
      /\ planned[next] = Target[next] /\ MixedAt(image[next], next) /\ MixedAt(Target[next], next)
      /\ next \in Groups /\ HasSums => image[next] \in {first[next], Target[next]}
      /\ next # 0 => image[0] = Target[0]
  BY <1>2, WritingHere
<1> DEFINE torn == Torn(image[next], Target[next], S)
<1>5. MixedAt(torn, next) /\ image' = [image EXCEPT ![next] = torn]
  BY <1>1, <1>4, TornMixed
<1>6. image[next] = Target[next] /\ next \in Groups => torn = Target[next]
  <2> SUFFICES ASSUME image[next] = Target[next], next \in Groups PROVE torn = Target[next]
    OBVIOUS
  <2>1. Target[next] \in Copies \cup LogCopies
    BY <1>4, TargetIs
  <2> QED
    BY <2>1, TornOverItself
<1> HIDE DEF torn
<1>7. \A p \in Places : image'[p] = IF p = next THEN torn ELSE image[p]
  BY <1>4, <1>5 DEF IInv, Mixed
<1>8. Mixed(image)' /\ Mixed(disk)'
  BY <1>2, <1>4, <1>5, MixedWrite, StillMixed DEF IInv
<1>9. TypeOK'
  <2>1. 0 \in 0..(Log + 1) /\ stops + 1 \in 0..MaxStops
    BY <1>2, <1>4, LastAssumption, StopsAssumption DEF Log, TypeOK
  <2> QED
    BY <1>2, <1>4, <1>8, <2>1, StillTyped DEF TypeOK
<1>10. PrimaryLeads'
  <2>1. CASE next # 0
    <3>1. image'[0] = Target[0]
      BY <1>4, <1>7, <2>1, Where
    <3> QED
      BY <1>3, <3>1 DEF PrimaryLeads
  <2>2. CASE next = 0
    <3>1. CASE image[0] = Target[0]
      <4>1. image'[0] = Target[0]
        BY <1>6, <1>7, <2>2, <3>1, Where
      <4> QED
        BY <1>3, <4>1 DEF PrimaryLeads
    <3>2. CASE image[0] # Target[0]
      <4>1. ~lost => \A p \in 1..Log : image[p] = first[p]
        BY <3>2 DEF IInv, PrimaryLeads
      <4>2. \A p \in 1..Log : p \in Places /\ p # next
        BY <2>2, LastAssumption DEF Places, Log
      <4>3. ~lost => \A p \in 1..Log : image'[p] = first[p]
        BY <4>1, <4>2, <1>7
      <4> QED
        BY <1>2, <1>3, <4>3 DEF PrimaryLeads
    <3> QED
      BY <3>1, <3>2
  <2> QED
    BY <2>1, <2>2
<1>11. DiskBehind'
  <2>1. ASSUME HasSums, NEW g \in Groups PROVE disk[g] \in {first[g], image'[g]}
    <3>1. disk[g] \in {first[g], image[g]} /\ g \in Places
      BY <2>1, Where DEF IInv, DiskBehind
    <3> QED
      BY <1>4, <1>6, <1>7, <2>1, <3>1
  <2> QED
    BY <1>2, <1>3, <2>1 DEF DiskBehind
<1> QED
  BY <1>2, <1>3, <1>4, <1>8, <1>9, <1>10, <1>11
  DEF IInv, Untouched, Writing, RerunReachesTarget

\* A copy the disk is given is the one the run left.
LEMMA WritebackKeeps == ASSUME IInv, NEW p \in Places, Writeback(p) PROVE IInv'
<1>1. /\ UNCHANGED <<filesystem, first>> /\ image' = image /\ lost' = lost /\ stops' = stops
      /\ phase' = phase /\ planned' = planned /\ next' = next /\ turnedOn' = turnedOn
      /\ disk' = [disk EXCEPT ![p] = image[p]] /\ disk[p] # image[p]
  BY DEF Writeback, observers
<1>2. Target' = Target /\ Written' = Written /\ HasSums' = HasSums /\ (Refusal(first)' <=> Refusal(first))
  BY <1>1, Fixed
<1>3. MixedAt(image[p], p)
  BY MixedPlaces DEF IInv, Mixed
<1>4. Mixed(image)' /\ Mixed(disk)'
  BY <1>1, <1>3, MixedWrite, StillMixed DEF IInv
<1>5. TypeOK'
  BY <1>1, <1>4, StillTyped DEF IInv, TypeOK
<1>6. Untouched'
  BY <1>1, <1>2 DEF IInv, Untouched
<1>7. Writing'
  BY <1>1, <1>2 DEF IInv, Writing, Sound
<1>8. DiskBehind'
  <2>1. \A q \in Places : disk'[q] = IF q = p THEN image[p] ELSE disk[q]
    BY <1>1 DEF IInv, Mixed
  <2>2. ASSUME HasSums, NEW g \in Groups PROVE disk'[g] \in {first[g], image[g]}
    BY <2>1, <2>2, Where DEF IInv, DiskBehind
  <2> QED
    BY <1>1, <1>2, <2>2 DEF DiskBehind
<1> QED
  BY <1>1, <1>2, <1>4, <1>5, <1>6, <1>7, <1>8 DEF IInv, RerunReachesTarget, PrimaryLeads

\* Power loss leaves the disk's image, with one write torn.
LEMMA PowerLossKeeps == IInv /\ PowerLoss => IInv'
<1> SUFFICES ASSUME IInv, PowerLoss PROVE IInv'
  OBVIOUS
<1>1. PICK p \in Places, S \in SUBSET Pieces :
         disk' = [disk EXCEPT ![p] = Torn(@, image[p], S)]
  BY DEF PowerLoss
<1>2. /\ UNCHANGED <<filesystem, first>> /\ image' = disk' /\ lost' = TRUE
      /\ phase' = "idle" /\ next' = 0 /\ turnedOn' = FALSE
      /\ stops < MaxStops /\ stops' = stops + 1
  BY DEF PowerLoss, Again
<1>3. HasSums' = HasSums /\ (Refusal(first)' <=> Refusal(first))
  BY <1>2, Fixed
<1>4. MixedAt(image[p], p) /\ MixedAt(disk[p], p) /\ TypeOK /\ p \in DOMAIN disk
  BY MixedPlaces DEF IInv, Mixed
<1> DEFINE torn == Torn(disk[p], image[p], S)
<1>5. MixedAt(torn, p) /\ disk' = [disk EXCEPT ![p] = torn]
  BY <1>1, <1>4, TornMixed
<1>6. image[p] = disk[p] => torn = disk[p]
  BY <1>4, TornOverItself DEF MixedAt, MixedCopy, MixedLog
<1> HIDE DEF torn
<1>7. Mixed(image)' /\ Mixed(disk)'
  <2>1. Mixed([disk EXCEPT ![p] = torn])
    BY <1>5, MixedWrite DEF IInv
  <2> QED
    BY <1>2, <1>5, <2>1, StillMixed
<1>8. TypeOK'
  <2>1. 0 \in 0..(Log + 1) /\ stops + 1 \in 0..MaxStops
    BY <1>2, <1>4, LastAssumption, StopsAssumption DEF Log, TypeOK
  <2> QED
    BY <1>2, <1>4, <1>7, <2>1, StillTyped
<1>9. Untouched'
  <2> SUFFICES ASSUME Refusal(first) PROVE disk' = first
    BY <1>2, <1>3 DEF Untouched
  <2>1. image = first /\ disk = first
    BY DEF IInv, Untouched
  <2>2. disk' = [disk EXCEPT ![p] = disk[p]]
    BY <1>5, <1>6, <2>1
  <2>3. disk \in [Places -> Copies \cup LogCopies]
    BY DEF IInv, Mixed
  <2> QED
    BY <2>1, <2>2, <2>3
<1>10. DiskBehind'
  BY <1>2 DEF DiskBehind
<1> QED
  BY <1>2, <1>7, <1>8, <1>9, <1>10
  DEF IInv, Writing, RerunReachesTarget, PrimaryLeads

\* Every step keeps the invariant.
LEMMA IInvStep == IInv /\ [Next]_vars => IInv'
BY RefuseKeeps, PlanKeeps, WriteKeeps, FinishKeeps, FailKeeps, WritebackKeeps, PowerLossKeeps
DEF Next, Step

\* So it holds throughout.
LEMMA Invariance == Spec => []IInv
BY IInvInit, IInvStep, PTL DEF Spec

-----------------------------------------------------------------------------
\* What it gives

\* Every variable keeps its type, whatever is torn.
THEOREM TypeCorrect == Spec => []TypeOK
<1>1. IInv => TypeOK
  BY DEF IInv
<1> QED
  BY <1>1, Invariance, PTL

\* What a refusal looks at survives: an image all of whose places are whole is refused only
\* if the first was.
LEMMA WholeIsAccepted == IInv => RerunIsAccepted
<1> SUFFICES ASSUME IInv, Whole(image), ~Refusal(first) PROVE ~Refusal(image)
  BY DEF RerunIsAccepted
<1>1. TypeOK /\ Mixed(image) /\ 0 \in Groups /\ Log \in Places /\ Groups \subseteq Places
  BY Where DEF IInv
<1>2. \A g \in Groups : MixedCopy(image[g], g)
  BY <1>1 DEF Mixed
<1>3. \A g \in Groups : image[g].magic = first[g].magic
  BY <1>2 DEF MixedCopy
<1>4. image[0].is.csum = HasSums
  BY <1>1, <1>2 DEF MixedCopy, HasSums
<1>5. ASSUME HasSums, NEW g \in Groups PROVE Sound(image[g])
  <2>1. image[g] = first[g] \/ image[g] = Target[g]
    BY <1>1 DEF Whole
  <2>2. Sound(first[g]) /\ Sound(Target[g])
    BY <1>1, <1>5, TargetSound DEF Refusal, HasSums
  <2> QED
    BY <2>1, <2>2
<1>6. first[0].is.seeded => image[0].is.seeded
  BY <1>1, <1>2, TargetFields DEF MixedCopy
<1>7. ASSUME WritesLog, image[Log].is.declared PROVE image[Log].is.crc32c /\ Sound(image[Log])
  <2>1. image[Log].is.declared = first[Log].is.declared /\ image[Log].is.crc32c = first[Log].is.crc32c
    BY <1>1 DEF Mixed, MixedLog
  <2>2. first[Log].is.crc32c /\ Sound(first[Log])
    BY <1>7, <2>1 DEF Refusal
  <2>3. Sound(Target[Log])
    BY <1>1, <1>7, <2>1, TargetLog DEF Sound
  <2>4. image[Log] = first[Log] \/ image[Log] = Target[Log]
    BY <1>1 DEF Whole
  <2> QED
    BY <2>1, <2>2, <2>3, <2>4
<1>8. /\ ~recover /\ ~short /\ ~(~HasSums /\ change.setSeed)
      /\ ~(HasSums /\ ~first[0].is.seeded /\ ~change.setSeed /\ change.uuid # Keep)
      /\ \A g \in Groups : first[g].magic
  BY DEF Refusal, HasSums
<1> QED
  BY <1>3, <1>4, <1>5, <1>6, <1>7, <1>8 DEF Refusal

\* rewrite_identity, "a second run reaches exactly the bytes a first run over the untouched
\* image does": whatever stopped a run, and however often, one that ends has made what one
\* uninterrupted run makes, and the change is accepted again while no write was torn.
THEOREM RerunsFinish == Spec => []RerunFinishes
<1>1. IInv => RerunFinishes
  BY WholeIsAccepted DEF IInv, RerunFinishes
<1> QED
  BY <1>1, Invariance, PTL

\* "The primary is written first": without a power loss the primary holds the new identity
\* if any place does.
THEOREM PrimaryFirst == Spec => []PrimaryLeads
<1>1. IInv => PrimaryLeads
  BY DEF IInv
<1> QED
  BY <1>1, Invariance, PTL

\* A copy of the target records the seed the first image's checksums were made with, if the
\* change hands out a seed; if not, it gives the seed it gave.
LEMMA TargetSeed ==
    ASSUME TypeOK, HasSums, ~Refusal(first), NEW g \in Groups
    PROVE  /\ SeedWanted(first) # {} => SeedInForce(Target[g]) = SeedInForce(first[0])
           /\ SeedWanted(first) = {} => SeedInForce(Target[g]) = SeedInForce(first[g])
<1>1. 0 \in Groups
  BY Where
<1>2. CASE SeedWanted(first) # {}
  <2>1. SeedWanted(first) = {SeedInForce(first[0])}
    BY <1>2 DEF SeedWanted, SeedInForce, HasSums
  <2>2. Target[g].is.seeded /\ Target[g].is.seed = SeedInForce(first[0])
    BY <1>2, <2>1, TargetFields
  <2> QED
    BY <1>2, <2>2 DEF SeedInForce
<1>3. CASE SeedWanted(first) = {}
  <2>1. change.uuid = Keep
    BY <1>3 DEF SeedWanted, Refusal, HasSums
  <2>2. Target[g].is.uuid = first[g].is.uuid
    BY <2>1, TargetFields DEF Or
  <2>3. /\ Target[g].is.seed = first[g].is.seed
        /\ Target[g].is.seeded = (first[g].is.seeded \/ SeedWanted(first) # {})
        /\ first[g].is \in Fields
    BY <1>3, TargetFields
  <2> QED
    BY <1>3, <2>2, <2>3 DEF SeedInForce, Fields
<1> QED
  BY <1>2, <1>3

\* "every existing checksum stays valid": at every moment a copy that checks out gives the
\* seed the filesystem's checksums were made with, if it did or was handed it.
THEOREM SeedsStayValid == Spec => []ChecksumsStayValid
<1>1. ASSUME IInv, image[0].is.csum, ~Refusal(first), NEW g \in Groups, Sound(image[g]),
             \/ SeedInForce(first[g]) = SeedInForce(first[0])
             \/ image[g] # first[g] /\ SeedWanted(first) # {}
      PROVE  SeedInForce(image[g]) = SeedInForce(first[0])
  <2>1. TypeOK /\ MixedCopy(image[g], g) /\ HasSums
    BY <1>1, Where DEF IInv, Mixed, MixedCopy, HasSums
  <2>2. image[g] = first[g] \/ image[g] = Target[g]
    BY <1>1, <2>1, SoundIsWhole
  <2> QED
    BY <1>1, <2>1, <2>2, TargetSeed
<1>2. IInv => ChecksumsStayValid
  BY <1>1 DEF ChecksumsStayValid
<1> QED
  BY <1>2, Invariance, PTL

\* A torn write of the target over the original, torn again over the original, checks out
\* only as the original: with a checksum no mixture has, it would have to be the target,
\* and then so would what was torn.
LEMMA TornTwice ==
    ASSUME TypeOK, HasSums, ~Refusal(first), NEW g \in Groups, NEW c, MixedCopy(c, g), ~Sound(c),
           NEW S \in SUBSET Pieces, Sound(Torn(first[g], c, S))
    PROVE  Torn(first[g], c, S) = first[g]
<1> DEFINE d == Torn(first[g], c, S)
<1>1. MixedCopy(first[g], g)
  BY EndsAreMixed DEF Mixed
<1>2. /\ MixedCopy(d, g) /\ d.sum = IF "sum" \in S THEN c.sum ELSE first[g].sum
      /\ \A x \in {"uuid", "label", "seeded", "seed"} :
            d.is[x] = IF x \in S THEN c.is[x] ELSE first[g].is[x]
  BY <1>1, TornCopyMixed
<1> HIDE DEF d
<1>3. d = first[g] \/ d = Target[g]
  <2>1. Sound(d)
    BY DEF d
  <2> QED
    BY <1>2, <2>1, SoundIsWhole
<1>4. ASSUME d = Target[g] PROVE FALSE
  <2>1. /\ c \in Copies /\ Target[g] \in Copies /\ c.is \in Fields /\ Target[g].is \in Fields
        /\ c.magic = Target[g].magic /\ c.is.csum = Target[g].is.csum
        /\ c.is.rest = Target[g].is.rest
    BY TargetIs, TargetFields DEF MixedCopy, Copies
  <2>2. /\ c.is.uuid = Target[g].is.uuid
    BY <1>2, <1>4 DEF MixedCopy
  <2>3. c.is.label = Target[g].is.label
    BY <1>2, <1>4 DEF MixedCopy
  <2>4. c.is.seeded = Target[g].is.seeded
    BY <1>2, <1>4 DEF MixedCopy
  <2>5. c.is.seed = Target[g].is.seed
    BY <1>2, <1>4 DEF MixedCopy
  <2>6. c.sum = Target[g].sum
    BY <1>2, <1>4 DEF MixedCopy
  <2>7. c.is = Target[g].is
    BY <2>1, <2>2, <2>3, <2>4, <2>5, SameFields
  <2>8. c = Target[g]
    BY <2>1, <2>6, <2>7, SameCopy
  <2> QED
    BY <2>8, TargetSound
<1> QED
  BY <1>3, <1>4 DEF d

\* SuperblockChecksumMismatch, "writing a correct checksum over a wrong superblock": no step
\* makes a damaged copy check out but the loss of what was never on the disk.
THEOREM NothingIsLaundered == Spec => NoLaundering
<1>1. ASSUME IInv, [Next]_vars, image[0].is.csum, NEW g \in Groups,
             ~Sound(image[g]), Sound(image[g]')
      PROVE  image[g]' = disk[g]
  <2>1. TypeOK /\ HasSums /\ MixedCopy(image[g], g) /\ g \in Places /\ MixedAt(disk[g], g)
    BY <1>1, Where, MixedPlaces DEF IInv, Mixed, MixedCopy, HasSums
  <2>2. phase # "writing"
    BY <1>1, <2>1 DEF IInv, Writing
  <2>3. image' # image
    BY <1>1 DEF Sound
  <2>4. PowerLoss
    <3>1. ~WriteNext /\ ~WriteFails
      BY <2>2 DEF WriteNext, WriteFails
    <3>2. (Refuse => image' = image) /\ (Plan => image' = image) /\ (Finish => image' = image)
      BY DEF Refuse, Plan, Finish
    <3>4. UNCHANGED vars => image' = image
      BY DEF vars
    <3>3. \A p \in Places : Writeback(p) => image' = image
      BY DEF Writeback
    <3> QED
      BY <1>1, <2>3, <3>1, <3>2, <3>3, <3>4 DEF Next, Step
  <2>5. PICK p \in Places, S \in SUBSET Pieces :
           disk' = [disk EXCEPT ![p] = Torn(@, image[p], S)] /\ image' = disk'
    BY <2>4 DEF PowerLoss
  <2>6. g \in DOMAIN disk
    BY <1>1, <2>1 DEF IInv, Mixed
  <2>7. CASE g # p
    BY <2>5, <2>6, <2>7
  <2>8. CASE g = p
    <3>1. image'[g] = Torn(disk[g], image[g], S) /\ Sound(image'[g])
      BY <1>1, <2>5, <2>6, <2>8
    <3>2. disk[g] # image[g]
      <4>1. image[g] \in Copies \cup LogCopies
        BY <2>1 DEF MixedCopy
      <4> QED
        BY <1>1, <3>1, <4>1, TornOverItself
    <3>3. ~Refusal(first)
      BY <1>1, <3>2 DEF IInv, Untouched
    <3>4. disk[g] = first[g]
      BY <1>1, <2>1, <3>2 DEF IInv, DiskBehind
    <3>5. image'[g] = first[g]
      BY <1>1, <2>1, <3>1, <3>3, <3>4, TornTwice
    <3> QED
      BY <3>4, <3>5
  <2> QED
    BY <2>7, <2>8
<1>2. IInv /\ [Next]_vars =>
        [image[0].is.csum =>
            \A g \in Groups : ~Sound(image[g]) /\ Sound(image[g]') => image[g]' = disk[g]]_vars
  BY <1>1
<1> QED
  BY <1>2, Invariance, PTL DEF Spec, NoLaundering
=============================================================================
