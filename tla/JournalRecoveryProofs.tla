------------------------ MODULE JournalRecoveryProofs -----------------------
(***************************************************************************)
(* What replay.rs and the reader promise of any log, and of the log any    *)
(* crash of a jbd2 writer leaves, proved for every ring, capacity, set of  *)
(* blocks, number of transactions and content. Last and longest: a crash   *)
(* loses nothing, from an invariant that tells the log as the string of all*)
(* the transactions the writer began.                                      *)
(***************************************************************************)
EXTENDS JournalRecovery, SequenceTheorems, FiniteSetTheorems, WellFoundedInduction, TLAPS

\* The ring is closed: any number of steps on from anywhere, `Layout::next` gives a log block.
LEMMA RingIsClosed ==
    ASSUME NEW p \in Int, NEW n \in Nat
    PROVE  After(p, n) \in Positions
<1> DEFINE x == p - First + n
<1>1. First \in Nat /\ MaxLen \in Nat /\ Span \in Nat /\ Span > 0 /\ x \in Int
  BY RingAssumption DEF Span, Positions
<1>2. x % Span \in 0..(Span - 1)
  <2> HIDE DEF x, Span
  <2> QED BY <1>1
<1>3. MaxLen = First + Span
  BY RingAssumption DEF Span
<1> HIDE DEF x, Span
<1>4. First + (x % Span) \in First..(MaxLen - 1)
  BY <1>1, <1>2, <1>3
<1> QED
  BY <1>4 DEF After, x, Positions

\* The tags a descriptor's copies are given: one to a name, each inside the ring.
LEMMA TagsOfNames ==
    ASSUME NEW names \in Seq(Named), NEW p \in Positions
    PROVE  [i \in 1..Len(names) |->
               [home |-> names[i].home, escaped |-> names[i].escaped, at |-> After(p, i)]]
             \in Seq(Tags)
<1>1. ASSUME NEW i \in 1..Len(names)
      PROVE  [home |-> names[i].home, escaped |-> names[i].escaped, at |-> After(p, i)] \in Tags
  <2>1. names[i] \in Named /\ i \in Nat
    OBVIOUS
  <2>2. After(p, i) \in Positions
    <3>1. p \in Int
      BY RingAssumption DEF Positions
    <3> QED BY <2>1, <3>1, RingIsClosed
  <2> QED
    BY <2>1, <2>2 DEF Named, Tags
<1> QED
  BY <1>1

\* Where the scan begins is well formed.
LEMMA ReaderBegins ==
    ASSUME ReaderInit
    PROVE  at \in Positions /\ visited = 0 /\ current \in Transactions /\ committed = << >>
<1>1. First \in Positions
  BY RingAssumption DEF Positions
<1>2. EmptyTransaction(0) \in Transactions
  BY SequenceAssumption DEF EmptyTransaction, Transactions, Sequences32
<1> QED
  BY <1>1, <1>2 DEF ReaderInit

\* No step of the reader leaves the ring or reads an ill-formed transaction out of a log.
LEMMA ReaderKeepsTypes ==
    ASSUME ReaderTypeOK, [OpenNext]_openVars
    PROVE  ReaderTypeOK'
<1>d. UNCHANGED <<log, start, startseq>>
  BY DEF OpenNext, Replay, ReadTable, Open, OpenFaults, ScanEnds, ScanDescriptor, ScanRevoke,
         ScanCommit, ScanFaults, Apply, ApplyFaults, Install, TakeSuperblock, InstallFaults,
         Fault, disk, openVars
<1>s. ASSUME UNCHANGED scanning PROVE ReaderTypeOK'
  BY <1>d, <1>s DEF ReaderTypeOK, scanning
<1>e. ASSUME NEW q \in Sequences32 PROVE EmptyTransaction(q) \in Transactions
  BY DEF EmptyTransaction, Transactions
<1>b. ASSUME Scanning PROVE Block \in LogBlocks
  BY DEF Block, ReaderTypeOK
<1>a. ASSUME NEW n \in Nat, Advance(n) PROVE at' \in Positions /\ visited' \in Nat
  BY <1>a, RingIsClosed DEF Advance, ReaderTypeOK
<1>1. CASE Open
  <2>1. at' \in Positions /\ current' \in Transactions
    BY <1>1, <1>e DEF Open, ReaderTypeOK
  <2> QED
    BY <1>1, <1>d, <2>1 DEF Open, ReaderTypeOK
<1>2. CASE \/ OpenFaults \/ ScanFaults \/ Apply \/ ApplyFaults \/ Install \/ TakeSuperblock
           \/ InstallFaults \/ ReadTable \/ UNCHANGED openVars
  BY <1>2, <1>s DEF OpenFaults, ScanFaults, Apply, ApplyFaults, Install, TakeSuperblock,
                    InstallFaults, ReadTable, Fault, openVars, reader, scanning
<1>3. CASE ScanEnds
  BY <1>3, <1>d DEF ScanEnds, ReaderTypeOK
<1>4. CASE ScanDescriptor
  <2>1. Block.names \in Seq(Named) /\ Len(Block.names) \in Nat
    BY <1>4, <1>b DEF ScanDescriptor, Pass, LogBlocks
  <2>2. at' \in Positions /\ visited' \in Nat
    BY <1>4, <1>a, <2>1 DEF ScanDescriptor
  <2> DEFINE new == [i \in 1..Len(Block.names) |->
                       [home |-> Block.names[i].home, escaped |-> Block.names[i].escaped,
                        at |-> After(at, i)]]
  <2>3. new \in Seq(Tags)
    BY <2>1, TagsOfNames DEF ReaderTypeOK
  <2>4. current' = [current EXCEPT !.tags = @ \o new]
    BY <1>4 DEF ScanDescriptor
  <2> HIDE DEF new
  <2>5. current' \in Transactions
    <3>1. current \in Transactions /\ current.tags \in Seq(Tags)
      BY DEF ReaderTypeOK, Transactions
    <3> DEFINE joined == current.tags \o new
    <3>2. joined \in Seq(Tags)
      BY <2>3, <3>1, ConcatProperties
    <3>3. current' = [current EXCEPT !.tags = joined]
      BY <2>4
    <3> HIDE DEF joined
    <3> QED
      BY <3>1, <3>2, <3>3 DEF Transactions
  <2> QED
    BY <1>4, <1>d, <2>2, <2>5 DEF ScanDescriptor, ReaderTypeOK
<1>5. CASE ScanRevoke
  <2>1. Block.revokes \subseteq Homes
    BY <1>5, <1>b DEF ScanRevoke, Pass, LogBlocks
  <2>2. at' \in Positions /\ visited' \in Nat
    BY <1>5, <1>a DEF ScanRevoke
  <2>3. current' \in Transactions
    BY <1>5, <2>1 DEF ScanRevoke, ReaderTypeOK, Transactions
  <2> QED
    BY <1>5, <1>d, <2>2, <2>3 DEF ScanRevoke, ReaderTypeOK
<1>6. CASE ScanCommit
  <2>1. at' \in Positions /\ visited' \in Nat
    BY <1>6, <1>a DEF ScanCommit
  <2>2. (current.seq + 1) % SeqMod \in Sequences32
    BY SequenceAssumption DEF ReaderTypeOK, Transactions, Sequences32
  <2>3. current' \in Transactions
    BY <1>6, <1>e, <2>2 DEF ScanCommit
  <2>4. committed' \in Seq(Transactions)
    BY <1>6 DEF ScanCommit, ReaderTypeOK
  <2> QED
    BY <1>6, <1>d, <2>1, <2>3, <2>4 DEF ScanCommit, ReaderTypeOK
<1> QED
  BY <1>1, <1>2, <1>3, <1>4, <1>5, <1>6 DEF OpenNext, Replay

-----------------------------------------------------------------------------

\* A pass of the scan is made only if the blocks it visits are within the budget.
LEMMA ScanKeepsToBudget ==
    ASSUME ReaderTypeOK, ScanBounded, [OpenNext]_openVars
    PROVE  ScanBounded'
<1>v. visited \in Nat
  BY DEF ReaderTypeOK
<1>s. ASSUME visited' = visited PROVE ScanBounded'
  BY <1>s DEF ScanBounded
<1>1. CASE ScanDescriptor
  <2>1. InBudget /\ Expected /\ Block.kind = "descriptor"
    BY <1>1 DEF ScanDescriptor, Pass
  <2>2. visited' = visited + (1 + Len(Block.names))
    BY <1>1 DEF ScanDescriptor, Advance
  <2>3. Visits = 1 + Len(Block.names)
    BY <2>1 DEF Visits
  <2> QED
    BY <2>1, <2>2, <2>3 DEF InBudget, ScanBounded
<1>2. CASE ScanEnds \/ ScanRevoke \/ ScanCommit
  <2>1. InBudget /\ visited' = visited + 1
    BY <1>2 DEF ScanEnds, ScanRevoke, ScanCommit, Pass, Advance
  <2>2. ~(Expected /\ Block.kind = "descriptor")
    BY <1>2 DEF ScanEnds, ScanRevoke, ScanCommit, Pass
  <2>3. Visits = 1
    BY <2>2 DEF Visits
  <2> QED
    BY <2>1, <2>3 DEF InBudget, ScanBounded
<1>3. CASE \/ Open \/ OpenFaults \/ ScanFaults \/ Apply \/ ApplyFaults \/ Install
           \/ TakeSuperblock \/ InstallFaults \/ ReadTable \/ UNCHANGED openVars
  BY <1>3, <1>s DEF Open, OpenFaults, ScanFaults, Apply, ApplyFaults, Install, TakeSuperblock,
                    InstallFaults, ReadTable, Fault, openVars, reader, scanning
<1> QED
  BY <1>1, <1>2, <1>3 DEF OpenNext, Replay

-----------------------------------------------------------------------------

\* A step of opening visits a block that was not visited, or comes to the next phase.
LEMMA StepsLeaveLess ==
    ASSUME ReaderTypeOK, ScanBounded, ScanBounded', [OpenNext]_openVars
    PROVE  [phase = "open" \/ (Remaining' \in Nat /\ Remaining' < Remaining)]_reader
<1>0. Span \in Nat
  BY RingAssumption DEF Span
<1>v. visited \in Nat
  BY DEF ReaderTypeOK
<1>b. visited <= Span
  BY DEF ScanBounded
<1>r. phase = "scanning" => Remaining = Span - visited + 4
  BY DEF Remaining
<1>r2. phase' = "scanning" => Remaining' = Span - visited' + 4
  BY DEF Remaining, Span
<1>f. phase' \in {"open", "refused"} => Remaining' = 0
  BY DEF Remaining
<1>1. CASE Open
  BY <1>0, <1>1, <1>v, <1>b DEF Open, Remaining, Span
<1>2. CASE OpenFaults
  BY <1>0, <1>2, <1>f DEF OpenFaults, Fault, Remaining
<1>3. CASE ScanEnds
  <2>1. phase = "scanning" /\ phase' = "applying"
    BY <1>3 DEF ScanEnds, Scanning
  <2>2. Remaining' = 3
    BY <2>1 DEF Remaining
  <2>. QED BY <1>0, <1>v, <1>b, <1>r, <2>1, <2>2
<1>4. CASE ScanDescriptor \/ ScanRevoke \/ ScanCommit
  <2>1. phase = "scanning" /\ phase' = "scanning"
    BY <1>4 DEF ScanDescriptor, ScanRevoke, ScanCommit, Pass, Scanning
  <2>2. \E n \in Nat : visited' = visited + 1 + n
    <3>1. CASE ScanDescriptor
      <4>1. Block \in LogBlocks
        BY DEF Block, ReaderTypeOK
      <4>2. Len(Block.names) \in Nat
        BY <4>1 DEF LogBlocks
      <4>3. visited' = visited + 1 + Len(Block.names)
        BY <3>1, <4>2, <1>v DEF ScanDescriptor, Advance
      <4>. QED BY <4>2, <4>3
    <3>2. CASE ScanRevoke \/ ScanCommit
      <4>1. visited' = visited + 1 + 0
        BY <3>2, <1>v DEF ScanRevoke, ScanCommit, Advance
      <4>. QED BY <4>1
    <3>. QED BY <1>4, <3>1, <3>2
  <2>3. visited' <= Span
    BY DEF ScanBounded, Span
  <2>. QED BY <1>0, <1>v, <1>b, <1>r, <1>r2, <2>1, <2>2, <2>3
<1>5. CASE ScanFaults
  BY <1>0, <1>5, <1>v, <1>b, <1>r, <1>f DEF ScanFaults, Scanning, Fault
<1>6. CASE Apply \/ ApplyFaults \/ Install \/ TakeSuperblock
  BY <1>6 DEF Apply, ApplyFaults, Install, TakeSuperblock, Fault, Remaining
<1>7. CASE InstallFaults
  BY <1>7, <1>f DEF InstallFaults, Fault, Remaining
<1>8. CASE ReadTable \/ UNCHANGED openVars
  BY <1>8 DEF ReadTable, openVars
<1>. QED
  BY <1>1, <1>2, <1>3, <1>4, <1>5, <1>6, <1>7, <1>8 DEF OpenNext, Replay


-----------------------------------------------------------------------------
\* The cache (cache.rs).

\* Every block is held once.
Once(slots) == \A i, j \in 1..Len(slots) : slots[i].key = slots[j].key => i = j

\* There are then as many blocks as slots.
LEMMA HeldOnceIsCounted ==
    ASSUME NEW S, NEW slots \in Seq(S), Once(slots)
    PROVE  Cardinality(Keys(slots)) = Len(slots)
<1> DEFINE n == Len(slots)
           f == [i \in 1..n |-> slots[i].key]
<1>1. n \in Nat
  OBVIOUS
<1>3. f \in Bijection(1..n, Keys(slots))
  <2>1. f \in [1..n -> Keys(slots)]
    BY DEF Keys
  <2>2. \A k \in Keys(slots) : \E i \in 1..n : f[i] = k
    BY DEF Keys
  <2>3. \A i, j \in 1..n : f[i] = f[j] => i = j
    BY DEF Once
  <2> HIDE DEF f, n
  <2> QED
    BY <2>1, <2>2, <2>3 DEF Bijection, Injection, Surjection, IsInjective
<1>4. ExistsBijection(1..n, Keys(slots))
  BY <1>3 DEF ExistsBijection
<1> HIDE DEF n
<1>5. Cardinality(Keys(slots)) = n
  BY <1>1, <1>4, FS_CountingElements
<1> QED
  BY <1>5 DEF n

\* Reading a held block moves its slot to the end.
LEMMA GetKeeps ==
    ASSUME NEW S, NEW slots \in Seq(S), NEW key \in Keys(slots), Once(slots)
    PROVE  /\ Get(slots, key) \in Seq(S)
           /\ Len(Get(slots, key)) = Len(slots)
           /\ Once(Get(slots, key))
<1> DEFINE n == Len(slots)
           k == Slot(slots, key)
           left == SubSeq(slots, 1, k - 1)
           right == SubSeq(slots, k + 1, n)
           both == left \o right
           all == both \o <<slots[k]>>
           Was(i) == IF i < k THEN i ELSE IF i < n THEN i + 1 ELSE k
<1>1. n \in Nat /\ k \in 1..n
  <2>1. \E i \in 1..Len(slots) : slots[i].key = key
    BY DEF Keys
  <2> QED
    BY <2>1 DEF Slot
<1>2. \A i \in 1..n : slots[i] \in S
  OBVIOUS
<1> HIDE DEF n, k
<1>3. /\ left \in Seq(S) /\ Len(left) = k - 1
      /\ \A i \in 1..(k - 1) : left[i] = slots[i]
  <2>1. \A i \in 1..(k - 1) : slots[i] \in S
    BY <1>1, <1>2
  <2>2. k - 1 \in Int /\ 1 \in Int
    BY <1>1
  <2>3. /\ left \in Seq(S) /\ Len(left) = IF 1 <= k - 1 THEN (k - 1) - 1 + 1 ELSE 0
        /\ \A i \in 1..((k - 1) - 1 + 1) : left[i] = slots[1 + i - 1]
    BY <2>1, <2>2, SubSeqProperties
  <2> HIDE DEF left
  <2> QED
    BY <1>1, <2>3
<1>4. /\ right \in Seq(S) /\ Len(right) = n - k
      /\ \A i \in 1..(n - k) : right[i] = slots[k + i]
  <2>1. \A i \in (k + 1)..n : slots[i] \in S
    BY <1>1, <1>2
  <2>2. k + 1 \in Int /\ n \in Int
    BY <1>1
  <2>3. /\ right \in Seq(S) /\ Len(right) = IF k + 1 <= n THEN n - (k + 1) + 1 ELSE 0
        /\ \A i \in 1..(n - (k + 1) + 1) : right[i] = slots[(k + 1) + i - 1]
    BY <2>1, <2>2, SubSeqProperties
  <2> HIDE DEF right
  <2> QED
    BY <1>1, <2>3
<1> HIDE DEF left, right
<1>5. /\ both \in Seq(S) /\ Len(both) = n - 1
      /\ \A i \in 1..(n - 1) : both[i] = IF i <= k - 1 THEN left[i] ELSE right[i - (k - 1)]
  <2>1. /\ both \in Seq(S) /\ Len(both) = Len(left) + Len(right)
        /\ \A i \in 1..(Len(left) + Len(right)) :
              both[i] = IF i <= Len(left) THEN left[i] ELSE right[i - Len(left)]
    BY <1>3, <1>4, ConcatProperties
  <2> HIDE DEF both
  <2>2. Len(left) + Len(right) = n - 1
    BY <1>1, <1>3, <1>4
  <2> QED
    BY <1>3, <2>1, <2>2
<1> HIDE DEF both
<1>6. /\ all \in Seq(S) /\ Len(all) = n
      /\ \A i \in 1..n : all[i] = IF i <= n - 1 THEN both[i] ELSE <<slots[k]>>[i - (n - 1)]
  <2>1. <<slots[k]>> \in Seq(S) /\ Len(<<slots[k]>>) = 1
    BY <1>1, <1>2
  <2>2. /\ all \in Seq(S) /\ Len(all) = (n - 1) + 1
        /\ \A i \in 1..((n - 1) + 1) : all[i] = IF i <= n - 1 THEN both[i] ELSE <<slots[k]>>[i - (n - 1)]
    BY <1>5, <2>1, ConcatProperties
  <2> HIDE DEF all
  <2> QED
    BY <1>1, <2>2
<1> HIDE DEF all
<1>7. \A i \in 1..n : Was(i) \in 1..n /\ all[i] = slots[Was(i)]
  <2> SUFFICES ASSUME NEW i \in 1..n PROVE Was(i) \in 1..n /\ all[i] = slots[Was(i)]
    OBVIOUS
  <2>1. CASE i < k
    <3>1. i <= n - 1 /\ i <= k - 1 /\ i \in 1..(n - 1) /\ i \in 1..(k - 1)
      BY <1>1, <2>1
    <3>2. all[i] = both[i] /\ both[i] = left[i] /\ left[i] = slots[i]
      BY <1>3, <1>5, <1>6, <3>1
    <3> QED
      BY <2>1, <3>2
  <2>2. CASE i >= k /\ i < n
    <3>0. i \in 1..(n - 1) /\ i <= n - 1 /\ ~(i <= k - 1)
      BY <1>1, <2>2
    <3>4. both[i] = right[i - (k - 1)]
      BY <1>5, <3>0
    <3>5. all[i] = both[i]
      BY <1>6, <3>0
    <3>1. all[i] = right[i - (k - 1)]
      BY <3>4, <3>5
    <3>2. i - (k - 1) \in 1..(n - k) /\ k + (i - (k - 1)) = i + 1
      BY <1>1, <2>2
    <3>3. right[i - (k - 1)] = slots[k + (i - (k - 1))]
      BY <1>4, <3>2
    <3> QED
      BY <1>1, <2>2, <3>1, <3>2, <3>3
  <2>3. CASE i = n
    <3>1. all[n] = <<slots[k]>>[1]
      BY <1>1, <1>6, <2>3
    <3>2. all[n] = slots[k]
      BY <3>1
    <3> QED
      BY <1>1, <2>3, <3>2
  <2> QED
    BY <1>1, <2>1, <2>2, <2>3
<1>8. \A i, j \in 1..n : Was(i) = Was(j) => i = j
  BY <1>1
<1>9. Get(slots, key) = all
  BY DEF Get, all, both, left, right, k, n
<1>10. Once(all)
  <2> SUFFICES ASSUME NEW i \in 1..n, NEW j \in 1..n, all[i].key = all[j].key PROVE i = j
    BY <1>6 DEF Once
  <2>1. slots[Was(i)].key = slots[Was(j)].key /\ Was(i) \in 1..n /\ Was(j) \in 1..n
    BY <1>7
  <2> HIDE DEF Was
  <2>2. Was(i) = Was(j)
    BY <2>1 DEF Once, n
  <2> QED
    BY <1>8, <2>2
<1> QED
  BY <1>6, <1>9, <1>10 DEF n

\* A block not held is put at the end, in the place of the one used longest ago if need be.
LEMMA InsertKeeps ==
    ASSUME NEW S, NEW slots \in Seq(S), NEW room \in Nat, NEW key, NEW value,
           [key |-> key, value |-> value] \in S, key \notin Keys(slots),
           Once(slots), Len(slots) <= room
    PROVE  /\ Insert(slots, room, key, value) \in Seq(S)
           /\ Len(Insert(slots, room, key, value)) <= room
           /\ Once(Insert(slots, room, key, value))
<1> DEFINE e == [key |-> key, value |-> value]
           kept == IF Len(slots) < room THEN slots ELSE Tail(slots)
           all == Append(kept, e)
<1>0. CASE room = 0
  BY <1>0 DEF Insert
<1>1. CASE room # 0
  <2>0. Len(slots) \in Nat
    OBVIOUS
  <2>1. /\ kept \in Seq(S) /\ Len(kept) < room
        /\ \E d \in {0, 1} : /\ Len(kept) = Len(slots) - d
                             /\ \A i \in 1..Len(kept) : kept[i] = slots[i + d]
    <3>1. CASE Len(slots) < room
      <4>1. kept = slots
        BY <3>1
      <4>2. \A i \in 1..Len(slots) : slots[i + 0] = slots[i]
        BY <2>0
      <4> HIDE DEF kept
      <4>3. Len(kept) = Len(slots) - 0 /\ \A i \in 1..Len(kept) : kept[i] = slots[i + 0]
        BY <2>0, <4>1, <4>2
      <4>4. kept \in Seq(S) /\ Len(kept) < room
        BY <3>1, <4>1
      <4> QED
        BY <4>3, <4>4
    <3>2. CASE ~(Len(slots) < room)
      <4>1. kept = Tail(slots)
        BY <3>2
      <4>2. slots # << >>
        BY <1>1, <3>2
      <4>3. /\ Tail(slots) \in Seq(S) /\ Len(Tail(slots)) = Len(slots) - 1
            /\ \A i \in 1..Len(Tail(slots)) : Tail(slots)[i] = slots[i + 1]
        BY <4>2, HeadTailProperties
      <4> HIDE DEF kept
      <4>5. Len(kept) = Len(slots) - 1 /\ \A i \in 1..Len(kept) : kept[i] = slots[i + 1]
        BY <4>1, <4>3
      <4>6. kept \in Seq(S) /\ Len(kept) < room
        BY <2>0, <4>1, <4>3, <4>5
      <4> QED
        BY <4>5, <4>6
    <3> QED
      BY <3>1, <3>2
  <2>2. PICK d \in {0, 1} : /\ Len(kept) = Len(slots) - d
                            /\ \A i \in 1..Len(kept) : kept[i] = slots[i + d]
    BY <2>1
  <2> HIDE DEF kept
  <2>3. /\ all \in Seq(S) /\ Len(all) = Len(kept) + 1
        /\ \A i \in 1..Len(kept) : all[i] = kept[i]
        /\ all[Len(kept) + 1] = e
    BY <2>1, AppendProperties
  <2> HIDE DEF all
  <2>4. Len(kept) \in Nat
    BY <2>1
  <2>5. \A i \in 1..Len(kept) : i + d \in 1..Len(slots) /\ all[i] = slots[i + d]
    BY <2>0, <2>2, <2>3, <2>4
  <2>6. \A i \in 1..Len(kept) : all[i].key # key
    BY <2>5 DEF Keys
  <2>7. all[Len(all)].key = key
    BY <2>3
  <2>8. \A i, j \in 1..Len(kept) : all[i].key = all[j].key => i = j
    <3> SUFFICES ASSUME NEW i \in 1..Len(kept), NEW j \in 1..Len(kept), all[i].key = all[j].key
                 PROVE  i = j
      OBVIOUS
    <3>1. slots[i + d].key = slots[j + d].key /\ i + d \in 1..Len(slots) /\ j + d \in 1..Len(slots)
      BY <2>5
    <3>2. i + d = j + d
      BY <3>1 DEF Once
    <3> QED
      BY <2>4, <3>2
  <2>9. Once(all)
    <3> SUFFICES ASSUME NEW i \in 1..Len(all), NEW j \in 1..Len(all), all[i].key = all[j].key
                 PROVE  i = j
      BY DEF Once
    <3>1. (i \in 1..Len(kept) \/ i = Len(all)) /\ (j \in 1..Len(kept) \/ j = Len(all))
      BY <2>3, <2>4
    <3> QED
      BY <2>6, <2>7, <2>8, <3>1
  <2>10. Insert(slots, room, key, value) = all
    BY <1>1 DEF Insert, all, kept
  <2>11. Len(all) <= room
    BY <2>1, <2>3, <2>4
  <2> QED
    BY <2>3, <2>9, <2>10, <2>11
<1> QED
  BY <1>0, <1>1

\* What `table_bytes` does to a cache that holds what is presented, each block once and no
\* more than there is room for, leaves it so.
LEMMA AccessKeeps ==
    ASSUME NEW S, NEW slots \in Seq(S), NEW room \in Nat, NEW key, NEW value,
           [key |-> key, value |-> value] \in S, Once(slots), Len(slots) <= room
    PROVE  /\ Access(slots, room, key, value) \in Seq(S)
           /\ Len(Access(slots, room, key, value)) <= room
           /\ Once(Access(slots, room, key, value))
<1>1. CASE key \in Keys(slots)
  BY <1>1, GetKeeps DEF Access
<1>2. CASE key \notin Keys(slots)
  BY <1>2, InsertKeeps DEF Access
<1> QED
  BY <1>1, <1>2

-----------------------------------------------------------------------------
\* What `apply` plans.

\* A set of naturals has a least one.
LEMMA LeastNat ==
    ASSUME NEW T \in SUBSET Nat, T # {}
    PROVE  \E x \in T : \A y \in T : x <= y
<1>1. PICK x \in T : \A y \in T : ~(<<y, x>> \in OpToRel(<, Nat))
  BY NatLessThanWellFounded, WFMin
<1>2. \A y \in T : ~(y < x)
  BY <1>1 DEF OpToRel
<1> QED
  BY <1>2

\* So has one with a bound a greatest.
LEMMA GreatestNat ==
    ASSUME NEW T \in SUBSET Nat, T # {}, NEW n \in Nat, \A x \in T : x <= n
    PROVE  \E x \in T : \A y \in T : y <= x
<1> DEFINE U == {n - x : x \in T}
<1>1. U \in SUBSET Nat /\ U # {}
  <2>1. \A x \in T : n - x \in Nat
    OBVIOUS
  <2> QED
    BY <2>1
<1>2. PICK u \in U : \A v \in U : u <= v
  BY <1>1, LeastNat
<1>3. PICK x \in T : u = n - x
  OBVIOUS
<1>4. \A y \in T : n - x <= n - y
  BY <1>2, <1>3
<1> QED
  BY <1>4

\* An entry is a tag of a committed transaction.
LEMMA EntryParts ==
    ASSUME ReaderTypeOK, NEW e \in Entries
    PROVE  /\ e[1] \in 1..Len(committed) /\ e[2] \in 1..Len(committed[e[1]].tags)
           /\ e[1] \in Nat /\ e[2] \in Nat /\ e = <<e[1], e[2]>>
           /\ Len(committed[e[1]].tags) \in Nat
           /\ TagOf(e) \in Tags
<1>1. PICK i \in 1..Len(committed) : e \in {<<i, j>> : j \in 1..Len(committed[i].tags)}
  BY DEF Entries
<1>2. PICK j \in 1..Len(committed[i].tags) : e = <<i, j>>
  BY <1>1
<1>3. committed[i] \in Transactions /\ committed[i].tags \in Seq(Tags)
  <2>1. committed \in Seq(Transactions)
    BY DEF ReaderTypeOK
  <2>2. committed[i] \in Transactions
    BY <2>1
  <2> QED
    BY <2>2 DEF Transactions
<1>4. committed[i].tags[j] \in Tags /\ Len(committed[i].tags) \in Nat
  BY <1>3
<1>5. i \in Nat /\ j \in Nat
  <2>1. Len(committed) \in Nat
    BY DEF ReaderTypeOK
  <2> QED
    BY <1>4, <2>1
<1>6. e[1] = i /\ e[2] = j
  BY <1>2
<1>7. TagOf(e) = committed[i].tags[j]
  BY <1>6 DEF TagOf
<1>8. e = <<e[1], e[2]>>
  BY <1>2, <1>6
<1>9. e[1] \in 1..Len(committed) /\ e[2] \in 1..Len(committed[e[1]].tags)
  BY <1>6
<1> QED
  BY <1>4, <1>5, <1>6, <1>7, <1>8, <1>9

\* And a tag of a committed transaction is an entry.
LEMMA TagsAreEntries ==
    ASSUME NEW i \in 1..Len(committed), NEW j \in 1..Len(committed[i].tags)
    PROVE  <<i, j>> \in Entries
BY DEF Entries

IsLast(E, h, e) ==
    /\ e \in E
    /\ TagOf(e).home = h
    /\ \A f \in E : TagOf(f).home = h /\ f # e => Later(e, f)

\* A block that is named has a last entry naming it,
LEMMA LastExists ==
    ASSUME ReaderTypeOK, NEW E \in SUBSET Entries, NEW h, \E e \in E : TagOf(e).home = h
    PROVE  \E e \in E : IsLast(E, h, e)
<1> DEFINE S == {e \in E : TagOf(e).home = h}
           T == {e[1] : e \in S}
<1>0. \A e \in S : e \in Entries
  OBVIOUS
<1>1. T \in SUBSET Nat /\ T # {} /\ \A x \in T : x <= Len(committed)
  BY <1>0, EntryParts
<1>2. Len(committed) \in Nat
  BY DEF ReaderTypeOK
<1>3. PICK i \in T : \A y \in T : y <= i
  <2> HIDE DEF T
  <2> QED BY <1>1, <1>2, GreatestNat
<1> DEFINE R == {e \in S : e[1] = i}
           U == {e[2] : e \in R}
<1>4. U \in SUBSET Nat /\ U # {} /\ \A x \in U : x <= Len(committed[i].tags)
  BY <1>0, EntryParts
<1>5. Len(committed[i].tags) \in Nat
  BY <1>0, EntryParts
<1>6. PICK j \in U : \A y \in U : y <= j
  <2> HIDE DEF U
  <2> QED BY <1>4, <1>5, GreatestNat
<1>7. PICK e \in S : e[1] = i /\ e[2] = j
  OBVIOUS
<1>8. \A f \in S : f # e => Later(e, f)
  <2> SUFFICES ASSUME NEW f \in S, f # e PROVE Later(e, f)
    OBVIOUS
  <2>1. f[1] <= e[1] /\ (f[1] = e[1] => f[2] <= e[2])
    BY <1>3, <1>6, <1>7
  <2>2. f = <<f[1], f[2]>> /\ e = <<e[1], e[2]>> /\ f[1] \in Nat /\ f[2] \in Nat
        /\ e[1] \in Nat /\ e[2] \in Nat
    BY <1>0, EntryParts
  <2>3. f[1] # e[1] \/ f[2] # e[2]
    BY <2>2
  <2> QED
    BY <2>1, <2>2, <2>3 DEF Later
<1> QED
  BY <1>8 DEF IsLast

\* and only one.
LEMMA LastIsOne ==
    ASSUME ReaderTypeOK, NEW E \in SUBSET Entries, NEW h, NEW e, NEW f, IsLast(E, h, e), IsLast(E, h, f)
    PROVE  e = f
<1>1. e \in Entries /\ f \in Entries
  BY DEF IsLast
<1>2. e[1] \in Nat /\ e[2] \in Nat /\ f[1] \in Nat /\ f[2] \in Nat
  BY <1>1, EntryParts
<1>3. ~(Later(e, f) /\ Later(f, e))
  BY <1>2 DEF Later
<1> QED
  BY <1>3 DEF IsLast

\* Entries whose copy is damaged.
Damaged == {e \in Entries : ~Holds(log[TagOf(e).at])}

\* What stands once the first i transactions are replayed.
Stands(i) == {e \in Entries : /\ e[1] <= i
                              /\ TagOf(e).home \in Homes
                              /\ Holds(log[TagOf(e).at])
                              /\ ~ \E q \in e[1]..i : RevokedBy(q, TagOf(e).home)}
LastOf(E, h) == CHOOSE e \in E : IsLast(E, h, e)
Laid(E) == [h \in {TagOf(e).home : e \in E} |->
               [at |-> TagOf(LastOf(E, h)).at, escaped |-> TagOf(LastOf(E, h)).escaped]]

\* Nothing stands before the first.
LEMMA NothingStandsYet ==
    ASSUME ReaderTypeOK
    PROVE  Laid(Stands(0)) = Nothing
<1>1. \A e \in Entries : ~(e[1] <= 0)
  BY EntryParts
<1>2. Stands(0) = {}
  BY <1>1 DEF Stands
<1>3. {TagOf(e).home : e \in Stands(0)} = {}
  BY <1>2
<1> QED
  BY <1>3 DEF Laid, Nothing

\* The last of the entries that stand, after one more transaction: its own last one that
\* names the block, or the last of those that stood.
LEMMA OneMoreStands ==
    ASSUME ReaderTypeOK, NEW i \in 1..Len(committed), NEW h \in Homes, h \notin committed[i].revokes
    PROVE  LET mine == {j \in 1..Len(committed[i].tags) :
                          committed[i].tags[j].home = h /\ <<i, j>> \notin Damaged}
           IN  /\ mine # {} => \A j \in mine : (\A k \in mine : k <= j) =>
                                                 IsLast(Stands(i), h, <<i, j>>)
               /\ mine = {} => \A e : IsLast(Stands(i), h, e) <=> IsLast(Stands(i - 1), h, e)
<1> DEFINE mine == {j \in 1..Len(committed[i].tags) :
                      committed[i].tags[j].home = h /\ <<i, j>> \notin Damaged}
<1>0. i \in Nat /\ Len(committed) \in Nat /\ Len(committed[i].tags) \in Nat
  BY DEF ReaderTypeOK, Transactions
<1>1. \A j \in 1..Len(committed[i].tags) :
          <<i, j>> \in Entries /\ TagOf(<<i, j>>) = committed[i].tags[j]
  BY TagsAreEntries DEF TagOf
<1>2. \A j \in mine : <<i, j>> \in Stands(i)
  <2> SUFFICES ASSUME NEW j \in mine PROVE <<i, j>> \in Stands(i)
    OBVIOUS
  <2>1. <<i, j>> \in Entries /\ TagOf(<<i, j>>).home = h /\ Holds(log[TagOf(<<i, j>>).at])
    BY <1>1 DEF Damaged
  <2>2. ~ \E q \in i..i : RevokedBy(q, h)
    BY <1>0 DEF RevokedBy
  <2>3. <<i, j>>[1] <= i /\ <<i, j>>[1] = i
    BY <1>0
  <2> QED
    BY <2>1, <2>2, <2>3 DEF Stands
<1>3. \A e \in Entries : TagOf(e).home = h /\ e[1] = i =>
          /\ e = <<i, e[2]>>
          /\ e \in Stands(i) => e[2] \in mine
  <2> SUFFICES ASSUME NEW e \in Entries, TagOf(e).home = h, e[1] = i
               PROVE  e = <<i, e[2]>> /\ (e \in Stands(i) => e[2] \in mine)
    OBVIOUS
  <2>1. e = <<i, e[2]>> /\ e[2] \in 1..Len(committed[i].tags)
    BY EntryParts
  <2>2. e \in Stands(i) => e \notin Damaged
    BY DEF Stands, Damaged
  <2>3. committed[i].tags[e[2]].home = h
    BY <2>1 DEF TagOf
  <2> QED
    BY <2>1, <2>2, <2>3
<1>4. \A e \in Entries : TagOf(e).home = h /\ e[1] # i =>
          (e \in Stands(i) <=> e \in Stands(i - 1))
  <2> SUFFICES ASSUME NEW e \in Entries, TagOf(e).home = h, e[1] # i
               PROVE  e \in Stands(i) <=> e \in Stands(i - 1)
    OBVIOUS
  <2>1. e[1] \in Nat
    BY EntryParts
  <2>2. e[1] <= i <=> e[1] <= i - 1
    BY <1>0, <2>1
  <2>3. ASSUME NEW q \in e[1]..i PROVE q \in e[1]..(i - 1) \/ ~RevokedBy(q, h)
    <3>1. q = i \/ q \in e[1]..(i - 1)
      BY <1>0, <2>1
    <3> QED
      BY <3>1 DEF RevokedBy
  <2>4. ASSUME NEW q \in e[1]..(i - 1) PROVE q \in e[1]..i
    BY <1>0, <2>1
  <2> QED
    BY <2>2, <2>3, <2>4 DEF Stands
<1>5. \A e \in Stands(i - 1) : e \in Entries /\ e[1] < i
  <2> SUFFICES ASSUME NEW e \in Stands(i - 1) PROVE e \in Entries /\ e[1] < i
    OBVIOUS
  <2>1. e \in Entries /\ e[1] <= i - 1
    BY DEF Stands
  <2>2. e[1] \in Nat
    BY <2>1, EntryParts
  <2> QED
    BY <1>0, <2>1, <2>2
<1>6. ASSUME NEW j \in mine, \A k \in mine : k <= j
      PROVE  IsLast(Stands(i), h, <<i, j>>)
  <2>1. <<i, j>> \in Stands(i) /\ TagOf(<<i, j>>).home = h
    BY <1>1, <1>2
  <2>2. ASSUME NEW f \in Stands(i), TagOf(f).home = h, f # <<i, j>>
        PROVE  Later(<<i, j>>, f)
    <3>1. f \in Entries /\ f[1] <= i
      BY DEF Stands
    <3>2. f[1] \in Nat /\ f[2] \in Nat /\ j \in Nat
      BY <1>0, <3>1, EntryParts
    <3>3. f[1] = i => f[2] \in mine /\ f[2] # j
      BY <1>3, <2>2, <3>1
    <3>4. f[1] = i => f[2] < j
      BY <1>6, <3>2, <3>3
    <3>5. f[1] < i \/ (i = f[1] /\ f[2] < j)
      BY <1>0, <3>1, <3>2, <3>4
    <3> QED
      BY <3>5 DEF Later
  <2> QED
    BY <2>1, <2>2 DEF IsLast
<1>7. ASSUME mine = {}, NEW e PROVE IsLast(Stands(i), h, e) <=> IsLast(Stands(i - 1), h, e)
  <2>1. \A f : TagOf(f).home = h => (f \in Stands(i) <=> f \in Stands(i - 1))
    <3> SUFFICES ASSUME NEW f, TagOf(f).home = h PROVE f \in Stands(i) <=> f \in Stands(i - 1)
      OBVIOUS
    <3>1. CASE f \in Entries /\ f[1] = i
      <4>1. f \notin Stands(i)
        BY <1>3, <1>7, <3>1
      <4>2. f \notin Stands(i - 1)
        BY <1>0, <1>5, <3>1
      <4> QED BY <4>1, <4>2
    <3>2. CASE f \in Entries /\ f[1] # i
      BY <1>4, <3>2
    <3>3. CASE f \notin Entries
      BY <3>3 DEF Stands
    <3> QED
      BY <3>1, <3>2, <3>3
  <2> QED
    BY <2>1 DEF IsLast
<1> QED
  BY <1>6, <1>7

LEMMA LastOfIs ==
    ASSUME ReaderTypeOK, NEW E \in SUBSET Entries, NEW h, NEW e, IsLast(E, h, e)
    PROVE  LastOf(E, h) = e
<1>1. e \in E
  BY DEF IsLast
<1>2. LastOf(E, h) \in E /\ IsLast(E, h, LastOf(E, h))
  BY <1>1 DEF LastOf
<1> QED
  BY <1>2, LastIsOne

\* Replaying one more transaction onto what stands gives what then stands.
LEMMA WrittenIsLaid ==
    ASSUME ReaderTypeOK, NEW i \in 1..Len(committed)
    PROVE  Written(Laid(Stands(i - 1)), i, Damaged) = Laid(Stands(i))
<1> DEFINE tags == committed[i].tags
           mine(h) == {j \in 1..Len(tags) : tags[j].home = h /\ <<i, j>> \notin Damaged}
           last(h) == CHOOSE j \in mine(h) : \A k \in mine(h) : k <= j
           homes == {h \in Homes : mine(h) # {}}
           named(k) == {TagOf(e).home : e \in Stands(k)}
           before == Laid(Stands(i - 1))
           dom == ((DOMAIN before) \cup homes) \ committed[i].revokes
<1>0. i \in Nat /\ Len(committed) \in Nat /\ Len(tags) \in Nat
  BY DEF ReaderTypeOK, Transactions
<1>1. \A k : Stands(k) \in SUBSET Entries /\ named(k) \subseteq Homes
  BY DEF Stands
<1>2. ASSUME NEW h, mine(h) # {} PROVE last(h) \in mine(h) /\ \A k \in mine(h) : k <= last(h)
  <2>1. mine(h) \in SUBSET Nat /\ \A k \in mine(h) : k <= Len(tags)
    BY <1>0
  <2>2. \E j \in mine(h) : \A k \in mine(h) : k <= j
    <3> HIDE DEF mine, tags
    <3> QED
      BY <1>0, <1>2, <2>1, GreatestNat
  <2> HIDE DEF mine
  <2> QED
    BY <2>2
<1>3. ASSUME NEW h \in Homes, h \notin committed[i].revokes, mine(h) # {}
      PROVE  IsLast(Stands(i), h, <<i, last(h)>>)
  BY <1>2, <1>3, OneMoreStands
<1>4. ASSUME NEW h \in Homes, h \notin committed[i].revokes, mine(h) = {}, NEW e
      PROVE  IsLast(Stands(i), h, e) <=> IsLast(Stands(i - 1), h, e)
  BY <1>4, OneMoreStands
<1>5. ASSUME NEW k, NEW h \in named(k) PROVE \E e : IsLast(Stands(k), h, e)
  BY <1>1, LastExists
<1>6. ASSUME NEW k, NEW h, NEW e, IsLast(Stands(k), h, e) PROVE h \in named(k)
  BY <1>6 DEF IsLast
<1>7. ASSUME NEW h \in named(i) PROVE h \notin committed[i].revokes
  <2>1. PICK e \in Stands(i) : TagOf(e).home = h
    OBVIOUS
  <2>2. e[1] \in Nat /\ e[1] <= i
    BY EntryParts DEF Stands
  <2>3. i \in e[1]..i
    BY <1>0, <2>2
  <2> QED
    BY <2>1, <2>3 DEF Stands, RevokedBy
<1>8. DOMAIN before = named(i - 1) /\ DOMAIN Laid(Stands(i)) = named(i)
  BY DEF Laid
<1> HIDE DEF named, mine, last, tags, before
<1>9. dom = named(i)
  <2>1. ASSUME NEW h \in named(i) PROVE h \in dom
    <3>1. h \in Homes /\ h \notin committed[i].revokes
      BY <1>1, <1>7
    <3>2. mine(h) = {} => h \in named(i - 1)
      BY <1>4, <1>5, <1>6, <3>1
    <3> QED
      BY <1>8, <3>1, <3>2
  <2>2. ASSUME NEW h \in dom PROVE h \in named(i)
    <3>1. h \in Homes /\ h \notin committed[i].revokes
      BY <1>1, <1>8
    <3>2. CASE mine(h) # {}
      BY <1>3, <1>6, <3>1, <3>2
    <3>3. CASE mine(h) = {}
      <4>1. h \in named(i - 1)
        BY <1>8, <3>3
      <4> QED
        BY <1>4, <1>5, <1>6, <3>1, <3>3, <4>1
    <3> QED
      BY <3>2, <3>3
  <2> QED
    BY <2>1, <2>2
<1>10. ASSUME NEW h \in named(i)
       PROVE  Laid(Stands(i))[h] =
                IF h \in homes THEN [at |-> tags[last(h)].at, escaped |-> tags[last(h)].escaped]
                ELSE before[h]
  <2>0. h \in Homes /\ h \notin committed[i].revokes
    BY <1>1, <1>7
  <2>1. ASSUME NEW k, h \in named(k)
        PROVE  Laid(Stands(k))[h] = [at |-> TagOf(LastOf(Stands(k), h)).at,
                                     escaped |-> TagOf(LastOf(Stands(k), h)).escaped]
    BY <2>1 DEF Laid, named
  <2>2. CASE mine(h) # {}
    <3>1. LastOf(Stands(i), h) = <<i, last(h)>>
      BY <1>1, <1>3, <2>0, <2>2, LastOfIs
    <3>2. TagOf(<<i, last(h)>>) = tags[last(h)]
      BY DEF TagOf, tags
    <3> QED
      BY <2>0, <2>1, <2>2, <3>1, <3>2
  <2>3. CASE mine(h) = {}
    <3>1. PICK e : IsLast(Stands(i), h, e)
      BY <1>5
    <3>2. IsLast(Stands(i - 1), h, e)
      BY <1>4, <2>0, <2>3, <3>1
    <3>3. LastOf(Stands(i), h) = e /\ LastOf(Stands(i - 1), h) = e
      BY <1>1, <3>1, <3>2, LastOfIs
    <3>4. h \in named(i - 1)
      BY <1>6, <3>2
    <3> QED
      BY <2>0, <2>1, <2>3, <3>3, <3>4 DEF before
  <2> QED
    BY <2>2, <2>3
<1>11. Written(before, i, Damaged) =
         [h \in dom |-> IF h \in homes
                        THEN [at |-> tags[last(h)].at, escaped |-> tags[last(h)].escaped]
                        ELSE before[h]]
  BY DEF Written, tags, mine, last
<1>12. Laid(Stands(i)) = [h \in named(i) |-> Laid(Stands(i))[h]]
  BY DEF Laid, named
<1> QED
  <2>1. [h \in named(i) |-> Laid(Stands(i))[h]] =
          [h \in dom |-> IF h \in homes
                         THEN [at |-> tags[last(h)].at, escaped |-> tags[last(h)].escaped]
                         ELSE before[h]]
    <3> HIDE DEF dom, homes
    <3> QED
      BY <1>9, <1>10
  <2> QED
    BY <1>11, <1>12, <2>1 DEF before

\* Replaying the transactions one by one leaves what stands after the last.
LEMMA InOrderIsLaid ==
    ASSUME ReaderTypeOK
    PROVE  InOrder(Damaged) = Laid(Stands(Len(committed)))
<1> DEFINE n == Len(committed)
           Is(m) == m = [i \in 0..n |-> IF i = 0 THEN Nothing ELSE Written(m[i - 1], i, Damaged)]
           m0 == CHOOSE m : Is(m)
           g == [i \in 0..n |-> Laid(Stands(i))]
<1>0. n \in Nat
  BY DEF ReaderTypeOK
<1>1. InOrder(Damaged) = m0[n]
  BY DEF InOrder
<1> HIDE DEF n
<1>2. Is(g)
  <2>1. ASSUME NEW i \in 0..n
        PROVE  g[i] = IF i = 0 THEN Nothing ELSE Written(g[i - 1], i, Damaged)
    <3>1. CASE i = 0
      BY <3>1, <1>0, NothingStandsYet
    <3>2. CASE i # 0
      <4>1. i \in 1..Len(committed) /\ i - 1 \in 0..n
        BY <1>0, <3>2 DEF n
      <4> QED
        BY <3>2, <4>1, WrittenIsLaid
    <3> QED
      BY <3>1, <3>2
  <2>2. g = [i \in 0..n |-> g[i]]
    OBVIOUS
  <2> HIDE DEF g
  <2> QED
    BY <2>1, <2>2
<1>3. Is(m0)
  <2> HIDE DEF Is, g
  <2> QED BY <1>2
<1> HIDE DEF m0
<1>4. ASSUME NEW i \in 0..n PROVE m0[i] = g[i]
  <2> DEFINE T == {k \in 0..n : m0[k] # g[k]}
  <2> SUFFICES ASSUME T # {} PROVE FALSE
    OBVIOUS
  <2>1. T \in SUBSET Nat
    BY <1>0
  <2>2. PICK k \in T : \A l \in T : k <= l
    <3> HIDE DEF T
    <3> QED BY <2>1, LeastNat
  <2>3. CASE k = 0
    BY <1>2, <1>3, <2>3
  <2>4. CASE k # 0
    <3>1. k - 1 \in 0..n /\ k - 1 \notin T
      BY <1>0, <2>2, <2>4
    <3>2. m0[k - 1] = g[k - 1]
      BY <3>1
    <3>3. m0[k] = Written(m0[k - 1], k, Damaged) /\ g[k] = Written(g[k - 1], k, Damaged)
      <4> HIDE DEF g
      <4> QED BY <1>2, <1>3, <2>4
    <3> QED
      BY <3>2, <3>3
  <2> QED
    BY <2>3, <2>4
<1> QED
  <2>1. g[n] = Laid(Stands(n)) /\ n \in 0..n
    BY <1>0
  <2> HIDE DEF g
  <2> QED
    BY <1>1, <1>4, <2>1 DEF n

\* What `apply` plans is what replaying the transactions one by one would leave, and every
\* copy of it holds.
LEMMA PlanIsInOrder ==
    ASSUME ReaderTypeOK, Apply
    PROVE  /\ plan'.copies = InOrder(Damaged)
           /\ \A h \in DOMAIN plan'.copies : /\ plan'.copies[h].at \in Positions
                                             /\ Holds(log[plan'.copies[h].at])
<1> DEFINE n == Len(committed)
           E == Applicable \ Skipped
<1>0. n \in Nat
  BY DEF ReaderTypeOK
<1>1. E = Stands(n)
  <2>1. ASSUME NEW e \in Entries PROVE e[1] <= n
    BY <1>0, EntryParts
  <2>2. \A e \in Applicable : TagOf(e).home \in Homes
    BY DEF Apply
  <2> QED
    BY <2>1, <2>2 DEF Applicable, Skipped, Stands
<1>2. \A h : Winner(h) = LastOf(E, h)
  BY DEF Winner, LastOf, IsLast
<1>3. plan'.copies = Laid(E)
  BY <1>2 DEF Apply, Laid
<1>4. ASSUME NEW h \in DOMAIN Laid(E)
      PROVE  Laid(E)[h].at \in Positions /\ Holds(log[Laid(E)[h].at])
  <2>0. E \in SUBSET Entries
    BY <1>1 DEF Stands
  <2>1. h \in {TagOf(e).home : e \in E}
    BY DEF Laid
  <2>2. PICK e \in E : IsLast(E, h, e)
    BY <2>0, <2>1, LastExists
  <2>3. LastOf(E, h) = e
    BY <2>0, <2>2, LastOfIs
  <2>4. Laid(E)[h].at = TagOf(e).at
    BY <2>1, <2>3 DEF Laid
  <2>5. TagOf(e) \in Tags /\ Holds(log[TagOf(e).at])
    BY <2>0, <1>1, EntryParts DEF Stands
  <2> QED
    BY <2>4, <2>5 DEF Tags
<1> HIDE DEF E
<1> QED
  BY <1>1, <1>3, <1>4, InOrderIsLaid

-----------------------------------------------------------------------------
\* What is kept as the reader opens and reads.

\* Before opening, nothing of the log is known.
Unopened ==
    phase = "closed" => /\ visited = 0 /\ committed = << >>
                        /\ plan = NoPlan /\ cache = Empty
                        /\ sb = home[Super] \/ (layoutOK /\ (start = 0 \/ start \in Positions))

\* The overlay is nothing, or the whole of the plan.
Laying ==
    /\ outcome \in {"none", "replayed", "not_replayed"}
    /\ outcome = "none" <=> phase \in {"closed", "scanning", "applying", "installing", "rereading"}
    /\ outcome = "replayed" => phase = "open"
    /\ overlay = IF phase = "rereading" \/ outcome = "replayed" THEN plan.copies ELSE Nothing
    /\ (phase = "rereading" \/ outcome = "replayed") /\ strict => plan.skipped = {}

\* The plan is made of copies that verify, and is what the transactions leave.
Planned ==
    /\ \A h \in DOMAIN plan.copies :
          plan.copies[h].at \in Positions /\ Holds(log[plan.copies[h].at])
    /\ phase \in {"installing", "rereading"} \/ outcome = "replayed" =>
          plan.copies = InOrder(Damaged)

\* The superblock in use is the one at home until the overlay's is taken.
SuperblockInUse ==
    /\ phase \notin {"closed", "refused", "open"} \/ outcome = "not_replayed" => sb = home[Super]
    /\ outcome = "replayed" => sb = View(Super)

\* The cache is empty until the reader is open, and then holds what is presented.
Presented == {[key |-> b, value |-> View(b)] : b \in Homes}
Cached ==
    /\ phase \in {"rereading", "refused"} => cache = Empty
    /\ phase = "open" => cache \in Seq(Presented) /\ Len(cache) <= Capacity /\ Once(cache)

Kept == Unopened /\ Laying /\ Planned /\ SuperblockInUse /\ Cached

\* What the plan would be is decided by the log and the transactions.
LEMMA PlanIsFixed ==
    ASSUME UNCHANGED <<log, committed>>
    PROVE  InOrder(Damaged)' = InOrder(Damaged)
BY DEF InOrder, Written, Damaged, Entries, TagOf, Holds

\* With no transaction there is nothing to plan.
LEMMA NoTransactions ==
    ASSUME ReaderTypeOK, committed = << >>
    PROVE  InOrder(Damaged) = Nothing
BY InOrderIsLaid, NothingStandsYet

\* A fault gives up the overlay and the cache, and leaves the superblock.
LEMMA FaultKeeps ==
    ASSUME Kept, Fault, sb = home[Super]
    PROVE  Kept'
<1>1. Unopened'
  BY DEF Fault, Unopened
<1>2. Laying'
  BY DEF Fault, Laying
<1>3. Planned'
  <2>1. UNCHANGED <<log, plan>>
    BY DEF Fault, disk
  <2>2. phase' \notin {"installing", "rereading"} /\ outcome' # "replayed"
    BY DEF Fault
  <2> QED
    BY <2>1, <2>2 DEF Kept, Planned, Holds
<1>4. SuperblockInUse'
  <2>1. sb' = home'[Super] /\ outcome' # "replayed"
    BY DEF Fault, disk
  <2> QED
    BY <2>1 DEF SuperblockInUse
<1>5. Cached'
  <2>1. cache' = << >>
    BY DEF Fault, Empty
  <2>2. cache' \in Seq(Presented') /\ Len(cache') <= Capacity /\ Once(cache')
    BY <2>1, CapacityAssumption DEF Once
  <2> QED
    BY <2>1, <2>2 DEF Cached, Empty, Once
<1> QED
  BY <1>1, <1>2, <1>3, <1>4, <1>5 DEF Kept

\* A pass of the scan touches nothing the reader presents.
LEMMA ScanKeeps ==
    ASSUME Kept, phase = "scanning", phase' \in {"scanning", "applying"},
           UNCHANGED <<disk, strict, plan, overlay, outcome, sb, cache>>
    PROVE  Kept'
<1>1. Unopened' /\ Laying' /\ Cached'
  BY DEF Kept, Unopened, Laying, Cached
<1>2. Planned'
  <2>1. outcome' # "replayed"
    BY DEF Kept, Laying
  <2> QED
    BY <2>1 DEF Kept, Planned, Holds, disk
<1>3. SuperblockInUse'
  BY DEF Kept, SuperblockInUse, Laying, disk
<1> QED
  BY <1>1, <1>2, <1>3 DEF Kept

\* What is presented is decided by the disk and the overlay.
LEMMA ViewIsFixed ==
    ASSUME UNCHANGED <<log, home, overlay>>
    PROVE  (\A b : View(b)' = View(b)) /\ Presented' = Presented
BY DEF View, Through, Presented

\* Every step of the reader keeps all of it.
LEMMA ReaderKeeps ==
    ASSUME ReaderTypeOK, Kept, [OpenNext]_openVars
    PROVE  Kept'
<1>d. UNCHANGED disk
  BY DEF OpenNext, Replay, ReadTable, Open, OpenFaults, ScanEnds, ScanDescriptor, ScanRevoke,
         ScanCommit, ScanFaults, Apply, ApplyFaults, Install, TakeSuperblock, InstallFaults,
         Fault, openVars
<1>l. UNCHANGED <<log, home>>
  BY <1>d DEF disk
<1>1. CASE Open
  <2>1. phase = "closed" /\ phase' \in {"scanning", "installing"} /\ sb' = home[Super]
        /\ UNCHANGED <<strict, visited, committed, plan, overlay, outcome>>
    BY <1>1 DEF Open
  <2>2. plan = NoPlan /\ committed = << >>
    BY <2>1 DEF Kept, Unopened
  <2>3. Unopened' /\ Laying' /\ Cached'
    BY <2>1 DEF Kept, Unopened, Laying, Cached
  <2>4. Planned'
    <3>1. plan'.copies = Nothing /\ DOMAIN plan'.copies = {}
      BY <2>1, <2>2 DEF NoPlan, Nothing
    <3>2. InOrder(Damaged)' = Nothing
      BY <1>l, <2>1, <2>2, NoTransactions, PlanIsFixed
    <3> QED
      BY <3>1, <3>2 DEF Planned
  <2>5. SuperblockInUse'
    BY <1>l, <2>1 DEF Kept, SuperblockInUse, Laying
  <2> QED
    BY <2>3, <2>4, <2>5 DEF Kept
<1>2. CASE OpenFaults
  BY <1>2, FaultKeeps DEF OpenFaults, Kept, Unopened
<1>3. CASE ScanEnds \/ ScanDescriptor \/ ScanRevoke \/ ScanCommit
  <2>1. phase = "scanning" /\ phase' \in {"scanning", "applying"}
        /\ UNCHANGED <<disk, strict, plan, overlay, outcome, sb, cache>>
    BY <1>3 DEF ScanEnds, ScanDescriptor, ScanRevoke, ScanCommit, Pass, Scanning
  <2> QED
    BY <2>1, ScanKeeps
<1>4. CASE ScanFaults \/ ApplyFaults \/ InstallFaults
  <2>1. Fault /\ phase \in {"scanning", "applying", "installing", "rereading"}
    BY <1>4 DEF ScanFaults, ApplyFaults, InstallFaults, Scanning
  <2>2. sb = home[Super]
    BY <2>1 DEF Kept, SuperblockInUse
  <2> QED
    BY <2>1, <2>2, FaultKeeps
<1>5. CASE Apply
  <2>1. phase = "applying" /\ phase' = "installing"
        /\ UNCHANGED <<strict, scanning, overlay, outcome, sb, cache>>
    BY <1>5 DEF Apply
  <2>2. Unopened' /\ Cached'
    BY <2>1 DEF Unopened, Cached
  <2>3. Laying'
    BY <2>1 DEF Kept, Laying
  <2>4. Planned'
    <3>1. InOrder(Damaged)' = InOrder(Damaged)
      BY <1>l, <2>1, PlanIsFixed DEF scanning
    <3>2. \A h \in DOMAIN plan'.copies :
             plan'.copies[h].at \in Positions /\ Holds(log'[plan'.copies[h].at])
      BY <1>5, <1>l, PlanIsInOrder
    <3>3. plan'.copies = InOrder(Damaged)
      BY <1>5, PlanIsInOrder
    <3> QED
      BY <3>1, <3>2, <3>3 DEF Planned, Holds
  <2>5. SuperblockInUse'
    BY <1>l, <2>1 DEF Kept, SuperblockInUse, Laying
  <2> QED
    BY <2>2, <2>3, <2>4, <2>5 DEF Kept
<1>6. CASE Install
  <2>1. phase = "installing" /\ phase' = "rereading" /\ cache' = Empty /\ overlay' = plan.copies
        /\ ~(strict /\ plan.skipped # {})
        /\ UNCHANGED <<strict, scanning, plan, outcome, sb>>
    BY <1>6 DEF Install
  <2>2. Unopened' /\ Cached'
    BY <2>1 DEF Unopened, Cached
  <2>3. Laying'
    BY <2>1 DEF Kept, Laying
  <2>4. Planned'
    <3>1. InOrder(Damaged)' = InOrder(Damaged)
      BY <1>l, <2>1, PlanIsFixed DEF scanning
    <3> QED
      BY <1>l, <2>1, <3>1 DEF Kept, Planned, Holds
  <2>5. SuperblockInUse'
    BY <1>l, <2>1 DEF Kept, SuperblockInUse, Laying
  <2> QED
    BY <2>2, <2>3, <2>4, <2>5 DEF Kept
<1>7. CASE TakeSuperblock
  <2>1. phase = "rereading" /\ phase' = "open" /\ outcome' = "replayed" /\ sb' = View(Super)
        /\ UNCHANGED <<strict, scanning, plan, overlay, cache>>
    BY <1>7 DEF TakeSuperblock
  <2>2. Unopened'
    BY <2>1 DEF Unopened
  <2>3. Laying'
    BY <2>1 DEF Kept, Laying
  <2>4. Planned'
    <3>1. InOrder(Damaged)' = InOrder(Damaged)
      BY <1>l, <2>1, PlanIsFixed DEF scanning
    <3> QED
      BY <1>l, <2>1, <3>1 DEF Kept, Planned, Holds
  <2>5. SuperblockInUse'
    BY <1>l, <2>1, ViewIsFixed DEF SuperblockInUse
  <2>6. Cached'
    <3>1. cache' = << >>
      BY <2>1 DEF Kept, Cached, Empty
    <3>2. cache' \in Seq(Presented') /\ Len(cache') <= Capacity /\ Once(cache')
      BY <3>1, CapacityAssumption DEF Once
    <3> QED
      BY <2>1, <3>2 DEF Cached, Once
  <2> QED
    BY <2>2, <2>3, <2>4, <2>5, <2>6 DEF Kept
<1>8. CASE ReadTable
  <2>1. phase = "open" /\ UNCHANGED <<strict, phase, scanning, plan, overlay, outcome, sb>>
    BY <1>8 DEF ReadTable
  <2>2. PICK b \in Homes : cache' = Access(cache, Capacity, b, View(b))
    BY <1>8 DEF ReadTable
  <2>3. Unopened' /\ Laying'
    BY <2>1 DEF Kept, Unopened, Laying
  <2>4. Planned'
    <3>1. InOrder(Damaged)' = InOrder(Damaged)
      BY <1>l, <2>1, PlanIsFixed DEF scanning
    <3> QED
      BY <1>l, <2>1, <3>1 DEF Kept, Planned, Holds
  <2>5. SuperblockInUse'
    BY <1>l, <2>1, ViewIsFixed DEF Kept, SuperblockInUse
  <2>6. Cached'
    <3>1. [key |-> b, value |-> View(b)] \in Presented
      BY DEF Presented
    <3>2. cache \in Seq(Presented) /\ Len(cache) <= Capacity /\ Once(cache)
      BY <2>1 DEF Kept, Cached
    <3>3. cache' \in Seq(Presented) /\ Len(cache') <= Capacity /\ Once(cache')
      BY <2>2, <3>1, <3>2, CapacityAssumption, AccessKeeps
    <3>4. Presented' = Presented
      BY <1>l, <2>1, ViewIsFixed
    <3> QED
      BY <2>1, <3>3, <3>4 DEF Cached, Once
  <2> QED
    BY <2>3, <2>4, <2>5, <2>6 DEF Kept
<1>9. CASE UNCHANGED openVars
  <2>1. UNCHANGED <<strict, phase, scanning, plan, overlay, outcome, sb, cache, start, layoutOK>>
    BY <1>9 DEF openVars, reader, scanning, disk
  <2>2. Unopened' /\ Laying'
    BY <1>l, <2>1 DEF Kept, Unopened, Laying, scanning
  <2>3. Planned'
    <3>1. InOrder(Damaged)' = InOrder(Damaged)
      BY <1>l, <2>1, PlanIsFixed DEF scanning
    <3> QED
      BY <1>l, <2>1, <3>1 DEF Kept, Planned, Holds
  <2>4. SuperblockInUse' /\ Cached'
    BY <1>l, <2>1, ViewIsFixed DEF Kept, SuperblockInUse, Cached, Once
  <2> QED
    BY <2>2, <2>3, <2>4 DEF Kept
<1> QED
  BY <1>1, <1>2, <1>3, <1>4, <1>5, <1>6, <1>7, <1>8, <1>9 DEF OpenNext, Replay

-----------------------------------------------------------------------------
\* The writer, and what an image may be when the reader opens it.

Logging == [homes : SUBSET Homes, revokes : SUBSET Homes, len : Nat]
Unlogged == [seq : Sequences32, homes : SUBSET Homes, revokes : SUBSET Homes, len : Nat,
             todo : SUBSET (Positions \X LogBlocks)]

WriterTypeOK ==
    /\ home \in [Homes -> Contents] /\ store \in [Homes -> Contents]
    /\ head \in Positions /\ count \in 0..MaxTx
    /\ live \in Seq(Logging)
    /\ writing \in Unlogged
    /\ writing # Idle => count > 0
    /\ released \subseteq Homes
    /\ crashed \in BOOLEAN

\* The reader comes after the machine has stopped, and what it stopped with starts nowhere
\* but in its ring.
WriterFirst ==
    ~crashed => phase = "closed" /\ layoutOK /\ (start = 0 \/ start \in Positions)

JournalInv == ReaderTypeOK /\ ScanBounded /\ Kept /\ WriterTypeOK /\ WriterFirst

LEMMA VersionsTyped ==
    ASSUME NEW v \in 0..(2 * MaxTx), NEW b
    PROVE  Value(v, b) \in Contents /\ Logged(v) \in Contents
BY WriterAssumption DEF Value, Logged, Contents

LEMMA LogBlockTyped ==
    ASSUME NEW kind \in Kinds, NEW seq \in Sequences32, NEW names \in Seq(Named),
           NEW revokes \in SUBSET Homes, NEW content \in Contents
    PROVE  LogBlock(kind, seq, names, revokes, content) \in LogBlocks
BY DEF LogBlock, LogBlocks

\* The blocks of a transaction are blocks of a log.
LEMMA BodyTyped ==
    ASSUME NEW seq \in Sequences32, NEW v \in 0..(2 * MaxTx), NEW homes \in SUBSET Homes,
           NEW revokes \in SUBSET Homes, NEW split \in BOOLEAN
    PROVE  Body(seq, v, homes, revokes, split) \in Seq(LogBlocks)
<1> DEFINE order == Order(homes)
           n == Len(order)
           desc(names) == LogBlock("descriptor", seq, names, {}, Logged(0))
           copy == LogBlock("data", 0, << >>, {}, Logged(v))
           rev == IF revokes = {} THEN << >>
                  ELSE <<LogBlock("revoke", seq, << >>, revokes, Logged(0))>>
           each(i) == IF i % 2 = 1 THEN desc(<<Name(order[(i + 1) \div 2])>>) ELSE copy
           pairs == [i \in 1..(2 * n) |-> each(i)]
           one == <<desc([i \in 1..n |-> Name(order[i])])>>
           copies == [i \in 1..n |-> copy]
           rest == IF n = 0 THEN << >> ELSE IF split THEN pairs ELSE one \o copies
<1>0. MaxTx \in Nat /\ 0 \in Sequences32 /\ 0 \in 0..(2 * MaxTx)
  BY WriterAssumption, SequenceAssumption DEF Sequences32
<1>1. n \in Nat /\ \A i \in 1..n : order[i] \in Homes
  <2> DEFINE m == Cardinality(homes)
  <2>1. IsFiniteSet(homes)
    BY WriterAssumption, FS_Subset
  <2>2. m \in Nat /\ ExistsBijection(1..m, homes)
    BY <2>1, FS_CardinalityType
  <2>3. \E f \in [1..m -> homes] : \A x \in homes : \E i \in DOMAIN f : f[i] = x
    BY <2>2 DEF ExistsBijection, Bijection, Injection, Surjection
  <2>4. order \in [1..m -> homes]
    BY <2>3 DEF Order
  <2> HIDE DEF order, m
  <2>5. order \in Seq(homes) /\ Len(order) = m
    BY <2>2, <2>4
  <2> QED
    BY <2>2, <2>4, <2>5
<1> HIDE DEF order, n
<1>2. \A i \in 1..n : Name(order[i]) \in Named
  BY <1>1 DEF Name, Named
<1>3. /\ \A names \in Seq(Named) : desc(names) \in LogBlocks
      /\ copy \in LogBlocks
      /\ LogBlock("revoke", seq, << >>, revokes, Logged(0)) \in LogBlocks
  <2>1. Logged(0) \in Contents /\ Logged(v) \in Contents
    BY <1>0, VersionsTyped
  <2>2. {"data", "descriptor", "revoke"} \subseteq Kinds /\ << >> \in Seq(Named)
        /\ {} \in SUBSET Homes
    BY DEF Kinds
  <2> QED
    BY <1>0, <2>1, <2>2, LogBlockTyped
<1> HIDE DEF desc, copy
<1>4. rev \in Seq(LogBlocks)
  BY <1>3
<1>5. pairs \in Seq(LogBlocks)
  <2>1. ASSUME NEW i \in 1..(2 * n), i % 2 = 1
        PROVE  desc(<<Name(order[(i + 1) \div 2])>>) \in LogBlocks
    <3>1. (i + 1) \div 2 \in 1..n
      BY <1>1, <2>1
    <3>2. <<Name(order[(i + 1) \div 2])>> \in Seq(Named)
      BY <1>2, <3>1
    <3> QED
      BY <1>3, <3>2
  <2>2. ASSUME NEW i \in 1..(2 * n)
        PROVE  each(i) \in LogBlocks
    BY <1>3, <2>1
  <2>3. 2 * n \in Nat
    BY <1>1
  <2> HIDE DEF each
  <2> QED
    BY <2>2, <2>3
<1>6. one \in Seq(LogBlocks) /\ copies \in Seq(LogBlocks)
  <2>1. [i \in 1..n |-> Name(order[i])] \in Seq(Named)
    BY <1>1, <1>2
  <2>2. desc([i \in 1..n |-> Name(order[i])]) \in LogBlocks
    BY <1>3, <2>1
  <2>3. copies \in Seq(LogBlocks)
    BY <1>1, <1>3
  <2> QED
    BY <2>2, <2>3
<1>7. rest \in Seq(LogBlocks)
  <2> HIDE DEF pairs, one, copies
  <2> QED BY <1>5, <1>6, ConcatProperties
<1>8. Body(seq, v, homes, revokes, split) = rev \o rest
  BY DEF Body, order, n, desc, copy
<1> HIDE DEF rev, rest
<1> QED
  BY <1>4, <1>7, <1>8, ConcatProperties

\* Until it opens, the reader has seen nothing the writer changes.
LEMMA ClosedKeeps ==
    ASSUME JournalInv, phase = "closed", UNCHANGED reader,
           log' \in [Positions -> LogBlocks], start' \in Nat, startseq' \in Sequences32,
           \/ UNCHANGED <<home, layoutOK, start>>
           \/ layoutOK' /\ (start' = 0 \/ start' \in Positions)
    PROVE  ReaderTypeOK' /\ ScanBounded' /\ Kept'
<1>1. UNCHANGED <<strict, phase, at, visited, current, committed, plan, overlay, outcome, sb, cache>>
  BY DEF reader
<1>2. Kept /\ ReaderTypeOK /\ ScanBounded
  BY DEF JournalInv
<1>3. ReaderTypeOK' /\ ScanBounded'
  BY <1>1, <1>2 DEF ReaderTypeOK, ScanBounded
<1>4. plan = NoPlan /\ outcome = "none"
  BY <1>2 DEF Kept, Unopened, Laying
<1>5. Planned'
  BY <1>1, <1>4 DEF Planned, NoPlan, Nothing
<1>6. Unopened' /\ Laying' /\ SuperblockInUse' /\ Cached'
  BY <1>1, <1>2, <1>4 DEF Kept, Unopened, Laying, SuperblockInUse, Cached
<1> QED
  BY <1>3, <1>5, <1>6 DEF Kept

\* Any place in the ring is a natural number.
LEMMA PositionsAreNat == Positions \subseteq Nat
BY RingAssumption DEF Positions

\* A transaction begun is made of blocks of the log at places of the ring.
LEMMA BeginKeeps ==
    ASSUME JournalInv, BeginSome
    PROVE  JournalInv'
<1>0. ReaderTypeOK /\ WriterTypeOK /\ WriterFirst
  BY DEF JournalInv
<1>1. PICK homes \in SUBSET Homes, revokes \in SUBSET (Freeable \ released), split \in BOOLEAN :
          Begin(homes, revokes, split)
  BY DEF BeginSome
<1> DEFINE body == Body(NextSeq, 2 * count + 1, homes, revokes, split)
           todo == {<<After(head, i - 1), body[i]>> : i \in 1..Len(body)}
<1>2. ~crashed /\ phase = "closed" /\ layoutOK /\ (start = 0 \/ start \in Positions)
  BY <1>0, <1>1 DEF Begin, Running, WriterFirst
<1>3. /\ UNCHANGED <<layoutOK, reader, crashed, log, home, live, head, released, store>>
      /\ count' = count + 1 /\ count < MaxTx
      /\ writing' = [seq |-> NextSeq, homes |-> homes, revokes |-> revokes, len |-> Len(body) + 1,
                     todo |-> todo]
      /\ \/ start' = head /\ startseq' = NextSeq
         \/ UNCHANGED <<start, startseq>>
  BY <1>1 DEF Begin, Running
<1>4. count \in Nat /\ MaxTx \in Nat /\ count <= MaxTx /\ head \in Positions
  BY <1>0, WriterAssumption DEF WriterTypeOK
<1>5. NextSeq \in Sequences32
  BY <1>4, SequenceAssumption, WriterAssumption DEF NextSeq, Sequences32
<1>6. revokes \in SUBSET Homes
  BY WriterAssumption
<1>7. body \in Seq(LogBlocks)
  <2>1. 2 * count + 1 \in 0..(2 * MaxTx)
    BY <1>3, <1>4
  <2> QED
    BY <1>5, <1>6, <2>1, BodyTyped
<1> HIDE DEF body
<1>8. todo \in SUBSET (Positions \X LogBlocks)
  <2>1. ASSUME NEW i \in 1..Len(body) PROVE After(head, i - 1) \in Positions
    BY <1>4, <1>7, PositionsAreNat, RingIsClosed
  <2> QED
    BY <1>7, <2>1
<1> HIDE DEF todo
<1>9. writing' \in Unlogged
  <2>1. Len(body) + 1 \in Nat
    BY <1>7
  <2> QED
    BY <1>3, <1>5, <1>6, <1>8, <2>1 DEF Unlogged
<1>10. /\ start' \in Nat /\ startseq' \in Sequences32
       /\ layoutOK' /\ (start' = 0 \/ start' \in Positions)
  BY <1>0, <1>2, <1>3, <1>4, <1>5, PositionsAreNat DEF ReaderTypeOK
<1>11. ReaderTypeOK' /\ ScanBounded' /\ Kept'
  BY <1>0, <1>2, <1>3, <1>10, ClosedKeeps DEF ReaderTypeOK
<1>12. WriterTypeOK'
  <2>1. count' \in 0..MaxTx /\ count' > 0
    BY <1>3, <1>4
  <2> QED
    BY <1>0, <1>3, <1>9, <2>1 DEF WriterTypeOK
<1>13. WriterFirst'
  BY <1>2, <1>3, <1>10 DEF WriterFirst, reader
<1> QED
  BY <1>11, <1>12, <1>13 DEF JournalInv

\* So is what reaches the log of it, in whatever order.
LEMMA WriteKeeps ==
    ASSUME JournalInv, Write
    PROVE  JournalInv'
<1>0. ReaderTypeOK /\ WriterTypeOK /\ WriterFirst
  BY DEF JournalInv
<1>1. PICK w \in writing.todo : /\ log' = [log EXCEPT ![w[1]] = w[2]]
                                /\ writing' = [writing EXCEPT !.todo = @ \ {w}]
  BY DEF Write
<1>2. ~crashed /\ phase = "closed" /\ layoutOK /\ (start = 0 \/ start \in Positions)
  BY <1>0 DEF Write, Running, WriterFirst
<1>3. UNCHANGED <<layoutOK, reader, crashed, start, startseq, home, live, head, count, released, store>>
  BY DEF Write, Running
<1>4. writing \in Unlogged /\ w[1] \in Positions /\ w[2] \in LogBlocks
  BY <1>0 DEF WriterTypeOK, Unlogged
<1>5. log' \in [Positions -> LogBlocks]
  BY <1>0, <1>1, <1>4 DEF ReaderTypeOK
<1>6. writing' \in Unlogged
  BY <1>1, <1>4 DEF Unlogged
<1>7. writing # Idle
  BY DEF Idle
<1>8. ReaderTypeOK' /\ ScanBounded' /\ Kept'
  BY <1>0, <1>2, <1>3, <1>5, ClosedKeeps DEF ReaderTypeOK
<1>9. WriterTypeOK' /\ WriterFirst'
  BY <1>0, <1>2, <1>3, <1>6, <1>7 DEF WriterTypeOK, WriterFirst, reader
<1> QED
  BY <1>8, <1>9 DEF JournalInv

\* A commit closes the transaction that was begun.
LEMMA CommitKeeps ==
    ASSUME JournalInv, Commit
    PROVE  JournalInv'
<1>0. ReaderTypeOK /\ WriterTypeOK /\ WriterFirst
  BY DEF JournalInv
<1> DEFINE block == LogBlock("commit", writing.seq, << >>, {}, Logged(0))
           end == After(head, writing.len - 1)
           closed == [homes |-> writing.homes, revokes |-> writing.revokes, len |-> writing.len]
<1>1. ~crashed /\ phase = "closed" /\ layoutOK /\ (start = 0 \/ start \in Positions)
  BY <1>0 DEF Commit, Running, WriterFirst
<1>2. /\ writing # Idle
      /\ log' = [log EXCEPT ![end] = block]
      /\ live' = Append(live, closed)
      /\ head' = After(head, writing.len)
      /\ released' = (released \cup writing.revokes) \ writing.homes
      /\ store' = [b \in Homes |-> IF b \in writing.homes THEN Value(2 * count - 1, b)
                                   ELSE IF b \in writing.revokes THEN home[b] ELSE store[b]]
      /\ writing' = Idle
      /\ UNCHANGED <<layoutOK, reader, crashed, start, startseq, home, count>>
  BY DEF Commit, Running
<1>3. /\ writing \in Unlogged /\ writing.seq \in Sequences32 /\ writing.len \in Nat
      /\ writing.homes \subseteq Homes /\ writing.revokes \subseteq Homes
      /\ head \in Positions /\ head \in Int
  BY <1>0, PositionsAreNat DEF WriterTypeOK, Unlogged
<1>4. 0 \in 0..(2 * MaxTx) /\ 2 * count - 1 \in 0..(2 * MaxTx)
  BY <1>0, <1>2, WriterAssumption DEF WriterTypeOK
<1>5. block \in LogBlocks
  <2>1. Logged(0) \in Contents /\ "commit" \in Kinds /\ << >> \in Seq(Named)
        /\ {} \in SUBSET Homes
    BY <1>4, VersionsTyped DEF Kinds
  <2> QED
    BY <1>3, <2>1, LogBlockTyped
<1>6. log' \in [Positions -> LogBlocks]
  <2> HIDE DEF block, end
  <2> QED BY <1>0, <1>2, <1>5 DEF ReaderTypeOK
<1>7. head' \in Positions
  BY <1>2, <1>3, RingIsClosed
<1>8. live' \in Seq(Logging)
  <2>1. closed \in Logging
    BY <1>3 DEF Logging
  <2> QED
    BY <1>0, <1>2, <2>1, AppendProperties DEF WriterTypeOK
<1>9. store' \in [Homes -> Contents]
  <2>1. \A b \in Homes : Value(2 * count - 1, b) \in Contents
    BY <1>4, VersionsTyped
  <2> QED
    BY <1>0, <1>2, <2>1 DEF WriterTypeOK
<1>10. Idle \in Unlogged
  BY SequenceAssumption DEF Idle, Unlogged, Sequences32
<1>11. released' \subseteq Homes
  BY <1>0, <1>2, <1>3 DEF WriterTypeOK
<1>12. ReaderTypeOK' /\ ScanBounded' /\ Kept'
  BY <1>0, <1>1, <1>2, <1>6, ClosedKeeps DEF ReaderTypeOK
<1>13. WriterTypeOK'
  BY <1>0, <1>2, <1>7, <1>8, <1>9, <1>10, <1>11 DEF WriterTypeOK
<1>14. WriterFirst'
  BY <1>1, <1>2 DEF WriterFirst, reader
<1> QED
  BY <1>12, <1>13, <1>14 DEF JournalInv

\* What is written at home, from the log or past it, is content of a block.
LEMMA HomesKeep ==
    ASSUME JournalInv, WriteDirectly \/ Checkpoint
    PROVE  JournalInv'
<1>0. ReaderTypeOK /\ WriterTypeOK /\ WriterFirst
  BY DEF JournalInv
<1>1. ~crashed /\ phase = "closed" /\ layoutOK /\ (start = 0 \/ start \in Positions)
  BY <1>0 DEF WriteDirectly, Checkpoint, Running, WriterFirst
<1>2. UNCHANGED <<layoutOK, reader, crashed, log, start, startseq, live, writing, head, count, released>>
  BY DEF WriteDirectly, Checkpoint, Running
<1>3. home' \in [Homes -> Contents] /\ store' \in [Homes -> Contents]
  <2>0. home \in [Homes -> Contents] /\ store \in [Homes -> Contents]
    BY <1>0 DEF WriterTypeOK
  <2>1. CASE WriteDirectly
    <3>1. PICK b \in released : /\ home' = [home EXCEPT ![b] = Value(2 * count, b)]
                                /\ store' = [store EXCEPT ![b] = home'[b]]
      BY <2>1 DEF WriteDirectly
    <3>2. b \in Homes /\ 2 * count \in 0..(2 * MaxTx)
      BY <1>0, WriterAssumption DEF WriterTypeOK
    <3>3. Value(2 * count, b) \in Contents
      BY <3>2, VersionsTyped
    <3>4. home' \in [Homes -> Contents]
      BY <2>0, <3>1, <3>3
    <3> QED
      BY <2>0, <3>1, <3>2, <3>4
  <2>2. CASE Checkpoint
    BY <2>0, <2>2 DEF Checkpoint
  <2> QED
    BY <2>1, <2>2
<1>4. ReaderTypeOK' /\ ScanBounded' /\ Kept'
  BY <1>0, <1>1, <1>2, ClosedKeeps DEF ReaderTypeOK
<1>5. WriterTypeOK' /\ WriterFirst'
  BY <1>0, <1>1, <1>2, <1>3 DEF WriterTypeOK, WriterFirst, reader
<1> QED
  BY <1>4, <1>5 DEF JournalInv

\* The tail moves round the ring.
LEMMA TailKeeps ==
    ASSUME JournalInv, AdvanceTail \/ MarkEmpty
    PROVE  JournalInv'
<1>0. ReaderTypeOK /\ WriterTypeOK /\ WriterFirst
  BY DEF JournalInv
<1>1. ~crashed /\ phase = "closed" /\ layoutOK
  BY <1>0 DEF AdvanceTail, MarkEmpty, Running, WriterFirst
<1>2. UNCHANGED <<layoutOK, reader, crashed, log, home, writing, head, count, released, store>>
  BY DEF AdvanceTail, MarkEmpty, Running, writer
<1>3. /\ start' = 0 \/ start' \in Positions
      /\ startseq' \in Sequences32 /\ live' \in Seq(Logging)
  <2>1. CASE AdvanceTail
    <3>1. live \in Seq(Logging) /\ live # << >>
      BY <1>0, <2>1 DEF AdvanceTail, WriterTypeOK
    <3>2. Head(live) \in Logging /\ Tail(live) \in Seq(Logging)
      BY <3>1, HeadTailProperties
    <3>3. Head(live).len \in Nat /\ start \in Int
      BY <1>0, <3>2 DEF Logging, ReaderTypeOK
    <3>4. start' = After(start, Head(live).len) /\ live' = Tail(live)
          /\ startseq' = (startseq + 1) % SeqMod
      BY <2>1 DEF AdvanceTail
    <3>5. startseq' \in Sequences32
      BY <1>0, <3>4, SequenceAssumption DEF ReaderTypeOK, Sequences32
    <3> QED
      BY <3>2, <3>3, <3>4, <3>5, RingIsClosed
  <2>2. CASE MarkEmpty
    BY <1>0, <2>2 DEF MarkEmpty, writer, ReaderTypeOK, WriterTypeOK
  <2> QED
    BY <2>1, <2>2
<1>4. start' \in Nat
  <2>1. ASSUME start' \in Positions PROVE start' \in Nat
    BY <2>1, PositionsAreNat
  <2> QED
    BY <1>3, <2>1
<1>5. ReaderTypeOK' /\ ScanBounded' /\ Kept'
  BY <1>0, <1>1, <1>2, <1>3, <1>4, ClosedKeeps DEF ReaderTypeOK
<1>6. WriterTypeOK' /\ WriterFirst'
  BY <1>0, <1>1, <1>2, <1>3 DEF WriterTypeOK, WriterFirst, reader
<1> QED
  BY <1>5, <1>6 DEF JournalInv

\* The machine stops, and a block of what it left goes bad.
LEMMA LossKeeps ==
    ASSUME JournalInv, Crash \/ Damage
    PROVE  JournalInv'
<1>0. ReaderTypeOK /\ WriterTypeOK /\ WriterFirst
  BY DEF JournalInv
<1>1. /\ phase = "closed" /\ crashed'
      /\ UNCHANGED <<start, startseq, layoutOK, home, reader, store>>
  BY <1>0 DEF Crash, Damage, WriterFirst, disk, writer
<1>2. log' \in [Positions -> LogBlocks]
  <2>0. log \in [Positions -> LogBlocks]
    BY <1>0 DEF ReaderTypeOK
  <2>1. CASE Crash
    BY <2>0, <2>1 DEF Crash, disk
  <2>2. CASE Damage
    <3>1. PICK p \in Positions : log' = [log EXCEPT ![p].sound = FALSE]
      BY <2>2 DEF Damage
    <3>2. log[p] \in LogBlocks
      BY <2>0
    <3>3. [log[p] EXCEPT !.sound = FALSE] \in LogBlocks
      BY <3>2 DEF LogBlocks
    <3> QED
      BY <2>0, <3>1, <3>3
  <2> QED
    BY <2>1, <2>2
<1>3. WriterTypeOK'
  <2>1. CASE Crash
    <3>1. Idle \in Unlogged /\ First \in Positions /\ 0 \in 0..MaxTx
      BY SequenceAssumption, RingAssumption, WriterAssumption
         DEF Idle, Unlogged, Sequences32, Positions
    <3>2. crashed' \in BOOLEAN
      BY <2>1 DEF Crash
    <3> QED
      BY <1>0, <1>1, <2>1, <3>1, <3>2 DEF Crash, WriterTypeOK
  <2>2. CASE Damage
    BY <1>0, <2>2 DEF Damage, WriterTypeOK, writer
  <2> QED
    BY <2>1, <2>2
<1>4. ReaderTypeOK' /\ ScanBounded' /\ Kept'
  BY <1>0, <1>1, <1>2, ClosedKeeps DEF ReaderTypeOK
<1> QED
  BY <1>1, <1>3, <1>4 DEF JournalInv, WriterFirst

\* Nothing of it is disturbed when nothing is.
LEMMA StutterKeeps ==
    ASSUME JournalInv, UNCHANGED vars
    PROVE  JournalInv'
<1>1. UNCHANGED openVars /\ UNCHANGED <<home, start, layoutOK, phase, visited>>
  BY DEF vars, openVars, disk, reader
<1>2. UNCHANGED <<live, writing, head, count, released, store, crashed>>
  BY DEF vars, writer
<1>3. ReaderTypeOK' /\ ScanBounded' /\ Kept'
  BY <1>1, ReaderKeepsTypes, ScanKeepsToBudget, ReaderKeeps DEF JournalInv
<1> QED
  BY <1>1, <1>2, <1>3 DEF JournalInv, WriterTypeOK, WriterFirst

\* Every step of the machine, of its loss and of the reader keeps all of it.
LEMMA JournalKeeps == JournalInv /\ [Next]_vars => JournalInv'
<1> SUFFICES ASSUME JournalInv, [Next]_vars PROVE JournalInv'
  OBVIOUS
<1>1. CASE BeginSome \/ Write \/ Commit \/ WriteDirectly \/ Checkpoint \/ AdvanceTail
           \/ MarkEmpty \/ Crash \/ Damage
  BY <1>1, BeginKeeps, WriteKeeps, CommitKeeps, HomesKeep, TailKeeps, LossKeeps
<1>2. CASE Recover \/ Read
  <2>1. OpenNext /\ crashed /\ UNCHANGED <<writer, crashed>>
    BY <1>2 DEF Recover, Read, OpenNext
  <2>2. ReaderTypeOK' /\ ScanBounded' /\ Kept'
    BY <2>1, ReaderKeepsTypes, ScanKeepsToBudget, ReaderKeeps DEF JournalInv
  <2>3. UNCHANGED disk
    BY <2>1 DEF OpenNext, Replay, ReadTable, Open, OpenFaults, ScanEnds, ScanDescriptor,
                ScanRevoke, ScanCommit, ScanFaults, Apply, ApplyFaults, Install, TakeSuperblock,
                InstallFaults, Fault, openVars
  <2>4. WriterTypeOK' /\ WriterFirst'
    BY <2>1, <2>3 DEF JournalInv, WriterTypeOK, WriterFirst, writer, disk
  <2> QED
    BY <2>2, <2>4 DEF JournalInv
<1>3. CASE Settled \/ UNCHANGED vars
  BY <1>3, StutterKeeps DEF Settled
<1> QED
  BY <1>1, <1>2, <1>3 DEF Next

\* A fresh filesystem, or any image with any log.
LEMMA JournalBegins == Init => JournalInv
<1> SUFFICES ASSUME Init PROVE JournalInv
  OBVIOUS
<1>0. ReaderInit
  BY DEF Init, Fresh, CraftedInit
<1>1. at \in Positions /\ visited = 0 /\ current \in Transactions /\ committed = << >>
  BY <1>0, ReaderBegins
<1>2. /\ log \in [Positions -> LogBlocks] /\ start \in Nat /\ startseq \in Sequences32
      /\ home \in [Homes -> Contents]
      /\ crashed \in BOOLEAN /\ (~crashed => layoutOK /\ start = 0)
  <2>1. CASE Fresh
    <3>1. 0 \in 0..(2 * MaxTx)
      BY WriterAssumption
    <3>2. \A b \in Homes : Value(0, b) \in Contents
      BY <3>1, VersionsTyped
    <3>3. Unwritten \in LogBlocks
      <4>1. Logged(0) \in Contents /\ "none" \in Kinds /\ << >> \in Seq(Named)
            /\ {} \in SUBSET Homes /\ 0 \in Sequences32
        BY <3>1, VersionsTyped, SequenceAssumption DEF Kinds, Sequences32
      <4> QED
        BY <4>1, LogBlockTyped DEF Unwritten
    <3> QED
      BY <2>1, <3>2, <3>3, WriterAssumption DEF Fresh
  <2>2. CASE CraftedInit /\ crashed = TRUE
    BY <2>2, LogsAssumption, StartsAssumption DEF CraftedInit
  <2> QED
    BY <2>1, <2>2 DEF Init
<1>3. ReaderTypeOK
  BY <1>1, <1>2 DEF ReaderTypeOK
<1>4. ScanBounded
  BY <1>1, RingAssumption DEF ScanBounded, Span
<1>5. Kept
  BY <1>0, CapacityAssumption DEF ReaderInit, Kept, Unopened, Laying, Planned, SuperblockInUse,
                                  Cached, NoPlan, Nothing
<1>6. WriterTypeOK
  <2>1. Idle \in Unlogged /\ First \in Positions /\ 0 \in 0..MaxTx
    BY SequenceAssumption, RingAssumption, WriterAssumption
       DEF Idle, Unlogged, Sequences32, Positions
  <2> QED
    BY <1>2, <2>1 DEF Init, WriterTypeOK
<1>7. WriterFirst
  BY <1>0, <1>2 DEF WriterFirst, ReaderInit
<1> QED
  BY <1>3, <1>4, <1>5, <1>6, <1>7 DEF JournalInv

LEMMA JournalInvariant == Spec => []JournalInv
BY JournalBegins, JournalKeeps, PTL DEF Spec

-----------------------------------------------------------------------------

\* The log, the scan's place in it and what it found, and all the writer keeps, have their types.
THEOREM TypeCorrect == Spec => [](ReaderTypeOK /\ WriterTypeOK)
BY JournalInvariant, PTL DEF JournalInv

\* replay.rs, "Purity": the scan visits no more blocks than the journal spans
\* however its fields are set.
THEOREM ScanIsBounded == Spec => []ScanBounded
BY JournalInvariant, PTL DEF JournalInv

\* Every step of opening leaves less to do, whatever the log: no ring can hold the reader.
THEOREM OpeningTerminates == Spec => OpeningEnds
<1>1. JournalInv /\ JournalInv' /\ [Next]_vars
        => [phase = "open" \/ (Remaining' \in Nat /\ Remaining' < Remaining)]_reader
  <2> SUFFICES ASSUME JournalInv, JournalInv', [Next]_vars
               PROVE  [phase = "open" \/ (Remaining' \in Nat /\ Remaining' < Remaining)]_reader
    OBVIOUS
  <2>1. ReaderTypeOK /\ ScanBounded /\ ScanBounded'
    BY DEF JournalInv
  <2>2. OpenNext \/ UNCHANGED reader
    BY DEF Next, BeginSome, Begin, Write, Commit, WriteDirectly, Checkpoint, AdvanceTail,
           MarkEmpty, Running, Crash, Damage, Recover, Read, Settled, OpenNext, vars
  <2> QED
    BY <2>1, <2>2, StepsLeaveLess
<1> QED
  BY <1>1, JournalInvariant, PTL DEF Spec, OpeningEnds

\* read.rs, `replay_journal` and `table_bytes`: nothing read before the overlay was installed
\* outlives it. The superblock and every cached block are what the overlay presents, the
\* cache is within its bound and holds each block once, whatever log a crash leaves.
THEOREM CachesAreFresh == Spec => []CachesFollowOverlay
<1>1. JournalInv => CachesFollowOverlay
  <2> SUFFICES ASSUME JournalInv, phase = "open"
               PROVE  /\ sb = View(Super)
                      /\ \A i \in 1..Len(cache) : cache[i].value = View(cache[i].key)
                      /\ Len(cache) <= Capacity /\ Cardinality(Keys(cache)) = Len(cache)
    BY DEF CachesFollowOverlay
  <2>1. Laying /\ SuperblockInUse /\ Cached
    BY DEF JournalInv, Kept
  <2>2. cache \in Seq(Presented) /\ Len(cache) <= Capacity /\ Once(cache)
    BY <2>1 DEF Cached
  <2>3. \A i \in 1..Len(cache) : cache[i] \in Presented
    BY <2>2
  <2>4. \A i \in 1..Len(cache) : cache[i].value = View(cache[i].key)
    BY <2>3 DEF Presented
  <2>5. Cardinality(Keys(cache)) = Len(cache)
    BY <2>2, HeldOnceIsCounted
  <2>6. sb = View(Super)
    <3>1. CASE outcome = "replayed"
      BY <2>1, <3>1 DEF SuperblockInUse
    <3>2. CASE outcome = "not_replayed"
      BY <2>1, <3>2 DEF SuperblockInUse, Laying, View, Through, Nothing
    <3> QED
      BY <2>1, <3>1, <3>2 DEF Laying
  <2> QED
    BY <2>2, <2>4, <2>5, <2>6
<1> QED
  BY <1>1, JournalInvariant, PTL

\* read.rs, `recover`, and replay.rs, `apply`: whatever is damaged and wherever recovery
\* stops, what is read is the homes, or a replay of copies that verify, never part of one.
THEOREM WholeOrNotAtAll == Spec => []NothingHalfServed
<1>1. JournalInv => NothingHalfServed
  <2> SUFFICES ASSUME JournalInv PROVE NothingHalfServed
    OBVIOUS
  <2>1. Laying /\ Planned /\ SuperblockInUse
    BY DEF JournalInv, Kept
  <2>2. \A b \in DOMAIN overlay : Holds(log[overlay[b].at])
    BY <2>1 DEF Laying, Planned, Nothing
  <2>3. outcome = "replayed" /\ strict => plan.skipped = {}
    BY <2>1 DEF Laying
  <2>4. outcome = "not_replayed" => (\A b \in Homes : View(b) = home[b]) /\ sb = home[Super]
    BY <2>1 DEF Laying, SuperblockInUse, View, Through, Nothing
  <2> QED
    BY <2>2, <2>3, <2>4 DEF NothingHalfServed, DamageIsNotServed, FailureLeavesHomes
<1> QED
  BY <1>1, JournalInvariant, PTL

\* replay.rs, `apply`: a plan made from the last revocation of each block is what replaying
\* the transactions one by one would leave, whatever log a crash, damage or anyone leaves.
THEOREM ReplayIsInOrder == Spec => []ReplaysInOrder
<1>1. JournalInv => ReplaysInOrder
  <2> SUFFICES ASSUME JournalInv PROVE ReplaysInOrder
    OBVIOUS
  <2>1. outcome = "replayed" => overlay = InOrder(Damaged)
    BY DEF JournalInv, Kept, Laying, Planned
  <2> QED
    BY <2>1 DEF ReplaysInOrder, Damaged
<1> QED
  BY <1>1, JournalInvariant, PTL

-----------------------------------------------------------------------------
\* What a crash leaves. The log is told as the string of all transactions the writer began:
\* `t[k]` is the k-th, `lo` the oldest that is still in the log, `hi` the one being written or
\* the next one to be, and positions count on for ever, the ring being where they come round.

Record == [pos : Nat, homes : SUBSET Homes, revokes : SUBSET Homes, split : BOOLEAN]
Strings == [Nat -> Record]
Ring(v) == First + (v % Span)
SeqAt(k) == (FirstSeq + (k - 1)) % SeqMod

\* The blocks of a transaction: the revoke block, tags, size and places, and its k-th commit.
Lead(x) == IF x.revokes = {} THEN 0 ELSE 1
Many(x) == Len(Order(x.homes))
Size(x) == Lead(x) + (IF Many(x) = 0 THEN 0 ELSE IF x.split THEN 2 * Many(x) ELSE Many(x) + 1) + 1
End(x) == x.pos + Size(x)
Place(x, j) == Ring(x.pos + (j - 1))
BodyOf(x, k) == Body(SeqAt(k), 2 * k - 1, x.homes, x.revokes, x.split)
CommitOf(k) == LogBlock("commit", SeqAt(k), << >>, {}, Logged(0))
BlockOf(x, k, j) == IF j < Size(x) THEN BodyOf(x, k)[j] ELSE CommitOf(k)
Kin(x) == [homes |-> x.homes, revokes |-> x.revokes, len |-> Size(x)]

\* What the scan makes of it.
TagPlace(x, i) == x.pos + Lead(x) + (IF x.split THEN 2 * i - 1 ELSE i)
TagAt(x, i) == [home |-> Order(x.homes)[i], escaped |-> Order(x.homes)[i] \in MagicHomes,
                at |-> Ring(TagPlace(x, i))]
Found(c, x, k) ==
    /\ c.seq = SeqAt(k) /\ c.revokes = x.revokes
    /\ Len(c.tags) = Many(x) /\ \A i \in 1..Many(x) : c.tags[i] = TagAt(x, i)

\* Each transaction follows the one before, and those in the log fit in the ring.
Strung(t, lo, hi) ==
    /\ 1 <= lo /\ lo <= hi
    /\ \A k \in 1..(hi - 1) : t[k + 1].pos = End(t[k])
    /\ \A i, j \in 1..hi : i < j => End(t[i]) + (j - i - 1) <= t[j].pos
    /\ End(t[hi]) - t[lo].pos <= Span
    /\ \A k \in 1..hi : t[k].homes \cap t[k].revokes = {}

\* The log holds what was committed. A header of the ring is of a transaction that began,
\* written since the head was last where it is; one of the unfinished transaction is in its place.
LogHolds(t, lo, hi) ==
    /\ \A k \in lo..(hi - 1) : \A j \in 1..Size(t[k]) : log[Place(t[k], j)] = BlockOf(t[k], k, j)
    /\ \A p \in Positions : log[p].kind \in Headers =>
          \E k \in 1..hi : \E j \in 1..Size(t[k]) :
              /\ p = Place(t[k], j) /\ log[p].seq = SeqAt(k)
              /\ t[hi].pos <= t[k].pos + (j - 1) + Span
              /\ k = hi => j < Size(t[k]) /\ log[p] = BlockOf(t[k], k, j)
    /\ IF start = 0 THEN lo = hi ELSE start = Ring(t[lo].pos) /\ startseq = SeqAt(lo)

\* The copy that stands for a block is the last in the log, nothing later naming or freeing it.
Mentions(x, b) == b \in x.homes \/ b \in x.revokes
Standing(t, hi, b, k) == b \in t[k].homes /\ \A q \in (k + 1)..(hi - 1) : ~Mentions(t[q], b)
Values(t, lo, hi) ==
    \A b \in Homes :
        /\ \A k \in lo..(hi - 1) : Standing(t, hi, b, k) => store[b] = Value(2 * k - 1, b)
        /\ (\A k \in lo..(hi - 1) : ~Standing(t, hi, b, k)) => home[b] = store[b]

\* The writer, until it stops.
Underway(x, k) ==
    /\ writing.seq = SeqAt(k)
    /\ writing.homes = x.homes /\ writing.revokes = x.revokes /\ writing.len = Size(x)
    /\ \A w \in writing.todo : \E j \in 1..(Size(x) - 1) : w = <<Place(x, j), BlockOf(x, k, j)>>
    /\ \A j \in 1..(Size(x) - 1) : \/ <<Place(x, j), BlockOf(x, k, j)>> \in writing.todo
                                   \/ log[Place(x, j)] = BlockOf(x, k, j)
WriterIs(t, lo, hi) ==
    /\ Len(live) = hi - lo /\ \A i \in 1..(hi - lo) : live[i] = Kin(t[lo + i - 1])
    /\ head = Ring(t[hi].pos)
    /\ IF writing = Idle THEN hi = count + 1 /\ t[hi].homes = {} /\ t[hi].revokes = {}
       ELSE hi = count /\ start # 0 /\ End(t[hi]) - t[lo].pos < Span /\ Underway(t[hi], hi)
    /\ \A b \in released, k \in lo..(hi - 1) : ~Standing(t, hi, b, k)

\* The reader, over what the writer left. Between two records of a transaction j blocks of it
\* have been visited, and m of its tags found.
Between(x, j, m) ==
    \/ j = 0 /\ m = 0
    \/ j = Lead(x) /\ m = 0
    \/ x.split /\ m \in 1..Many(x) /\ j = Lead(x) + 2 * m
    \/ ~x.split /\ Many(x) > 0 /\ m = Many(x) /\ j = Lead(x) + 1 + m
FoundUpTo(t, lo, k) ==
    Len(committed) = k - lo /\ \A i \in 1..(k - lo) : Found(committed[i], t[lo + i - 1], lo + i - 1)
Amid(t, lo, k, j, m) ==
    /\ j \in 0..(Size(t[k]) - 1) /\ m \in 0..Many(t[k])
    /\ FoundUpTo(t, lo, k) /\ Between(t[k], j, m)
    /\ at = Ring(t[k].pos + j) /\ visited = t[k].pos + j - t[lo].pos
    /\ current.seq = SeqAt(k) /\ current.revokes = (IF j = 0 THEN {} ELSE t[k].revokes)
    /\ Len(current.tags) = m /\ \A i \in 1..m : current.tags[i] = TagAt(t[k], i)
Midway(t, lo, hi) == \E k \in lo..hi, j \in Nat, m \in Nat : Amid(t, lo, k, j, m)
ReaderIs(t, lo, hi) ==
    /\ phase = "scanning" => Midway(t, lo, hi)
    /\ phase \in {"applying", "installing", "rereading"} \/ outcome = "replayed" =>
          FoundUpTo(t, lo, hi)
    /\ plan.skipped = {}
    /\ outcome = "not_replayed" => Super \in DOMAIN plan.copies

Tells(t, lo, hi) ==
    /\ Strung(t, lo, hi) /\ LogHolds(t, lo, hi) /\ Values(t, lo, hi)
    /\ ~crashed => WriterIs(t, lo, hi)
    /\ crashed => layoutOK /\ ReaderIs(t, lo, hi)

\* Short of damage the log tells such a string.
Lossless == damage = "none" => \E t \in Strings, lo \in Nat, hi \in Nat : Tells(t, lo, hi)

-----------------------------------------------------------------------------
\* The ring: what is less than a round away is elsewhere in it.

\* A number is so many rounds and what is left of it.
LEMMA Rounds ==
    ASSUME NEW R \in Nat \ {0}, NEW x \in Nat
    PROVE  \E q \in Nat : x % R \in 0..(R - 1) /\ x = R * q + (x % R)
<1> DEFINE q == x \div R
           r == x % R
<1>1. q \in Int /\ r \in 0..(R - 1) /\ x = R * q + r
  OBVIOUS
<1> HIDE DEF q, r
<1>2. ASSUME q < 0 PROVE FALSE
  <2>1. R * q <= R * (-1)
    BY <1>1, <1>2
  <2> QED BY <1>1, <2>1
<1>3. q \in Nat
  BY <1>1, <1>2
<1> QED
  BY <1>1, <1>3 DEF r

\* Only one way.
LEMMA OneWayRound ==
    ASSUME NEW R \in Nat \ {0}, NEW q \in Int, NEW p \in Int, NEW r \in 0..(R - 1),
           NEW t \in 0..(R - 1), R * q + r = R * p + t
    PROVE  q = p /\ r = t
<1>0. ASSUME NEW i \in Int, i >= 1 PROVE R * i >= R
  <2>1. R * i >= R * 1
    BY <1>0
  <2> QED BY <2>1
<1>1. ASSUME q < p PROVE FALSE
  <2>1. p - q \in Int /\ p - q >= 1 /\ R * (p - q) = r - t
    BY <1>1
  <2> QED BY <1>0, <2>1
<1>2. ASSUME p < q PROVE FALSE
  <2>1. q - p \in Int /\ q - p >= 1 /\ R * (q - p) = t - r
    BY <1>2
  <2> QED BY <1>0, <2>1
<1> QED
  BY <1>1, <1>2

\* Going on from where going round left is going on.
LEMMA RoundAndOn ==
    ASSUME NEW R \in Nat \ {0}, NEW x \in Nat, NEW y \in Nat
    PROVE  ((x % R) + y) % R = (x + y) % R
<1>1. PICK q \in Nat : x % R \in 0..(R - 1) /\ x = R * q + (x % R)
  BY Rounds
<1> DEFINE s == x % R
           z == s + y
           w == x + y
<1>2. z \in Nat /\ w \in Nat /\ w = R * q + z
  <2>1. s \in 0..(R - 1) /\ x = R * q + s
    BY <1>1
  <2> HIDE DEF s
  <2> QED BY <2>1
<1> HIDE DEF z, w
<1>3. PICK u \in Nat : z % R \in 0..(R - 1) /\ z = R * u + (z % R)
  BY <1>2, Rounds
<1>4. PICK v \in Nat : w % R \in 0..(R - 1) /\ w = R * v + (w % R)
  BY <1>2, Rounds
<1> DEFINE r == z % R
           t == w % R
<1>5. r \in 0..(R - 1) /\ t \in 0..(R - 1) /\ z = R * u + r /\ w = R * v + t
  BY <1>3, <1>4
<1> HIDE DEF r, t
<1>6. R * (q + u) + r = R * v + t
  BY <1>2, <1>5
<1>7. q + u \in Int /\ v \in Int
  OBVIOUS
<1> DEFINE p == q + u
<1>8. p \in Int /\ R * p + r = R * v + t
  BY <1>6, <1>7
<1> HIDE DEF p
<1>9. r = t
  BY <1>5, <1>7, <1>8, OneWayRound
<1> QED
  BY <1>9 DEF r, t, z, w, s

\* Less than a round away is elsewhere.
LEMMA ElsewhereWithinRound ==
    ASSUME NEW R \in Nat \ {0}, NEW x \in Nat, NEW d \in 1..(R - 1)
    PROVE  (x + d) % R # x % R
<1> DEFINE w == x + d
           r == x % R
<1>1. PICK q \in Nat : x % R \in 0..(R - 1) /\ x = R * q + (x % R)
  BY Rounds
<1>2. w \in Nat /\ w = x + d
  OBVIOUS
<1> HIDE DEF w
<1>3. PICK v \in Nat : w % R \in 0..(R - 1) /\ w = R * v + (w % R)
  BY <1>2, Rounds
<1>4. r \in 0..(R - 1) /\ x = R * q + r
  BY <1>1
<1> HIDE DEF r
<1> SUFFICES ASSUME w % R = r PROVE FALSE
  BY DEF w, r
<1>5. R * q + r + d = R * v + r
  BY <1>2, <1>3, <1>4
<1> DEFINE p == v - q
<1>6. p \in Int /\ R * p + 0 = R * 0 + d
  BY <1>4, <1>5
<1> HIDE DEF p
<1>7. d \in 0..(R - 1) /\ 0 \in 0..(R - 1) /\ 0 \in Int
  OBVIOUS
<1>8. 0 = d
  BY <1>6, <1>7, OneWayRound
<1> QED
  BY <1>8

\* A whole round comes back.
LEMMA RoundIsBack ==
    ASSUME NEW R \in Nat \ {0}, NEW x \in Nat
    PROVE  (x + R) % R = x % R
<1> DEFINE w == x + R
           r == x % R
<1>1. PICK q \in Nat : x % R \in 0..(R - 1) /\ x = R * q + (x % R)
  BY Rounds
<1>2. w \in Nat /\ w = x + R
  OBVIOUS
<1> HIDE DEF w
<1>3. PICK v \in Nat : w % R \in 0..(R - 1) /\ w = R * v + (w % R)
  BY <1>2, Rounds
<1> DEFINE s == w % R
<1>4. r \in 0..(R - 1) /\ x = R * q + r /\ s \in 0..(R - 1) /\ w = R * v + s
  BY <1>1, <1>3
<1> HIDE DEF r, s
<1> DEFINE p == q + 1
<1>5. p \in Int /\ R * p + r = R * v + s
  BY <1>2, <1>4
<1> HIDE DEF p
<1>6. r = s
  BY <1>4, <1>5, OneWayRound
<1> QED
  BY <1>6 DEF r, s, w

\* Log positions come round the ring, each less than a round from another in its own place.
LEMMA RingFacts ==
    ASSUME NEW v \in Nat
    PROVE  /\ Ring(v) \in Positions
           /\ \A n \in Nat : After(Ring(v), n) = Ring(v + n)
           /\ \A w \in Nat : v < w /\ w < v + Span => Ring(v) # Ring(w)
           /\ Ring(v + Span) = Ring(v)
<1>1. First \in Nat /\ MaxLen \in Nat /\ Span \in Nat \ {0} /\ MaxLen = First + Span
  BY RingAssumption DEF Span
<1> HIDE DEF Span
<1> DEFINE r == v % Span
<1>2. r \in 0..(Span - 1)
  BY <1>1, Rounds
<1>3. Ring(v) = First + r
  BY DEF Ring
<1>4. Ring(v) \in Positions
  <2> HIDE DEF r
  <2> QED BY <1>1, <1>2, <1>3 DEF Positions
<1>5. ASSUME NEW n \in Nat PROVE After(Ring(v), n) = Ring(v + n)
  <2>1. (r + n) % Span = (v + n) % Span
    BY <1>1, RoundAndOn
  <2>2. (Ring(v) - First) + n = r + n
    <3> HIDE DEF r
    <3> QED BY <1>1, <1>2, <1>3
  <2>3. After(Ring(v), n) = First + ((r + n) % Span)
    BY <2>2 DEF After
  <2> HIDE DEF r
  <2> QED BY <2>1, <2>3 DEF Ring
<1>6. ASSUME NEW w \in Nat, v < w, w < v + Span PROVE Ring(v) # Ring(w)
  <2> DEFINE d == w - v
  <2>1. d \in 1..(Span - 1) /\ w = v + d
    BY <1>1, <1>6
  <2> HIDE DEF d
  <2>2. (v + d) % Span # v % Span
    BY <1>1, <2>1, ElsewhereWithinRound
  <2> DEFINE s == w % Span
  <2>3. s \in 0..(Span - 1) /\ r # s /\ Ring(w) = First + s
    BY <1>1, <2>1, <2>2, Rounds DEF Ring
  <2> HIDE DEF r, s
  <2> QED BY <1>1, <1>2, <1>3, <2>3
<1>7. Ring(v + Span) = Ring(v)
  BY <1>1, RoundIsBack DEF Ring
<1> QED
  BY <1>4, <1>5, <1>6, <1>7

\* Two places less than a round apart are one only if they are the same.
LEMMA OnePlace ==
    ASSUME NEW v \in Nat, NEW w \in Nat, v < w + Span, w < v + Span, Ring(v) = Ring(w)
    PROVE  v = w
<1>1. Span \in Nat
  BY RingAssumption DEF Span
<1> HIDE DEF Span
<1> QED
  BY <1>1, RingFacts

\* Sequence numbers follow each other, and fewer than all of them are different.
LEMMA SeqFacts ==
    ASSUME NEW k \in Nat \ {0}
    PROVE  /\ SeqAt(k) \in Sequences32
           /\ (SeqAt(k) + 1) % SeqMod = SeqAt(k + 1)
           /\ \A l \in Nat : k < l /\ l < k + SeqMod => SeqAt(k) # SeqAt(l)
<1> DEFINE x == FirstSeq + (k - 1)
<1>1. SeqMod \in Nat \ {0} /\ FirstSeq \in Nat /\ x \in Nat
  BY SequenceAssumption, WriterAssumption DEF Sequences32
<1>2. SeqAt(k) = x % SeqMod
  BY DEF SeqAt
<1>3. SeqAt(k + 1) = (x + 1) % SeqMod
  <2>1. FirstSeq + ((k + 1) - 1) = x + 1
    BY <1>1
  <2> QED BY <2>1 DEF SeqAt
<1>4. ASSUME NEW l \in Nat, k < l, l < k + SeqMod PROVE SeqAt(k) # SeqAt(l)
  <2> DEFINE d == l - k
  <2>1. d \in 1..(SeqMod - 1) /\ FirstSeq + (l - 1) = x + d
    BY <1>1, <1>4
  <2>2. SeqAt(l) = (x + d) % SeqMod
    BY <2>1 DEF SeqAt
  <2> HIDE DEF x, d
  <2> QED BY <1>1, <1>2, <2>1, <2>2, ElsewhereWithinRound
<1> HIDE DEF x
<1>5. SeqAt(k) \in Sequences32
  BY <1>1, <1>2, Rounds DEF Sequences32
<1>6. (SeqAt(k) + 1) % SeqMod = SeqAt(k + 1)
  <2>1. \A y \in Nat : ((x % SeqMod) + y) % SeqMod = (x + y) % SeqMod
    BY <1>1, RoundAndOn
  <2> QED BY <1>2, <1>3, <2>1
<1> QED
  BY <1>4, <1>5, <1>6

-----------------------------------------------------------------------------
\* The blocks of a transaction.

\* The order of a set of blocks names each of them.
LEMMA OrderIs ==
    ASSUME NEW homes \in SUBSET Homes
    PROVE  /\ Len(Order(homes)) \in Nat
           /\ \A i \in 1..Len(Order(homes)) : Order(homes)[i] \in homes
           /\ \A b \in homes : \E i \in 1..Len(Order(homes)) : Order(homes)[i] = b
<1> DEFINE order == Order(homes)
           m == Cardinality(homes)
<1>1. IsFiniteSet(homes)
  BY WriterAssumption, FS_Subset
<1>2. m \in Nat /\ ExistsBijection(1..m, homes)
  BY <1>1, FS_CardinalityType
<1>3. \E f \in [1..m -> homes] : \A x \in homes : \E i \in DOMAIN f : f[i] = x
  BY <1>2 DEF ExistsBijection, Bijection, Injection, Surjection
<1>4. order \in [1..m -> homes] /\ \A x \in homes : \E i \in DOMAIN order : order[i] = x
  BY <1>3 DEF Order
<1> HIDE DEF order, m
<1>5. Len(order) = m
  BY <1>2, <1>4
<1>6. DOMAIN order = 1..m
  BY <1>4
<1> QED
  BY <1>2, <1>4, <1>5, <1>6 DEF order

RevokeOf(x, k) == LogBlock("revoke", SeqAt(k), << >>, x.revokes, Logged(0))
DescriptorOf(k, names) == LogBlock("descriptor", SeqAt(k), names, {}, Logged(0))
CopyOf(k) == LogBlock("data", 0, << >>, {}, Logged(2 * k - 1))
NamesOf(x) == [i \in 1..Many(x) |-> Name(Order(x.homes)[i])]

\* Its counts are counts.
LEMMA Counted ==
    ASSUME NEW x \in Record
    PROVE  /\ Lead(x) \in {0, 1} /\ Many(x) \in Nat /\ Size(x) \in Nat \ {0} /\ x.pos \in Nat
           /\ End(x) \in Nat
           /\ (Lead(x) = 0 <=> x.revokes = {})
           /\ x.split \in BOOLEAN
           /\ Many(x) = 0 => Size(x) = Lead(x) + 1
           /\ Many(x) > 0 /\ x.split => Size(x) = Lead(x) + 2 * Many(x) + 1
           /\ Many(x) > 0 /\ ~x.split => Size(x) = Lead(x) + Many(x) + 2
<1>1. x.pos \in Nat /\ x.homes \in SUBSET Homes /\ x.split \in BOOLEAN
  BY DEF Record
<1>2. Many(x) \in Nat
  BY <1>1, OrderIs DEF Many
<1>3. Lead(x) \in {0, 1} /\ (Lead(x) = 0 <=> x.revokes = {})
  BY DEF Lead
<1> DEFINE n == Many(x)
           r == Lead(x)
<1>4. Size(x) = r + (IF n = 0 THEN 0 ELSE IF x.split THEN 2 * n ELSE n + 1) + 1
  BY DEF Size
<1> HIDE DEF n, r
<1>5. n \in Nat /\ r \in {0, 1}
  BY <1>2, <1>3 DEF n, r
<1>6. /\ Size(x) \in Nat \ {0}
      /\ n = 0 => Size(x) = r + 1
      /\ n > 0 /\ x.split => Size(x) = r + 2 * n + 1
      /\ n > 0 /\ ~x.split => Size(x) = r + n + 2
  BY <1>1, <1>4, <1>5
<1>7. End(x) \in Nat
  BY <1>1, <1>6 DEF End
<1> QED
  BY <1>1, <1>2, <1>3, <1>6, <1>7 DEF n, r

\* The blocks before the commit, by their place.
LEMMA BodyIs ==
    ASSUME NEW x \in Record, NEW k
    PROVE  /\ Len(BodyOf(x, k)) = Size(x) - 1
           /\ x.revokes # {} => BodyOf(x, k)[1] = RevokeOf(x, k)
           /\ x.split => \A i \in 1..Many(x) :
                 /\ BodyOf(x, k)[Lead(x) + 2 * i - 1] = DescriptorOf(k, <<Name(Order(x.homes)[i])>>)
                 /\ BodyOf(x, k)[Lead(x) + 2 * i] = CopyOf(k)
           /\ ~x.split /\ Many(x) > 0 =>
                 /\ BodyOf(x, k)[Lead(x) + 1] = DescriptorOf(k, NamesOf(x))
                 /\ \A i \in 1..Many(x) : BodyOf(x, k)[Lead(x) + 1 + i] = CopyOf(k)
<1> DEFINE order == Order(x.homes)
           n == Len(order)
           r == Lead(x)
           body == BodyOf(x, k)
           rev == IF x.revokes = {} THEN << >> ELSE <<RevokeOf(x, k)>>
           each(i) == IF i % 2 = 1 THEN DescriptorOf(k, <<Name(order[(i + 1) \div 2])>>) ELSE CopyOf(k)
           pairs == [i \in 1..(2 * n) |-> each(i)]
           one == <<DescriptorOf(k, [i \in 1..n |-> Name(order[i])])>>
           copies == [i \in 1..n |-> CopyOf(k)]
           rest == IF n = 0 THEN << >> ELSE IF x.split THEN pairs ELSE one \o copies
           S == {RevokeOf(x, k), CopyOf(k), DescriptorOf(k, [i \in 1..n |-> Name(order[i])])}
                  \cup {each(i) : i \in 1..(2 * n)}
<1>1. /\ n \in Nat /\ n = Many(x) /\ r \in {0, 1} /\ (r = 0 <=> x.revokes = {})
      /\ x.split \in BOOLEAN
      /\ n = 0 => Size(x) = r + 1
      /\ n > 0 /\ x.split => Size(x) = r + 2 * n + 1
      /\ n > 0 /\ ~x.split => Size(x) = r + n + 2
  BY Counted DEF Many
<1>2. body = rev \o rest
  BY DEF BodyOf, Body, DescriptorOf, CopyOf, RevokeOf
<1>3. rev \in Seq(S) /\ Len(rev) = r /\ (x.revokes # {} => rev[1] = RevokeOf(x, k))
  <2>1. RevokeOf(x, k) \in S
    OBVIOUS
  <2> HIDE DEF S
  <2>2. CASE x.revokes = {}
    BY <1>1, <2>2
  <2>3. CASE x.revokes # {}
    BY <1>1, <2>1, <2>3
  <2> QED BY <2>2, <2>3
<1>4. pairs \in Seq(S) /\ Len(pairs) = 2 * n /\ \A i \in 1..(2 * n) : pairs[i] = each(i)
  <2>1. \A i \in 1..(2 * n) : each(i) \in S
    OBVIOUS
  <2>2. 2 * n \in Nat
    BY <1>1
  <2> HIDE DEF S, each
  <2> QED BY <2>1, <2>2
<1>5. one \in Seq(S) /\ copies \in Seq(S) /\ Len(one) = 1 /\ Len(copies) = n
      /\ \A i \in 1..n : copies[i] = CopyOf(k)
  <2>1. CopyOf(k) \in S /\ DescriptorOf(k, [i \in 1..n |-> Name(order[i])]) \in S
    OBVIOUS
  <2> HIDE DEF S
  <2> QED BY <1>1, <2>1
<1>6. /\ rest \in Seq(S) /\ Len(rest) = Size(x) - 1 - r
      /\ x.split => \A i \in 1..(2 * n) : rest[i] = each(i)
      /\ ~x.split /\ n > 0 => /\ rest[1] = DescriptorOf(k, [i \in 1..n |-> Name(order[i])])
                              /\ \A i \in 1..n : rest[1 + i] = CopyOf(k)
  <2>1. CASE n = 0
    <3>1. rest = << >>
      BY <2>1
    <3> HIDE DEF rest, S
    <3>2. rest \in Seq(S) /\ Len(rest) = 0
      BY <3>1
    <3>3. \A i \in 1..(2 * n) : FALSE
      BY <2>1
    <3> QED BY <1>1, <2>1, <3>2, <3>3
  <2>2. CASE n # 0 /\ x.split
    <3>1. rest = pairs
      BY <2>2
    <3> HIDE DEF pairs, rest, S, each
    <3> QED BY <1>1, <1>4, <2>2, <3>1
  <2>3. CASE n # 0 /\ ~x.split
    <3>1. rest = one \o copies
      BY <2>3
    <3>a. one[1] = DescriptorOf(k, [i \in 1..n |-> Name(order[i])])
      OBVIOUS
    <3> HIDE DEF copies, rest, S, each, one
    <3>2. /\ rest \in Seq(S) /\ Len(rest) = 1 + n
          /\ \A i \in 1..(1 + n) : rest[i] = IF i <= 1 THEN one[i] ELSE copies[i - 1]
      <4>1. one \in Seq(S) /\ copies \in Seq(S)
        BY <1>5
      <4>2. /\ rest \in Seq(S) /\ Len(rest) = Len(one) + Len(copies)
            /\ \A i \in 1..(Len(one) + Len(copies)) :
                  rest[i] = IF i <= Len(one) THEN one[i] ELSE copies[i - Len(one)]
        BY <3>1, <4>1, ConcatProperties
      <4> QED BY <1>5, <4>2
    <3>3. rest[1] = one[1]
      BY <1>1, <3>2
    <3>4. ASSUME NEW i \in 1..n PROVE rest[1 + i] = CopyOf(k)
      <4>1. 1 + i \in 1..(1 + n) /\ ~(1 + i <= 1) /\ (1 + i) - 1 = i
        BY <1>1
      <4>2. rest[1 + i] = copies[(1 + i) - 1]
        BY <3>2, <4>1
      <4> QED BY <1>5, <4>1, <4>2
    <3> QED BY <1>1, <2>3, <3>a, <3>2, <3>3, <3>4
  <2> QED BY <1>1, <2>1, <2>2, <2>3
<1> HIDE DEF rest, rev, S, pairs, copies, one
<1>7. /\ Len(body) = Size(x) - 1
      /\ \A i \in 1..(Size(x) - 1) : body[i] = IF i <= r THEN rev[i] ELSE rest[i - r]
  <2>1. /\ Len(body) = Len(rev) + Len(rest)
        /\ \A i \in 1..(Len(rev) + Len(rest)) :
              body[i] = IF i <= Len(rev) THEN rev[i] ELSE rest[i - Len(rev)]
    <3>1. rev \in Seq(S) /\ rest \in Seq(S)
      BY <1>3, <1>6
    <3> HIDE DEF body
    <3> QED BY <1>2, <3>1, ConcatProperties
  <2>2. Size(x) \in Nat
    BY Counted
  <2>3. Len(rev) + Len(rest) = Size(x) - 1
    BY <1>1, <1>3, <1>6, <2>2
  <2> HIDE DEF body
  <2> QED BY <1>3, <2>1, <2>3
<1> HIDE DEF body
<1>8. ASSUME NEW j \in 1..(Size(x) - 1 - r) PROVE body[r + j] = rest[j]
  <2>0. Size(x) \in Nat
    BY Counted
  <2>1. r + j \in 1..(Size(x) - 1) /\ ~(r + j <= r) /\ (r + j) - r = j
    BY <1>1, <2>0
  <2> QED BY <1>7, <2>1
<1>9. ASSUME x.revokes # {} PROVE body[1] = RevokeOf(x, k)
  <2>1. r = 1 /\ 1 \in 1..(Size(x) - 1)
    BY <1>1, <1>9, Counted
  <2> QED BY <1>3, <1>7, <1>9, <2>1
<1>10. ASSUME x.split, NEW i \in 1..n
       PROVE  /\ body[r + 2 * i - 1] = DescriptorOf(k, <<Name(order[i])>>)
              /\ body[r + 2 * i] = CopyOf(k)
  <2>1. 2 * i - 1 \in 1..(2 * n) /\ 2 * i \in 1..(2 * n) /\ Size(x) - 1 - r = 2 * n
    BY <1>1, <1>10, Counted
  <2>2. rest[2 * i - 1] = each(2 * i - 1) /\ rest[2 * i] = each(2 * i)
    BY <1>6, <1>10, <2>1
  <2>3. (2 * i - 1) % 2 = 1 /\ ((2 * i - 1) + 1) \div 2 = i /\ (2 * i) % 2 = 0
    BY <1>1
  <2>4. each(2 * i - 1) = DescriptorOf(k, <<Name(order[i])>>) /\ each(2 * i) = CopyOf(k)
    BY <2>3
  <2>5. body[r + (2 * i - 1)] = rest[2 * i - 1] /\ body[r + 2 * i] = rest[2 * i]
    BY <1>8, <2>1
  <2>6. r + (2 * i - 1) = r + 2 * i - 1
    BY <1>1
  <2> QED BY <2>2, <2>4, <2>5, <2>6
<1>11. ASSUME ~x.split, n > 0
       PROVE  /\ body[r + 1] = DescriptorOf(k, [i \in 1..n |-> Name(order[i])])
              /\ \A i \in 1..n : body[r + 1 + i] = CopyOf(k)
  <2>1. Size(x) - 1 - r = n + 1
    BY <1>1, <1>11, Counted
  <2>2. body[r + 1] = rest[1]
    BY <1>1, <1>8, <2>1
  <2>3. ASSUME NEW i \in 1..n PROVE body[r + 1 + i] = rest[1 + i]
    <3>1. 1 + i \in 1..(Size(x) - 1 - r) /\ r + (1 + i) = r + 1 + i
      BY <1>1, <2>1
    <3> QED BY <1>8, <3>1
  <2> QED BY <1>6, <1>11, <2>2, <2>3
<1>12. [i \in 1..n |-> Name(order[i])] = NamesOf(x)
  BY <1>1 DEF NamesOf
<1> QED
  BY <1>1, <1>7, <1>9, <1>10, <1>11, <1>12 DEF body

\* Every block before the commit is a copy or a header of the transaction.
LEMMA EveryBlock ==
    ASSUME NEW x \in Record, NEW k, NEW j \in 1..(Size(x) - 1)
    PROVE  LET b == BlockOf(x, k, j)
           IN  \/ b = CopyOf(k)
               \/ b = RevokeOf(x, k)
               \/ \E names : b = DescriptorOf(k, names)
<1> DEFINE n == Many(x)
           r == Lead(x)
           body == BodyOf(x, k)
<1>1. /\ n \in Nat /\ r \in {0, 1} /\ (r = 0 <=> x.revokes = {}) /\ Size(x) \in Nat
      /\ x.split \in BOOLEAN
      /\ n = 0 => Size(x) = r + 1
      /\ n > 0 /\ x.split => Size(x) = r + 2 * n + 1
      /\ n > 0 /\ ~x.split => Size(x) = r + n + 2
  BY Counted
<1>2. BlockOf(x, k, j) = body[j]
  BY <1>1 DEF BlockOf
<1>3. CASE j <= r
  <2>1. j = 1 /\ x.revokes # {}
    BY <1>1, <1>3
  <2> QED BY <1>2, <2>1, BodyIs
<1>4. CASE j > r /\ x.split
  <2>1. n > 0 /\ j - r \in 1..(2 * n)
    BY <1>1, <1>4
  <2>2. \E i \in 1..n : j = r + 2 * i - 1 \/ j = r + 2 * i
    <3> DEFINE i == (j - r + 1) \div 2
    <3>1. i \in 1..n /\ (j - r = 2 * i - 1 \/ j - r = 2 * i)
      BY <1>1, <2>1
    <3> HIDE DEF i
    <3>2. j = r + 2 * i - 1 \/ j = r + 2 * i
      BY <1>1, <3>1
    <3> QED BY <3>1, <3>2
  <2>3. PICK i \in 1..n : j = r + 2 * i - 1 \/ j = r + 2 * i
    BY <2>2
  <2>4. body[r + 2 * i - 1] = DescriptorOf(k, <<Name(Order(x.homes)[i])>>) /\ body[r + 2 * i] = CopyOf(k)
    BY <1>4, BodyIs
  <2> QED BY <1>2, <2>3, <2>4
<1>5. CASE j > r /\ ~x.split
  <2>1. n > 0 /\ j - r \in 1..(n + 1)
    BY <1>1, <1>5
  <2>2. body[r + 1] = DescriptorOf(k, NamesOf(x)) /\ \A i \in 1..n : body[r + 1 + i] = CopyOf(k)
    BY <1>5, <2>1, BodyIs
  <2>3. CASE j = r + 1
    BY <1>2, <2>2, <2>3
  <2>4. CASE j # r + 1
    <3>1. j - r - 1 \in 1..n /\ j = r + 1 + (j - r - 1)
      BY <1>1, <2>1, <2>4
    <3>2. body[j] = CopyOf(k)
      BY <2>2, <3>1
    <3> QED BY <1>2, <3>2
  <2> QED BY <2>3, <2>4
<1> QED
  BY <1>1, <1>3, <1>4, <1>5

\* The copy a tag leads to is among them.
LEMMA CopyIs ==
    ASSUME NEW x \in Record, NEW k, NEW i \in 1..Many(x)
    PROVE  \E j \in 1..(Size(x) - 1) :
              BlockOf(x, k, j) = CopyOf(k) /\ Place(x, j) = Ring(TagPlace(x, i))
<1> DEFINE n == Many(x)
           r == Lead(x)
           body == BodyOf(x, k)
<1>1. /\ n \in Nat /\ r \in {0, 1} /\ Size(x) \in Nat /\ x.pos \in Nat
      /\ x.split \in BOOLEAN
      /\ n > 0 /\ x.split => Size(x) = r + 2 * n + 1
      /\ n > 0 /\ ~x.split => Size(x) = r + n + 2
  BY Counted
<1>2. CASE x.split
  <2> DEFINE j == r + 2 * i
  <2>1. j \in 1..(Size(x) - 1)
    BY <1>1, <1>2
  <2>2. body[j] = CopyOf(k)
    BY <1>2, BodyIs
  <2>3. TagPlace(x, i) = x.pos + (j - 1)
    <3>1. TagPlace(x, i) = x.pos + r + (2 * i - 1)
      BY <1>2 DEF TagPlace
    <3> QED BY <1>1, <3>1
  <2>4. BlockOf(x, k, j) = body[j]
    BY <1>1, <2>1 DEF BlockOf
  <2> HIDE DEF j, body
  <2> QED BY <2>1, <2>2, <2>3, <2>4 DEF Place
<1>3. CASE ~x.split
  <2> DEFINE j == r + 1 + i
  <2>1. j \in 1..(Size(x) - 1)
    BY <1>1, <1>3
  <2>2. body[j] = CopyOf(k)
    BY <1>1, <1>3, BodyIs
  <2>3. TagPlace(x, i) = x.pos + (j - 1)
    <3>1. TagPlace(x, i) = x.pos + r + i
      BY <1>3 DEF TagPlace
    <3> QED BY <1>1, <3>1
  <2>4. BlockOf(x, k, j) = body[j]
    BY <1>1, <2>1 DEF BlockOf
  <2> HIDE DEF j, body
  <2> QED BY <2>1, <2>2, <2>3, <2>4 DEF Place
<1> QED
  BY <1>1, <1>2, <1>3

\* The record that follows: `names` are the next of its blocks, their tags lead to their copies.
Next1(x, k, j, m, names) ==
    /\ BlockOf(x, k, j + 1) = DescriptorOf(k, names)
    /\ Len(names) \in Nat \ {0} /\ m + Len(names) <= Many(x)
    /\ j + 1 + Len(names) <= Size(x) - 1
    /\ Between(x, j + 1 + Len(names), m + Len(names))
    /\ \A i \in 1..Len(names) : /\ names[i] = Name(Order(x.homes)[m + i])
                                /\ TagPlace(x, m + i) = x.pos + j + i

\* Between two records of a transaction, the next is its revoke block or a descriptor.
LEMMA RecordFollows ==
    ASSUME NEW x \in Record, NEW k, NEW j \in 0..(Size(x) - 1), NEW m \in 0..Many(x),
           Between(x, j, m), j < Size(x) - 1
    PROVE  \/ j = 0 /\ m = 0 /\ Lead(x) = 1 /\ BlockOf(x, k, 1) = RevokeOf(x, k)
           \/ (j = 0 => Lead(x) = 0) /\ \E names : Next1(x, k, j, m, names)
<1> DEFINE n == Many(x)
           r == Lead(x)
           body == BodyOf(x, k)
<1>1. /\ n \in Nat /\ r \in {0, 1} /\ (r = 0 <=> x.revokes = {}) /\ Size(x) \in Nat
      /\ x.split \in BOOLEAN /\ x.pos \in Nat
      /\ n = 0 => Size(x) = r + 1
      /\ n > 0 /\ x.split => Size(x) = r + 2 * n + 1
      /\ n > 0 /\ ~x.split => Size(x) = r + n + 2
  BY Counted
<1>2. BlockOf(x, k, j + 1) = body[j + 1]
  BY <1>1 DEF BlockOf
<1>3. CASE j = 0 /\ m = 0 /\ r = 1
  <2>1. x.revokes # {}
    BY <1>1, <1>3
  <2>2. BlockOf(x, k, 1) = RevokeOf(x, k)
    BY <1>2, <1>3, <2>1, BodyIs
  <2> QED BY <1>3, <2>2
<1>4. CASE ~(j = 0 /\ m = 0 /\ r = 1)
  <2>1. \/ j = r /\ m = 0
        \/ x.split /\ m \in 1..n /\ j = r + 2 * m
        \/ ~x.split /\ n > 0 /\ m = n /\ j = r + 1 + n
    BY <1>1, <1>4 DEF Between
  <2>2. n > 0
    BY <1>1, <2>1
  <2>3. (j = 0 => r = 0)
    BY <1>1, <2>1
  <2>4. CASE x.split
    <3> DEFINE b == Order(x.homes)[m + 1]
               names == <<Name(b)>>
    <3>1. j = r + 2 * m /\ m < n /\ m + 1 \in 1..n
      BY <1>1, <2>1, <2>2, <2>4
    <3>2. body[r + 2 * (m + 1) - 1] = DescriptorOf(k, names)
      BY <2>4, <3>1, BodyIs
    <3>3. r + 2 * (m + 1) - 1 = j + 1
      BY <1>1, <3>1
    <3>4. BlockOf(x, k, j + 1) = DescriptorOf(k, names)
      BY <1>2, <3>2, <3>3
    <3>5. Len(names) = 1 /\ names[1] = Name(b)
      OBVIOUS
    <3>6. TagPlace(x, m + 1) = x.pos + j + 1
      <4>1. TagPlace(x, m + 1) = x.pos + r + (2 * (m + 1) - 1)
        BY <2>4 DEF TagPlace
      <4> QED BY <1>1, <3>1, <4>1
    <3>7. Between(x, j + 1 + 1, m + 1) /\ j + 1 + 1 <= Size(x) - 1
      <4>1. j + 1 + 1 = r + 2 * (m + 1)
        BY <1>1, <3>1
      <4>2. j + 1 + 1 <= Size(x) - 1
        BY <1>1, <2>2, <2>4, <3>1
      <4> QED BY <2>4, <3>1, <4>1, <4>2 DEF Between
    <3> HIDE DEF names
    <3>8. \A i \in 1..Len(names) : i = 1
      BY <3>5
    <3>9. \A i \in 1..Len(names) : /\ names[i] = Name(Order(x.homes)[m + i])
                                   /\ TagPlace(x, m + i) = x.pos + j + i
      <4> SUFFICES ASSUME NEW i \in 1..Len(names)
                   PROVE  /\ names[i] = Name(Order(x.homes)[m + i])
                          /\ TagPlace(x, m + i) = x.pos + j + i
        OBVIOUS
      <4>1. i = 1
        BY <3>8
      <4> QED BY <3>5, <3>6, <4>1
    <3>10. m + Len(names) <= n /\ Len(names) \in Nat \ {0}
      BY <3>1, <3>5
    <3>11. Next1(x, k, j, m, names)
      BY <3>4, <3>5, <3>7, <3>9, <3>10 DEF Next1
    <3> QED BY <2>3, <3>11
  <2>5. CASE ~x.split
    <3> DEFINE names == NamesOf(x)
    <3>1. j = r /\ m = 0
      BY <1>1, <2>1, <2>2, <2>5
    <3>2. BlockOf(x, k, j + 1) = DescriptorOf(k, names)
      BY <1>2, <2>2, <2>5, <3>1, BodyIs
    <3>3. Len(names) = n /\ \A i \in 1..n : names[i] = Name(Order(x.homes)[i])
      BY <1>1 DEF NamesOf
    <3> HIDE DEF names
    <3>4. ASSUME NEW i \in 1..n PROVE TagPlace(x, m + i) = x.pos + j + i
      <4>1. m + i = i
        BY <3>1
      <4>2. TagPlace(x, i) = x.pos + r + i
        BY <2>5 DEF TagPlace
      <4> QED BY <3>1, <4>1, <4>2
    <3>5. j + 1 + n = r + 1 + n /\ m + n = n /\ j + 1 + n <= Size(x) - 1
      BY <1>1, <2>2, <2>5, <3>1
    <3>6. Between(x, j + 1 + n, m + n)
      BY <2>2, <2>5, <3>5 DEF Between
    <3>7. \A i \in 1..n : m + i = i
      BY <3>1
    <3>8. \A i \in 1..n : /\ names[i] = Name(Order(x.homes)[m + i])
                          /\ TagPlace(x, m + i) = x.pos + j + i
      BY <3>3, <3>4, <3>7
    <3>9. Next1(x, k, j, m, names)
      BY <1>1, <2>2, <3>2, <3>3, <3>5, <3>6, <3>8 DEF Next1
    <3> QED BY <2>3, <3>9
  <2> QED BY <1>1, <2>4, <2>5
<1> QED
  BY <1>3, <1>4

\* Past the last of them all its tags have been found, and what it revokes.
LEMMA RecordsEnd ==
    ASSUME NEW x \in Record, NEW m \in 0..Many(x), Between(x, Size(x) - 1, m)
    PROVE  m = Many(x) /\ (Size(x) - 1 = 0 => x.revokes = {})
<1>1. /\ Many(x) \in Nat /\ Lead(x) \in {0, 1} /\ (Lead(x) = 0 <=> x.revokes = {}) /\ Size(x) \in Nat
      /\ x.split \in BOOLEAN
      /\ Many(x) = 0 => Size(x) = Lead(x) + 1
      /\ Many(x) > 0 /\ x.split => Size(x) = Lead(x) + 2 * Many(x) + 1
      /\ Many(x) > 0 /\ ~x.split => Size(x) = Lead(x) + Many(x) + 2
  BY Counted
<1> QED
  BY <1>1 DEF Between

-----------------------------------------------------------------------------
\* The string of transactions.

\* What is in the log lies within one round.
LEMMA StringFacts ==
    ASSUME NEW t \in Strings, NEW lo \in Nat, NEW hi \in Nat, Strung(t, lo, hi)
    PROVE  /\ lo \in 1..hi /\ hi \in Nat \ {0} /\ Span \in Nat \ {0}
           /\ \A k \in Nat : /\ t[k] \in Record /\ t[k].pos \in Nat
                             /\ Size(t[k]) \in Nat \ {0} /\ End(t[k]) = t[k].pos + Size(t[k])
           /\ \A k \in lo..hi : t[lo].pos <= t[k].pos /\ End(t[k]) <= t[lo].pos + Span
           /\ \A i, j \in 1..hi : i < j => End(t[i]) + (j - i - 1) <= t[j].pos
<1>1. lo \in 1..hi /\ hi \in Nat \ {0}
  BY DEF Strung
<1>2. ASSUME NEW k \in Nat
      PROVE  /\ t[k] \in Record /\ t[k].pos \in Nat
             /\ Size(t[k]) \in Nat \ {0} /\ End(t[k]) = t[k].pos + Size(t[k])
  <2>1. t[k] \in Record
    BY DEF Strings
  <2> QED BY <2>1, Counted DEF End
<1>3. Span \in Nat \ {0}
  BY RingAssumption DEF Span
<1>4. \A i, j \in 1..hi : i < j => End(t[i]) + (j - i - 1) <= t[j].pos
  BY DEF Strung
<1>5. End(t[hi]) - t[lo].pos <= Span
  BY DEF Strung
<1> HIDE DEF Span
<1>6. ASSUME NEW k \in lo..hi PROVE t[lo].pos <= t[k].pos /\ End(t[k]) <= t[lo].pos + Span
  <2>0. /\ k \in Nat /\ k \in 1..hi /\ hi \in 1..hi /\ lo \in 1..hi
        /\ t[lo].pos \in Nat /\ t[k].pos \in Nat /\ t[hi].pos \in Nat
        /\ Size(t[k]) \in Nat /\ Size(t[lo]) \in Nat /\ Size(t[hi]) \in Nat
    BY <1>1, <1>2
  <2>1. End(t[k]) = t[k].pos + Size(t[k]) /\ End(t[hi]) = t[hi].pos + Size(t[hi])
        /\ End(t[lo]) = t[lo].pos + Size(t[lo])
    BY <1>2, <2>0
  <2>2. lo < k => End(t[lo]) + (k - lo - 1) <= t[k].pos
    BY <1>4, <2>0
  <2>3. k < hi => End(t[k]) + (hi - k - 1) <= t[hi].pos
    BY <1>4, <2>0
  <2>4. t[lo].pos <= t[k].pos
    BY <1>1, <2>0, <2>1, <2>2
  <2>5. End(t[k]) <= End(t[hi])
    BY <1>1, <2>0, <2>1, <2>3
  <2> QED BY <1>3, <1>5, <2>0, <2>1, <2>4, <2>5
<1> QED
  BY <1>1, <1>2, <1>3, <1>4, <1>6

\* So each place of a transaction in the log is its own.
LEMMA OwnPlaces ==
    ASSUME NEW t \in Strings, NEW lo \in Nat, NEW hi \in Nat, Strung(t, lo, hi),
           NEW k \in lo..hi, NEW l \in lo..hi,
           NEW i \in 1..Size(t[k]), NEW j \in 1..Size(t[l]), Place(t[k], i) = Place(t[l], j)
    PROVE  k = l /\ i = j
<1> DEFINE v == t[k].pos + (i - 1)
           w == t[l].pos + (j - 1)
           a == t[lo].pos
<1>1. /\ lo \in 1..hi /\ hi \in Nat /\ k \in Nat /\ l \in Nat /\ Span \in Nat
      /\ k \in 1..hi /\ l \in 1..hi
      /\ a \in Nat /\ t[k].pos \in Nat /\ t[l].pos \in Nat
      /\ Size(t[k]) \in Nat /\ Size(t[l]) \in Nat
      /\ End(t[k]) = t[k].pos + Size(t[k]) /\ End(t[l]) = t[l].pos + Size(t[l])
      /\ a <= t[k].pos /\ End(t[k]) <= a + Span /\ a <= t[l].pos /\ End(t[l]) <= a + Span
  BY StringFacts
<1>2. v \in Nat /\ w \in Nat /\ a <= v /\ v < a + Span /\ a <= w /\ w < a + Span
  BY <1>1
<1>3. Ring(v) = Ring(w)
  BY DEF Place
<1>4. v = w
  <2> HIDE DEF v, w, a
  <2>1. v < w + Span /\ w < v + Span
    BY <1>1, <1>2
  <2> QED BY <1>2, <1>3, <2>1, OnePlace
<1>5. ~(k < l)
  <2> SUFFICES ASSUME k < l PROVE FALSE
    OBVIOUS
  <2>1. End(t[k]) + (l - k - 1) <= t[l].pos
    BY <1>1, StringFacts
  <2> QED BY <1>1, <1>4, <2>1
<1>6. ~(l < k)
  <2> SUFFICES ASSUME l < k PROVE FALSE
    OBVIOUS
  <2>1. End(t[l]) + (k - l - 1) <= t[k].pos
    BY <1>1, StringFacts
  <2> QED BY <1>1, <1>4, <2>1
<1>7. k = l
  BY <1>1, <1>5, <1>6
<1> QED
  BY <1>1, <1>4, <1>7

\* Fewer transactions fit in a round than there are sequence numbers, so a header of the
\* unfinished transaction's sequence is its own.
LEMMA OwnHeaders ==
    ASSUME NEW t \in Strings, NEW lo \in Nat, NEW hi \in Nat, Strung(t, lo, hi),
           0 < First, MaxLen <= SeqMod,
           NEW k \in 1..hi, NEW j \in 1..Size(t[k]), t[hi].pos <= t[k].pos + (j - 1) + Span,
           SeqAt(k) = SeqAt(hi)
    PROVE  k = hi
<1>1. /\ lo \in 1..hi /\ hi \in Nat /\ k \in Nat /\ k \in 1..hi /\ hi \in 1..hi
      /\ t[k].pos \in Nat /\ t[hi].pos \in Nat /\ Size(t[k]) \in Nat
      /\ End(t[k]) = t[k].pos + Size(t[k])
  BY StringFacts
<1>2. Span \in Nat /\ Span < SeqMod /\ SeqMod \in Nat
  BY RingAssumption, SequenceAssumption DEF Span
<1> HIDE DEF Span
<1>3. SUFFICES ASSUME k < hi PROVE FALSE
  BY <1>1
<1>4. End(t[k]) + (hi - k - 1) <= t[hi].pos
  BY <1>1, <1>3, StringFacts
<1>5. hi < k + SeqMod
  BY <1>1, <1>2, <1>4
<1> QED
  BY <1>1, <1>3, <1>5, SeqFacts

\* The blocks of the log in use are those between its ends.
LEMMA UsedIs ==
    ASSUME NEW t \in Strings, NEW lo \in Nat, NEW hi \in Nat, Strung(t, lo, hi),
           Len(live) = hi - lo, \A i \in 1..(hi - lo) : live[i] = Kin(t[lo + i - 1])
    PROVE  Used = t[hi].pos - t[lo].pos
<1> DEFINE n == Len(live)
           Is(f) == f = [i \in 0..n |-> IF i = 0 THEN 0 ELSE f[i - 1] + live[i].len]
           f0 == CHOOSE f : Is(f)
           g == [i \in 0..n |-> t[lo + i].pos - t[lo].pos]
<1>0. n = hi - lo /\ n \in Nat /\ lo \in Nat \ {0}
  BY StringFacts
<1>1. Used = f0[n]
  BY DEF Used
<1> HIDE DEF n
<1>2. ASSUME NEW i \in 0..n
      PROVE  g[i] = IF i = 0 THEN 0 ELSE g[i - 1] + live[i].len
  <2>0. t[lo].pos \in Nat
    BY StringFacts
  <2>1. CASE i = 0
    <3>1. g[0] = t[lo + 0].pos - t[lo].pos /\ lo + 0 = lo
      BY <1>0
    <3> QED BY <2>0, <2>1, <3>1
  <2>2. CASE i # 0
    <3>1. i \in 1..(hi - lo) /\ i - 1 \in 0..n /\ lo + (i - 1) \in 1..(hi - 1)
          /\ lo + (i - 1) \in Nat /\ (lo + (i - 1)) + 1 = lo + i /\ lo + i - 1 = lo + (i - 1)
      BY <1>0, <2>2, StringFacts
    <3>2. t[lo + i].pos = End(t[lo + (i - 1)])
      BY <3>1 DEF Strung
    <3>3. End(t[lo + (i - 1)]) = t[lo + (i - 1)].pos + Size(t[lo + (i - 1)])
          /\ t[lo + (i - 1)].pos \in Nat /\ Size(t[lo + (i - 1)]) \in Nat
      BY <3>1, StringFacts
    <3>4. live[i].len = Size(t[lo + (i - 1)])
      BY <3>1 DEF Kin
    <3>5. g[i] = t[lo + i].pos - t[lo].pos /\ g[i - 1] = t[lo + (i - 1)].pos - t[lo].pos
      BY <3>1
    <3> HIDE DEF g
    <3> QED BY <2>0, <2>2, <3>2, <3>3, <3>4, <3>5
  <2> QED BY <2>1, <2>2
<1>3. Is(g)
  <2>2. g = [i \in 0..n |-> g[i]]
    OBVIOUS
  <2> HIDE DEF g
  <2> QED BY <1>2, <2>2
<1>4. Is(f0)
  <2> HIDE DEF Is, g
  <2> QED BY <1>3
<1> HIDE DEF f0
<1>5. ASSUME NEW i \in 0..n PROVE f0[i] = g[i]
  <2> DEFINE T == {k \in 0..n : f0[k] # g[k]}
  <2> SUFFICES ASSUME T # {} PROVE FALSE
    OBVIOUS
  <2>1. T \in SUBSET Nat
    BY <1>0
  <2>2. PICK k \in T : \A l \in T : k <= l
    <3> HIDE DEF T
    <3> QED BY <2>1, LeastNat
  <2> HIDE DEF g
  <2>3. CASE k = 0
    BY <1>2, <1>4, <2>3
  <2>4. CASE k # 0
    <3>1. k - 1 \in 0..n /\ k - 1 \notin T
      BY <1>0, <2>2, <2>4
    <3>2. f0[k - 1] = g[k - 1]
      BY <3>1
    <3>3. f0[k] = f0[k - 1] + live[k].len /\ g[k] = g[k - 1] + live[k].len
      BY <1>2, <1>4, <2>4
    <3> QED BY <3>2, <3>3
  <2> QED BY <2>3, <2>4
<1>6. g[n] = t[lo + n].pos - t[lo].pos /\ n \in 0..n /\ lo + n = hi
  BY <1>0
<1> HIDE DEF g
<1> QED
  BY <1>1, <1>5, <1>6

-----------------------------------------------------------------------------
\* The writer goes on telling such a string.

\* While it runs, the log it left ends in its own and the reader has not begun.
LEMMA RunningFacts ==
    ASSUME NEW t \in Strings, NEW lo \in Nat, NEW hi \in Nat, Tells(t, lo, hi), JournalInv, ~crashed
    PROVE  /\ WriterIs(t, lo, hi) /\ Strung(t, lo, hi) /\ LogHolds(t, lo, hi) /\ Values(t, lo, hi)
           /\ log \in [Positions -> LogBlocks] /\ phase = "closed" /\ layoutOK
           /\ lo \in 1..hi /\ hi \in Nat \ {0} /\ Span \in Nat \ {0}
           /\ t[hi] \in Record /\ Size(t[hi]) \in Nat \ {0} /\ t[hi].pos \in Nat
           /\ \A j \in 1..Size(t[hi]) : Place(t[hi], j) \in Positions
           /\ count \in Nat
<1>1. log \in [Positions -> LogBlocks] /\ phase = "closed" /\ layoutOK /\ count \in Nat
  BY WriterAssumption DEF JournalInv, ReaderTypeOK, WriterFirst, WriterTypeOK
<1>2. WriterIs(t, lo, hi) /\ Strung(t, lo, hi) /\ LogHolds(t, lo, hi) /\ Values(t, lo, hi)
  BY DEF Tells
<1>3. /\ lo \in 1..hi /\ hi \in Nat \ {0} /\ Span \in Nat \ {0}
      /\ t[hi] \in Record /\ Size(t[hi]) \in Nat \ {0} /\ t[hi].pos \in Nat
  BY <1>2, StringFacts
<1>4. ASSUME NEW j \in 1..Size(t[hi]) PROVE Place(t[hi], j) \in Positions
  <2>1. t[hi].pos + (j - 1) \in Nat
    BY <1>3
  <2> QED BY <2>1, RingFacts DEF Place
<1> QED
  BY <1>1, <1>2, <1>3, <1>4

\* A header written in its place is the transaction's.
LEMMA HeadersAreOwn ==
    ASSUME NEW x \in Record, NEW k, NEW j \in 1..(Size(x) - 1), BlockOf(x, k, j).kind \in Headers
    PROVE  BlockOf(x, k, j).seq = SeqAt(k)
<1>1. CopyOf(k).kind \notin Headers
  BY DEF CopyOf, LogBlock, Headers
<1>2. RevokeOf(x, k).seq = SeqAt(k) /\ \A names : DescriptorOf(k, names).seq = SeqAt(k)
  BY DEF RevokeOf, DescriptorOf, LogBlock
<1> QED
  BY <1>1, <1>2, EveryBlock

\* A block that reaches the log is in its place, and in no other transaction's.
LEMMA WriteTells ==
    ASSUME NEW t \in Strings, NEW lo \in Nat, NEW hi \in Nat, Tells(t, lo, hi), JournalInv, Write
    PROVE  Tells(t, lo, hi)'
<1> DEFINE x == t[hi]
<1>0. ~crashed /\ UNCHANGED <<layoutOK, reader, crashed, damage>>
      /\ UNCHANGED <<start, startseq, home, live, head, count, released, store>>
  BY DEF Write, Running
<1>1. /\ WriterIs(t, lo, hi) /\ Strung(t, lo, hi) /\ LogHolds(t, lo, hi) /\ Values(t, lo, hi)
      /\ log \in [Positions -> LogBlocks]
      /\ lo \in 1..hi /\ hi \in Nat \ {0} /\ Span \in Nat \ {0}
      /\ x \in Record /\ Size(x) \in Nat \ {0} /\ x.pos \in Nat
      /\ \A j \in 1..Size(x) : Place(x, j) \in Positions
  BY <1>0, RunningFacts
<1>2. PICK w \in writing.todo : /\ log' = [log EXCEPT ![w[1]] = w[2]]
                                /\ writing' = [writing EXCEPT !.todo = @ \ {w}]
  BY DEF Write
<1>3. writing # Idle
  BY DEF Idle
<1>4. hi = count /\ start # 0 /\ End(x) - t[lo].pos < Span /\ Underway(x, hi)
  BY <1>1, <1>3 DEF WriterIs
<1>5. PICK j \in 1..(Size(x) - 1) : w = <<Place(x, j), BlockOf(x, hi, j)>>
  BY <1>4 DEF Underway
<1> DEFINE P == Place(x, j)
           B == BlockOf(x, hi, j)
<1>6. P \in Positions /\ j \in 1..Size(x) /\ log' = [log EXCEPT ![P] = B]
      /\ w = <<P, B>>
  BY <1>1, <1>2, <1>5
<1>7. log'[P] = B /\ \A p \in Positions : p # P => log'[p] = log[p]
  BY <1>1, <1>6
<1> HIDE DEF P, B
<1>8. ASSUME NEW k \in lo..hi, NEW i \in 1..Size(t[k]), Place(t[k], i) = P PROVE k = hi /\ i = j
  <2>1. hi \in lo..hi
    BY <1>1
  <2> QED BY <1>1, <1>6, <1>8, <2>1, OwnPlaces DEF P
<1>9. ASSUME NEW k \in lo..hi, NEW i \in 1..Size(t[k]) PROVE Place(t[k], i) \in Positions
  <2>1. t[k].pos \in Nat /\ Size(t[k]) \in Nat
    BY <1>1, StringFacts
  <2>2. t[k].pos + (i - 1) \in Nat
    BY <2>1
  <2> QED BY <2>2, RingFacts DEF Place
<1>10. LogHolds(t, lo, hi)'
  <2>1. ASSUME NEW k \in lo..(hi - 1), NEW i \in 1..Size(t[k])
        PROVE  log'[Place(t[k], i)] = BlockOf(t[k], k, i)
    <3>1. k \in lo..hi /\ k # hi
      BY <1>1
    <3>2. Place(t[k], i) # P /\ Place(t[k], i) \in Positions
      BY <1>8, <1>9, <3>1
    <3>3. log[Place(t[k], i)] = BlockOf(t[k], k, i)
      BY <1>1 DEF LogHolds
    <3> QED BY <1>7, <3>2, <3>3
  <2>2. ASSUME NEW p \in Positions, log'[p].kind \in Headers
        PROVE  \E k \in 1..hi : \E i \in 1..Size(t[k]) :
                  /\ p = Place(t[k], i) /\ log'[p].seq = SeqAt(k)
                  /\ t[hi].pos <= t[k].pos + (i - 1) + Span
                  /\ k = hi => i < Size(t[k]) /\ log'[p] = BlockOf(t[k], k, i)
    <3>1. CASE p = P
      <4>1. log'[p] = BlockOf(x, hi, j) /\ p = Place(x, j)
        BY <1>7, <3>1 DEF P, B
      <4>2. log'[p].seq = SeqAt(hi)
        BY <1>1, <2>2, <4>1, HeadersAreOwn
      <4>3. x.pos <= x.pos + (j - 1) + Span /\ j < Size(x) /\ hi \in 1..hi
        BY <1>1
      <4> QED BY <1>6, <4>1, <4>2, <4>3
    <3>2. CASE p # P
      <4>1. log'[p] = log[p]
        BY <1>7, <3>2
      <4> QED BY <1>1, <2>2, <4>1 DEF LogHolds
    <3> QED BY <3>1, <3>2
  <2> QED BY <1>0, <1>1, <2>1, <2>2 DEF LogHolds
<1>11. Values(t, lo, hi)'
  BY <1>0, <1>1 DEF Values
<1>12. WriterIs(t, lo, hi)'
  <2> DEFINE todo == writing.todo \ {w}
  <2>1. /\ writing'.seq = writing.seq /\ writing'.homes = writing.homes
        /\ writing'.revokes = writing.revokes /\ writing'.len = writing.len
        /\ writing'.todo = todo
    <3>1. writing \in Unlogged
      BY DEF JournalInv, WriterTypeOK
    <3> QED BY <1>2, <3>1 DEF Unlogged
  <2>2. writing' # Idle
    BY <1>1, <1>4, <2>1 DEF Underway, Idle
  <2>3. ASSUME NEW i \in 1..(Size(x) - 1)
        PROVE  <<Place(x, i), BlockOf(x, hi, i)>> \in todo \/ log'[Place(x, i)] = BlockOf(x, hi, i)
    <3>1. CASE i = j
      BY <1>7, <3>1 DEF P, B
    <3>2. CASE i # j
      <4>1. hi \in lo..hi /\ i \in 1..Size(x)
        BY <1>1
      <4>2. Place(x, i) # P /\ Place(x, i) \in Positions
        BY <1>8, <1>9, <3>2, <4>1
      <4>3. <<Place(x, i), BlockOf(x, hi, i)>> # w
        BY <1>6, <4>2
      <4>4. <<Place(x, i), BlockOf(x, hi, i)>> \in writing.todo \/ log[Place(x, i)] = BlockOf(x, hi, i)
        BY <1>4 DEF Underway
      <4> QED BY <1>7, <4>2, <4>3, <4>4
    <3> QED BY <3>1, <3>2
  <2>4. Underway(x, hi)'
    <3>1. \A v \in todo : \E i \in 1..(Size(x) - 1) : v = <<Place(x, i), BlockOf(x, hi, i)>>
      BY <1>4 DEF Underway
    <3> HIDE DEF todo, x
    <3> QED BY <1>4, <2>1, <2>3, <3>1 DEF Underway
  <2> QED BY <1>0, <1>1, <1>4, <2>2, <2>4 DEF WriterIs
<1> QED
  BY <1>0, <1>1, <1>10, <1>11, <1>12 DEF Tells

\* Where no block is named nothing is written but a commit.
LEMMA EmptyRecord ==
    ASSUME NEW x \in Record, x.homes = {}, x.revokes = {}
    PROVE  Size(x) = 1 /\ Many(x) = 0
<1>1. Many(x) \in Nat /\ \A i \in 1..Many(x) : Order(x.homes)[i] \in {}
  BY OrderIs DEF Many, Record
<1>2. Many(x) = 0
  BY <1>1
<1> QED
  BY <1>2, Counted

\* A transaction begun is the one being written.
LEMMA BeginTells ==
    ASSUME NEW t \in Strings, NEW lo \in Nat, NEW hi \in Nat, Tells(t, lo, hi), JournalInv, BeginSome,
           0 < First
    PROVE  \E t2 \in Strings : Tells(t2, lo, hi)'
<1>1. PICK homes \in SUBSET Homes, revokes \in SUBSET (Freeable \ released), split \in BOOLEAN :
          homes \cap revokes = {} /\ Begin(homes, revokes, split)
  BY DEF BeginSome
<1> DEFINE y == t[hi]
           x == [pos |-> y.pos, homes |-> homes, revokes |-> revokes, split |-> split]
           t2 == [t EXCEPT ![hi] = x]
           body == Body(NextSeq, 2 * count + 1, homes, revokes, split)
<1>2. /\ ~crashed /\ writing = Idle
      /\ UNCHANGED <<layoutOK, reader, crashed, damage, log, home, live, head, released, store>>
      /\ Used + (Len(body) + 1) < Span
      /\ writing' = [seq |-> NextSeq, homes |-> homes, revokes |-> revokes, len |-> Len(body) + 1,
                     todo |-> {<<After(head, i - 1), body[i]>> : i \in 1..Len(body)}]
      /\ count' = count + 1
      /\ IF start = 0 THEN start' = head /\ startseq' = NextSeq
         ELSE UNCHANGED <<start, startseq>>
  BY <1>1 DEF Begin, Running
<1>3. /\ WriterIs(t, lo, hi) /\ Strung(t, lo, hi) /\ LogHolds(t, lo, hi) /\ Values(t, lo, hi)
      /\ lo \in 1..hi /\ hi \in Nat \ {0} /\ Span \in Nat \ {0} /\ count \in Nat
      /\ y \in Record /\ Size(y) \in Nat \ {0} /\ y.pos \in Nat
  BY <1>2, RunningFacts
<1>4. /\ hi = count + 1 /\ y.homes = {} /\ y.revokes = {} /\ head = Ring(y.pos)
      /\ Len(live) = hi - lo /\ \A i \in 1..(hi - lo) : live[i] = Kin(t[lo + i - 1])
  BY <1>2, <1>3 DEF WriterIs
<1>5. x \in Record /\ x.pos = y.pos /\ x.homes = homes /\ x.revokes = revokes /\ x.split = split
  BY <1>3, WriterAssumption DEF Record
<1> HIDE DEF x
<1>6. /\ t2 \in Strings /\ t2[hi] = x /\ \A k \in Nat : k # hi => t2[k] = t[k]
      /\ \A k \in Nat : t2[k].pos = t[k].pos
  BY <1>5 DEF Strings
<1> HIDE DEF t2
<1>7. Size(y) = 1
  BY <1>3, <1>4, EmptyRecord
<1>8. SeqAt(hi) = NextSeq /\ 2 * hi - 1 = 2 * count + 1
  <2>1. hi - 1 = count
    BY <1>3, <1>4
  <2> QED BY <1>3, <1>4, <2>1 DEF SeqAt, NextSeq
<1>9. body = BodyOf(x, hi)
  BY <1>5, <1>8 DEF BodyOf
<1> HIDE DEF body
<1>10. /\ Size(x) \in Nat \ {0} /\ Len(body) = Size(x) - 1 /\ Len(body) + 1 = Size(x)
       /\ End(x) = x.pos + Size(x)
  <2>1. Size(x) \in Nat \ {0} /\ Len(body) = Size(x) - 1
    BY <1>5, <1>9, Counted, BodyIs
  <2> QED BY <2>1 DEF End
<1>11. Used = y.pos - t[lo].pos /\ t[lo].pos \in Nat
  BY <1>3, <1>4, UsedIs, StringFacts
<1>12. End(x) - t2[lo].pos < Span /\ End(x) - t2[lo].pos <= Span
  <2>1. t2[lo].pos = t[lo].pos
    BY <1>6
  <2> DEFINE v == y.pos
             a == t[lo].pos
             s == Size(x)
  <2>2. v \in Nat /\ a \in Nat /\ s \in Nat /\ Span \in Nat
    BY <1>3, <1>10, <1>11
  <2>3. Used = v - a
    BY <1>11
  <2>4. Used + s < Span
    BY <1>2, <1>10
  <2>5. End(x) = v + s
    BY <1>5, <1>10
  <2> HIDE DEF v, a, s
  <2>6. (v + s) - a < Span /\ (v + s) - a <= Span
    BY <2>2, <2>3, <2>4
  <2> QED BY <2>1, <2>5, <2>6 DEF a
<1>13. Strung(t2, lo, hi)
  <2>1. ASSUME NEW k \in 1..(hi - 1) PROVE t2[k + 1].pos = End(t2[k])
    <3>1. t[k + 1].pos = End(t[k]) /\ k # hi /\ k \in Nat /\ k + 1 \in Nat
      BY <1>3 DEF Strung
    <3> QED BY <1>6, <3>1
  <2>2. ASSUME NEW i \in 1..hi, NEW j \in 1..hi, i < j PROVE End(t2[i]) + (j - i - 1) <= t2[j].pos
    <3>1. End(t[i]) + (j - i - 1) <= t[j].pos /\ i # hi /\ i \in Nat /\ j \in Nat
      BY <1>3, <2>2 DEF Strung
    <3> QED BY <1>6, <3>1
  <2>3. ASSUME NEW k \in 1..hi PROVE t2[k].homes \cap t2[k].revokes = {}
    <3>1. CASE k = hi
      BY <1>1, <1>5, <1>6, <3>1
    <3>2. CASE k # hi
      BY <1>3, <1>6, <3>2 DEF Strung
    <3> QED BY <3>1, <3>2
  <2> QED BY <1>3, <1>6, <1>12, <2>1, <2>2, <2>3 DEF Strung
<1>14. LogHolds(t2, lo, hi)'
  <2>1. ASSUME NEW k \in lo..(hi - 1), NEW j \in 1..Size(t2[k])
        PROVE  log'[Place(t2[k], j)] = BlockOf(t2[k], k, j)
    <3>1. k # hi /\ k \in Nat
      BY <1>3
    <3>2. t2[k] = t[k]
      BY <1>6, <3>1
    <3> QED BY <1>2, <1>3, <3>2 DEF LogHolds
  <2>2. ASSUME NEW p \in Positions, log'[p].kind \in Headers
        PROVE  \E k \in 1..hi : \E j \in 1..Size(t2[k]) :
                  /\ p = Place(t2[k], j) /\ log'[p].seq = SeqAt(k)
                  /\ t2[hi].pos <= t2[k].pos + (j - 1) + Span
                  /\ k = hi => j < Size(t2[k]) /\ log'[p] = BlockOf(t2[k], k, j)
    <3>0. log' = log
      BY <1>2
    <3>a. PICK k \in 1..hi : \E j \in 1..Size(t[k]) :
                  /\ p = Place(t[k], j) /\ log[p].seq = SeqAt(k)
                  /\ t[hi].pos <= t[k].pos + (j - 1) + Span
                  /\ k = hi => j < Size(t[k]) /\ log[p] = BlockOf(t[k], k, j)
      BY <1>3, <2>2, <3>0 DEF LogHolds
    <3>1. PICK j \in 1..Size(t[k]) :
                  /\ p = Place(t[k], j) /\ log[p].seq = SeqAt(k)
                  /\ t[hi].pos <= t[k].pos + (j - 1) + Span
                  /\ k = hi => j < Size(t[k]) /\ log[p] = BlockOf(t[k], k, j)
      BY <3>a
    <3>2. k # hi
      <4>1. ~(j < 1)
        BY <1>3, StringFacts
      <4> QED BY <1>7, <3>1, <4>1
    <3>3. t2[k] = t[k] /\ t2[hi].pos = t[hi].pos
      BY <1>3, <1>6, <3>2
    <3> QED BY <3>0, <3>1, <3>2, <3>3
  <2>3. IF start' = 0 THEN lo = hi ELSE start' = Ring(t2[lo].pos) /\ startseq' = SeqAt(lo)
    <3>0. t2[lo].pos = t[lo].pos
      BY <1>6
    <3>1. CASE start = 0
      <4>1. lo = hi
        BY <1>3, <3>1 DEF LogHolds
      <4> QED BY <1>2, <1>4, <1>8, <3>0, <3>1, <4>1
    <3>2. CASE start # 0
      BY <1>2, <1>3, <3>0, <3>2 DEF LogHolds
    <3> QED BY <3>1, <3>2
  <2> QED BY <2>1, <2>2, <2>3 DEF LogHolds
<1>15. ASSUME NEW b, NEW k \in lo..(hi - 1) PROVE Standing(t2, hi, b, k) <=> Standing(t, hi, b, k)
  <2>1. k # hi /\ k \in Nat /\ \A q \in (k + 1)..(hi - 1) : q # hi /\ q \in Nat
    BY <1>3
  <2>2. t2[k] = t[k] /\ \A q \in (k + 1)..(hi - 1) : t2[q] = t[q]
    BY <1>6, <2>1
  <2> QED BY <2>2 DEF Standing
<1>16. Values(t2, lo, hi)'
  BY <1>2, <1>3, <1>15 DEF Values
<1>17. Underway(x, hi)'
  <2> DEFINE todo == {<<After(head, i - 1), body[i]>> : i \in 1..Len(body)}
  <2>1. /\ writing'.seq = SeqAt(hi) /\ writing'.homes = x.homes /\ writing'.revokes = x.revokes
        /\ writing'.len = Size(x) /\ writing'.todo = todo
    BY <1>2, <1>5, <1>8, <1>10
  <2>2. ASSUME NEW i \in 1..(Size(x) - 1)
        PROVE  After(head, i - 1) = Place(x, i) /\ body[i] = BlockOf(x, hi, i)
    <3>1. i - 1 \in Nat /\ i < Size(x)
      BY <1>10
    <3>2. After(Ring(y.pos), i - 1) = Ring(y.pos + (i - 1))
      BY <1>3, <3>1, RingFacts
    <3> QED BY <1>4, <1>5, <1>9, <3>1, <3>2 DEF Place, BlockOf
  <2>3. \A w \in todo : \E i \in 1..(Size(x) - 1) : w = <<Place(x, i), BlockOf(x, hi, i)>>
    BY <1>10, <2>2
  <2>4. \A i \in 1..(Size(x) - 1) : <<Place(x, i), BlockOf(x, hi, i)>> \in todo
    <3> SUFFICES ASSUME NEW i \in 1..(Size(x) - 1)
                 PROVE  <<Place(x, i), BlockOf(x, hi, i)>> \in todo
      OBVIOUS
    <3>1. <<After(head, i - 1), body[i]>> \in todo
      BY <1>10
    <3> QED BY <2>2, <3>1
  <2> HIDE DEF todo
  <2> QED BY <2>1, <2>3, <2>4 DEF Underway
<1>18. WriterIs(t2, lo, hi)'
  <2>1. writing' # Idle
    BY <1>10, <1>17 DEF Underway, Idle
  <2>2. start' # 0
    <3>0. Ring(y.pos) \in Positions
      BY <1>3, RingFacts
    <3>a. \A r \in Positions : r # 0
      BY RingAssumption DEF Positions
    <3>1. Ring(y.pos) # 0
      BY <3>0, <3>a
    <3> QED BY <1>2, <1>4, <3>1
  <2>3. ASSUME NEW i \in 1..(hi - lo) PROVE live'[i] = Kin(t2[lo + i - 1])
    <3>1. lo + i - 1 # hi /\ lo + i - 1 \in Nat
      BY <1>3
    <3> QED BY <1>2, <1>4, <1>6, <3>1
  <2>4. \A b \in released, k \in lo..(hi - 1) : ~Standing(t2, hi, b, k)
    BY <1>3, <1>15 DEF WriterIs
  <2> QED BY <1>2, <1>4, <1>6, <1>12, <1>17, <2>1, <2>2, <2>3, <2>4 DEF WriterIs
<1>19. Tells(t2, lo, hi)'
  BY <1>2, <1>13, <1>14, <1>16, <1>18 DEF Tells
<1> QED
  BY <1>6, <1>19

\* A transaction is committed by its commit block, and the next begins where it ends.
LEMMA CommitTells ==
    ASSUME NEW t \in Strings, NEW lo \in Nat, NEW hi \in Nat, Tells(t, lo, hi), JournalInv, Commit
    PROVE  \E t2 \in Strings : Tells(t2, lo, hi + 1)'
<1> DEFINE x == t[hi]
           e == [pos |-> End(x), homes |-> {}, revokes |-> {}, split |-> FALSE]
           t2 == [t EXCEPT ![hi + 1] = e]
           P == Place(x, Size(x))
           n == hi + 1
<1>1. /\ ~crashed /\ writing # Idle /\ writing.todo = {}
      /\ UNCHANGED <<layoutOK, reader, crashed, damage, start, startseq, home, count>>
      /\ log' = [log EXCEPT ![After(head, writing.len - 1)] =
                    LogBlock("commit", writing.seq, << >>, {}, Logged(0))]
      /\ live' = Append(live, [homes |-> writing.homes, revokes |-> writing.revokes,
                               len |-> writing.len])
      /\ head' = After(head, writing.len)
      /\ released' = (released \cup writing.revokes) \ writing.homes
      /\ store' = [b \in Homes |-> IF b \in writing.homes THEN Value(2 * count - 1, b)
                                   ELSE IF b \in writing.revokes THEN home[b] ELSE store[b]]
      /\ writing' = Idle
  BY DEF Commit, Running
<1>2. /\ WriterIs(t, lo, hi) /\ Strung(t, lo, hi) /\ LogHolds(t, lo, hi) /\ Values(t, lo, hi)
      /\ log \in [Positions -> LogBlocks]
      /\ lo \in 1..hi /\ hi \in Nat \ {0} /\ Span \in Nat \ {0}
      /\ x \in Record /\ Size(x) \in Nat \ {0} /\ x.pos \in Nat
      /\ \A j \in 1..Size(x) : Place(x, j) \in Positions
  BY <1>1, RunningFacts
<1>3. /\ hi = count /\ start # 0 /\ End(x) - t[lo].pos < Span /\ Underway(x, hi)
      /\ Len(live) = hi - lo /\ \A i \in 1..(hi - lo) : live[i] = Kin(t[lo + i - 1])
      /\ head = Ring(x.pos)
      /\ \A b \in released, k \in lo..(hi - 1) : ~Standing(t, hi, b, k)
  BY <1>1, <1>2 DEF WriterIs
<1>4. /\ writing.seq = SeqAt(hi) /\ writing.homes = x.homes /\ writing.revokes = x.revokes
      /\ writing.len = Size(x)
      /\ \A j \in 1..(Size(x) - 1) : log[Place(x, j)] = BlockOf(x, hi, j)
  BY <1>1, <1>3 DEF Underway
<1>5. End(x) \in Nat /\ End(x) = x.pos + Size(x) /\ t[lo].pos \in Nat /\ t[lo].pos <= x.pos
  <2>1. hi \in lo..hi
    BY <1>2
  <2> QED BY <1>2, <2>1, StringFacts DEF End
<1>6. e \in Record /\ e.pos = End(x) /\ e.homes = {} /\ e.revokes = {}
  BY <1>5 DEF Record
<1> HIDE DEF e
<1>7. /\ n \in Nat /\ t2 \in Strings /\ t2[n] = e /\ \A k \in Nat : k # n => t2[k] = t[k]
      /\ t2[hi] = x /\ t2[lo] = t[lo]
  <2>1. n \in Nat /\ hi # n /\ lo # n
    BY <1>2
  <2> QED BY <1>2, <1>6, <2>1 DEF Strings
<1> HIDE DEF t2
<1>8. Size(e) = 1 /\ End(e) = End(x) + 1
  <2>1. Size(e) = 1
    BY <1>6, EmptyRecord
  <2> QED BY <1>6, <2>1 DEF End
<1>9. After(head, writing.len - 1) = P /\ head' = Ring(e.pos)
  <2>1. \A m \in Nat : After(Ring(x.pos), m) = Ring(x.pos + m)
    BY <1>2, RingFacts
  <2>2. Size(x) - 1 \in Nat /\ Size(x) \in Nat
    BY <1>2
  <2>3. After(head, Size(x) - 1) = P
    BY <1>3, <2>1, <2>2 DEF Place
  <2>4. After(head, Size(x)) = Ring(End(x))
    BY <1>3, <1>5, <2>1, <2>2
  <2> QED BY <1>1, <1>4, <1>6, <2>3, <2>4
<1>10. log' = [log EXCEPT ![P] = CommitOf(hi)]
  BY <1>1, <1>4, <1>9 DEF CommitOf
<1>11. P \in Positions /\ log'[P] = CommitOf(hi) /\ \A p \in Positions : p # P => log'[p] = log[p]
  <2>1. P \in Positions
    BY <1>2
  <2> HIDE DEF P
  <2> QED BY <1>2, <1>10, <2>1
<1>12. ASSUME NEW k \in lo..hi, NEW i \in 1..Size(t[k]), Place(t[k], i) = P
       PROVE  k = hi /\ i = Size(x)
  <2>1. hi \in lo..hi /\ Size(x) \in 1..Size(x)
    BY <1>2
  <2> QED BY <1>2, <1>12, <2>1, OwnPlaces
<1>13. ASSUME NEW k \in lo..hi, NEW i \in 1..Size(t[k]) PROVE Place(t[k], i) \in Positions
  <2>1. t[k].pos \in Nat /\ Size(t[k]) \in Nat
    BY <1>2, StringFacts
  <2>2. t[k].pos + (i - 1) \in Nat
    BY <2>1
  <2> QED BY <2>2, RingFacts DEF Place
<1> HIDE DEF P
<1>14. Strung(t2, lo, n)
  <2>1. ASSUME NEW k \in 1..(n - 1) PROVE t2[k + 1].pos = End(t2[k])
    <3>1. CASE k = hi
      BY <1>6, <1>7, <3>1
    <3>2. CASE k # hi
      <4>1. k \in 1..(hi - 1) /\ k # n /\ k + 1 # n /\ k \in Nat /\ k + 1 \in Nat
        BY <1>2, <3>2
      <4>2. t[k + 1].pos = End(t[k])
        BY <1>2, <4>1 DEF Strung
      <4> QED BY <1>7, <4>1, <4>2
    <3> QED BY <3>1, <3>2
  <2>2. ASSUME NEW i \in 1..n, NEW j \in 1..n, i < j PROVE End(t2[i]) + (j - i - 1) <= t2[j].pos
    <3>0. i \in 1..hi /\ i # n /\ i \in Nat /\ j \in Nat /\ t2[i] = t[i] /\ End(t[i]) \in Nat
      <4>1. i \in 1..hi /\ i # n /\ i \in Nat /\ j \in Nat
        BY <1>2, <2>2
      <4>2. t[i].pos \in Nat /\ Size(t[i]) \in Nat
        BY <1>2, <4>1, StringFacts
      <4> QED BY <1>7, <4>1, <4>2 DEF End
    <3>1. CASE j = n
      <4>0. t2[j].pos = End(x)
        BY <1>6, <1>7, <3>1
      <4>1. CASE i = hi
        BY <1>2, <1>5, <3>0, <3>1, <4>0, <4>1
      <4>2. CASE i # hi
        <5>1. i < hi /\ hi \in 1..hi
          BY <1>2, <3>0, <4>2
        <5>2. End(t[i]) + (hi - i - 1) <= x.pos
          BY <1>2, <3>0, <5>1 DEF Strung
        <5> QED BY <1>2, <1>5, <3>0, <3>1, <4>0, <5>2
      <4> QED BY <4>1, <4>2
    <3>2. CASE j # n
      <4>1. j \in 1..hi
        BY <1>2, <3>2
      <4>2. End(t[i]) + (j - i - 1) <= t[j].pos
        BY <1>2, <2>2, <3>0, <4>1 DEF Strung
      <4> QED BY <1>7, <3>0, <3>2, <4>2
    <3> QED BY <3>1, <3>2
  <2>3. ASSUME NEW k \in 1..n PROVE t2[k].homes \cap t2[k].revokes = {}
    <3>1. CASE k = n
      BY <1>6, <1>7, <3>1
    <3>2. CASE k # n
      <4>1. k \in 1..hi /\ k \in Nat
        BY <1>2, <3>2
      <4>2. t[k].homes \cap t[k].revokes = {}
        BY <1>2, <4>1 DEF Strung
      <4> QED BY <1>7, <3>2, <4>1, <4>2
    <3> QED BY <3>1, <3>2
  <2>4. End(t2[n]) - t2[lo].pos <= Span
    BY <1>2, <1>3, <1>5, <1>7, <1>8
  <2>5. 1 <= lo /\ lo <= n
    BY <1>2
  <2> HIDE DEF n
  <2> QED BY <2>1, <2>2, <2>3, <2>4, <2>5 DEF Strung
<1>15. LogHolds(t2, lo, n)'
  <2>1. ASSUME NEW k \in lo..(n - 1), NEW j \in 1..Size(t2[k])
        PROVE  log'[Place(t2[k], j)] = BlockOf(t2[k], k, j)
    <3>1. k \in lo..hi /\ t2[k] = t[k] /\ k \in Nat
      <4>1. k \in lo..hi /\ k \in Nat /\ k # n
        BY <1>2
      <4> QED BY <1>7, <4>1
    <3>2. CASE Place(t[k], j) = P
      <4>1. k = hi /\ j = Size(x)
        BY <1>12, <3>1, <3>2
      <4>2. BlockOf(t[k], k, j) = CommitOf(hi)
        BY <1>2, <4>1 DEF BlockOf
      <4> QED BY <1>11, <3>1, <3>2, <4>2
    <3>3. CASE Place(t[k], j) # P
      <4>1. log'[Place(t[k], j)] = log[Place(t[k], j)]
        BY <1>11, <1>13, <3>1, <3>3
      <4>2. CASE k = hi
        <5>1. j # Size(x)
          BY <3>3, <4>2 DEF P
        <5>2. j \in 1..(Size(x) - 1)
          BY <1>2, <3>1, <4>2, <5>1
        <5> QED BY <1>4, <3>1, <4>1, <4>2, <5>2
      <4>3. CASE k # hi
        <5>1. k \in lo..(hi - 1)
          BY <1>2, <3>1, <4>3
        <5> QED BY <1>2, <3>1, <4>1, <5>1 DEF LogHolds
      <4> QED BY <4>2, <4>3
    <3> QED BY <3>2, <3>3
  <2>2. ASSUME NEW p \in Positions, log'[p].kind \in Headers
        PROVE  \E k \in 1..n : \E j \in 1..Size(t2[k]) :
                  /\ p = Place(t2[k], j) /\ log'[p].seq = SeqAt(k)
                  /\ t2[n].pos <= t2[k].pos + (j - 1) + Span
                  /\ k = n => j < Size(t2[k]) /\ log'[p] = BlockOf(t2[k], k, j)
    <3>0. t2[n].pos = End(x)
      BY <1>6, <1>7
    <3> SUFFICES \E k \in 1..hi : \E j \in 1..Size(t[k]) :
                  /\ p = Place(t[k], j) /\ log'[p].seq = SeqAt(k)
                  /\ End(x) <= t[k].pos + (j - 1) + Span
      <4>1. \A k \in 1..hi : k \in 1..n /\ k # n /\ t2[k] = t[k]
        <5>1. \A k \in 1..hi : k \in 1..n /\ k # n /\ k \in Nat
          BY <1>2
        <5> QED BY <1>7, <5>1
      <4> HIDE DEF n, x
      <4> QED BY <3>0, <4>1
    <3>1. CASE p = P
      <4>1. log'[p].seq = SeqAt(hi) /\ p = Place(x, Size(x))
        BY <1>11, <3>1 DEF CommitOf, LogBlock, P
      <4>2. hi \in 1..hi /\ Size(x) \in 1..Size(x) /\ End(x) <= x.pos + (Size(x) - 1) + Span
        BY <1>2, <1>5
      <4> QED BY <4>1, <4>2
    <3>2. CASE p # P
      <4>1. log'[p] = log[p]
        BY <1>11, <3>2
      <4>2. PICK k \in 1..hi : \E j \in 1..Size(t[k]) :
               /\ p = Place(t[k], j) /\ log[p].seq = SeqAt(k)
               /\ t[hi].pos <= t[k].pos + (j - 1) + Span
        BY <1>2, <2>2, <4>1 DEF LogHolds
      <4>3. PICK j \in 1..Size(t[k]) :
               /\ p = Place(t[k], j) /\ log[p].seq = SeqAt(k)
               /\ t[hi].pos <= t[k].pos + (j - 1) + Span
        BY <4>2
      <4>4. CASE End(x) <= t[k].pos + (j - 1) + Span
        BY <4>1, <4>3, <4>4
      <4>5. CASE ~(End(x) <= t[k].pos + (j - 1) + Span)
        <5> DEFINE v == t[k].pos + (j - 1)
                   i == v + Span - x.pos + 1
        <5>0. v \in Nat
          <6>1. t[k].pos \in Nat /\ Size(t[k]) \in Nat
            BY <1>2, StringFacts
          <6> QED BY <6>1
        <5>1. Ring(v + Span) = p
          BY <4>3, <5>0, RingFacts DEF Place
        <5>2. x.pos <= v + Span /\ v + Span < End(x)
          BY <1>2, <1>5, <4>3, <4>5, <5>0
        <5> HIDE DEF v
        <5>3. i \in 1..Size(x) /\ v + Span = x.pos + (i - 1)
          BY <1>2, <1>5, <5>0, <5>2
        <5> HIDE DEF i
        <5>4. p = Place(x, i)
          BY <5>1, <5>3 DEF Place
        <5>5. i # Size(x)
          BY <3>2, <5>4 DEF P
        <5>6. i \in 1..(Size(x) - 1)
          BY <1>2, <5>3, <5>5
        <5>7. log[p] = BlockOf(x, hi, i)
          BY <1>4, <5>4, <5>6
        <5>8. log[p].seq = SeqAt(hi)
          BY <1>2, <2>2, <4>1, <5>6, <5>7, HeadersAreOwn
        <5>9. End(x) <= x.pos + (i - 1) + Span /\ hi \in 1..hi
          <6> DEFINE a == x.pos
                     s == Size(x)
                     b == t[lo].pos
          <6>1. /\ a \in Nat /\ s \in Nat /\ b \in Nat /\ Span \in Nat /\ i \in 1..s
                /\ End(x) = a + s /\ b <= a /\ (a + s) - b < Span
            BY <1>2, <1>3, <1>5, <5>3
          <6> HIDE DEF a, s, b
          <6>2. a + s <= a + (i - 1) + Span
            BY <6>1
          <6> QED BY <1>2, <6>1, <6>2 DEF a
        <5> QED BY <4>1, <5>3, <5>4, <5>8, <5>9
      <4> QED BY <4>4, <4>5
    <3> QED BY <3>1, <3>2
  <2>3. IF start' = 0 THEN lo = n ELSE start' = Ring(t2[lo].pos) /\ startseq' = SeqAt(lo)
    BY <1>1, <1>2, <1>3, <1>7 DEF LogHolds
  <2> HIDE DEF n
  <2> QED BY <2>1, <2>2, <2>3 DEF LogHolds
<1>16. ASSUME NEW b, NEW k \in lo..(n - 1)
       PROVE  Standing(t2, n, b, k) <=>
                IF k = hi THEN b \in x.homes ELSE Standing(t, hi, b, k) /\ ~Mentions(x, b)
  <2>0. k \in Nat /\ k # n /\ t2[k] = t[k] /\ k \in lo..hi
    <3>1. k \in Nat /\ k # n /\ k \in lo..hi
      BY <1>2
    <3> QED BY <1>7, <3>1
  <2>1. CASE k = hi
    <3>1. \A q \in (k + 1)..(n - 1) : FALSE
      BY <1>2, <2>1
    <3> QED BY <1>7, <2>1, <3>1 DEF Standing
  <2>2. CASE k # hi
    <3>1. \A q : q \in (k + 1)..(n - 1) <=> (q \in (k + 1)..(hi - 1) \/ q = hi)
      BY <1>2, <2>0, <2>2
    <3>2. \A q \in (k + 1)..(n - 1) : t2[q] = t[q]
      <4>1. \A q \in (k + 1)..(n - 1) : q \in Nat /\ q # n
        BY <1>2, <2>0
      <4> QED BY <1>7, <4>1
    <3> HIDE DEF n
    <3> QED BY <2>0, <2>2, <3>1, <3>2 DEF Standing
  <2> QED BY <2>1, <2>2
<1>17. \A k \in lo..(hi - 1) : k \in lo..(n - 1) /\ k # hi
  BY <1>2
<1>18. hi \in lo..(n - 1) /\ \A k \in lo..(n - 1) : k = hi \/ k \in lo..(hi - 1)
  BY <1>2
<1>19. Values(t2, lo, n)'
  <2> SUFFICES ASSUME NEW b \in Homes
               PROVE  /\ \A k \in lo..(n - 1) : Standing(t2, n, b, k) => store'[b] = Value(2 * k - 1, b)
                      /\ (\A k \in lo..(n - 1) : ~Standing(t2, n, b, k)) => home'[b] = store'[b]
    BY DEF Values
  <2>0. store'[b] = IF b \in x.homes THEN Value(2 * hi - 1, b)
                    ELSE IF b \in x.revokes THEN home[b] ELSE store[b]
    BY <1>1, <1>3, <1>4
  <2>1. CASE b \in x.homes
    <3>1. Mentions(x, b)
      BY <2>1 DEF Mentions
    <3>2. \A k \in lo..(n - 1) : Standing(t2, n, b, k) => k = hi
      BY <1>16, <3>1
    <3>3. Standing(t2, n, b, hi)
      BY <1>16, <1>18, <2>1
    <3> QED BY <1>18, <2>0, <2>1, <3>2, <3>3
  <2>2. CASE b \notin x.homes /\ b \in x.revokes
    <3>1. Mentions(x, b)
      BY <2>2 DEF Mentions
    <3>2. \A k \in lo..(n - 1) : ~Standing(t2, n, b, k)
      BY <1>16, <2>2, <3>1
    <3> QED BY <1>1, <2>0, <2>2, <3>2
  <2>3. CASE b \notin x.homes /\ b \notin x.revokes
    <3>1. ~Mentions(x, b)
      BY <2>3 DEF Mentions
    <3>2. \A k \in lo..(n - 1) : Standing(t2, n, b, k) => k \in lo..(hi - 1) /\ Standing(t, hi, b, k)
      BY <1>16, <1>18, <2>3
    <3>3. \A k \in lo..(hi - 1) : Standing(t, hi, b, k) => k \in lo..(n - 1) /\ Standing(t2, n, b, k)
      BY <1>16, <1>17, <3>1
    <3>4. store'[b] = store[b] /\ home'[b] = home[b]
      BY <1>1, <2>0, <2>3
    <3> HIDE DEF n
    <3>5. \A k \in lo..(n - 1) : Standing(t2, n, b, k) => store'[b] = Value(2 * k - 1, b)
      BY <1>2, <3>2, <3>4 DEF Values
    <3>6. (\A k \in lo..(n - 1) : ~Standing(t2, n, b, k)) => home'[b] = store'[b]
      BY <1>2, <3>3, <3>4 DEF Values
    <3> QED BY <3>5, <3>6
  <2> QED BY <2>1, <2>2, <2>3
<1>20. WriterIs(t2, lo, n)'
  <2> DEFINE c == [homes |-> writing.homes, revokes |-> writing.revokes, len |-> writing.len]
  <2>1. c = Kin(x)
    BY <1>4 DEF Kin
  <2>2. live \in Seq(Logging) /\ c \in Logging
    <3>1. live \in Seq(Logging) /\ writing \in Unlogged
      BY DEF JournalInv, WriterTypeOK
    <3> QED BY <3>1 DEF Logging, Unlogged
  <2>3. /\ Len(live') = Len(live) + 1
        /\ \A i \in 1..Len(live) : live'[i] = live[i]
        /\ live'[Len(live) + 1] = c
    <3> HIDE DEF c
    <3>1. live' = Append(live, c)
      BY <1>1 DEF c
    <3> QED BY <2>2, <3>1, AppendProperties
  <2>4. Len(live') = n - lo
    BY <1>2, <1>3, <2>3
  <2>5. ASSUME NEW i \in 1..(n - lo) PROVE live'[i] = Kin(t2[lo + i - 1])
    <3>1. CASE i = n - lo
      <4>1. i = Len(live) + 1 /\ lo + i - 1 = hi
        BY <1>2, <1>3, <3>1
      <4> QED BY <1>7, <2>1, <2>3, <4>1
    <3>2. CASE i # n - lo
      <4>1. i \in 1..(hi - lo) /\ lo + i - 1 # n /\ lo + i - 1 \in Nat
        BY <1>2, <3>2
      <4>2. live'[i] = live[i] /\ live[i] = Kin(t[lo + i - 1])
        BY <1>3, <2>3, <4>1
      <4> DEFINE l == lo + i - 1
      <4>3. l \in Nat /\ l # n
        BY <4>1
      <4> HIDE DEF l
      <4>4. t2[l] = t[l]
        BY <1>7, <4>3
      <4> QED BY <4>2, <4>4 DEF l
    <3> QED BY <3>1, <3>2
  <2>6. ASSUME NEW b \in released', NEW k \in lo..(n - 1) PROVE ~Standing(t2, n, b, k)
    <3>1. b \notin x.homes /\ (b \in released \/ b \in x.revokes)
      BY <1>1, <1>4, <2>6
    <3>2. b \in x.revokes => Mentions(x, b)
      BY DEF Mentions
    <3>3. k # hi => k \in lo..(hi - 1)
      BY <1>18
    <3> QED BY <1>3, <1>16, <3>1, <3>2, <3>3
  <2>7. n = count' + 1 /\ t2[n].homes = {} /\ t2[n].revokes = {} /\ head' = Ring(t2[n].pos)
    BY <1>1, <1>3, <1>6, <1>7, <1>9
  <2> HIDE DEF n, c
  <2> QED BY <1>1, <2>4, <2>5, <2>6, <2>7 DEF WriterIs
<1>21. Tells(t2, lo, n)'
  <2> HIDE DEF n
  <2> QED BY <1>1, <1>14, <1>15, <1>19, <1>20 DEF Tells
<1> QED
  BY <1>7, <1>21

\* What is written at home past the log is of a block no transaction in it stands for, and
\* what is written from the log is what stands.
LEMMA HomeWritesTell ==
    ASSUME NEW t \in Strings, NEW lo \in Nat, NEW hi \in Nat, Tells(t, lo, hi), JournalInv,
           WriteDirectly \/ Checkpoint
    PROVE  Tells(t, lo, hi)'
<1>1. /\ ~crashed /\ UNCHANGED <<layoutOK, reader, crashed, damage>>
      /\ UNCHANGED <<log, start, startseq, live, writing, head, count, released>>
  BY DEF WriteDirectly, Checkpoint, Running
<1>2. WriterIs(t, lo, hi) /\ Strung(t, lo, hi) /\ LogHolds(t, lo, hi) /\ Values(t, lo, hi)
  BY <1>1, RunningFacts
<1>3. home \in [Homes -> Contents] /\ store \in [Homes -> Contents] /\ released \subseteq Homes
  BY DEF JournalInv, WriterTypeOK
<1>4. LogHolds(t, lo, hi)' /\ WriterIs(t, lo, hi)'
  <2>1. LogHolds(t, lo, hi)'
    BY <1>1, <1>2 DEF LogHolds
  <2>2. WriterIs(t, lo, hi)'
    BY <1>1, <1>2 DEF WriterIs, Underway
  <2> QED BY <2>1, <2>2
<1>5. Values(t, lo, hi)'
  <2>1. CASE WriteDirectly
    <3>1. PICK b \in released : /\ home' = [home EXCEPT ![b] = Value(2 * count, b)]
                                /\ store' = [store EXCEPT ![b] = home'[b]]
      BY <2>1 DEF WriteDirectly
    <3>2. \A k \in lo..(hi - 1) : ~Standing(t, hi, b, k)
      BY <1>2 DEF WriterIs
    <3>3. b \in Homes /\ store'[b] = home'[b]
          /\ \A c \in Homes : c # b => home'[c] = home[c] /\ store'[c] = store[c]
      BY <1>3, <3>1
    <3> QED BY <1>2, <3>2, <3>3 DEF Values
  <2>2. CASE Checkpoint
    <3>1. PICK b \in Homes : home' = [home EXCEPT ![b] = store[b]]
      BY <2>2 DEF Checkpoint
    <3>2. store' = store
      BY <2>2 DEF Checkpoint
    <3>3. home'[b] = store'[b] /\ \A c \in Homes : c # b => home'[c] = home[c]
      BY <1>3, <3>1, <3>2
    <3> QED BY <1>2, <3>2, <3>3 DEF Values
  <2> QED BY <2>1, <2>2
<1> QED
  BY <1>1, <1>2, <1>4, <1>5 DEF Tells

\* The tail moves past a transaction nothing is needed from.
LEMMA AdvanceTells ==
    ASSUME NEW t \in Strings, NEW lo \in Nat, NEW hi \in Nat, Tells(t, lo, hi), JournalInv,
           AdvanceTail, 0 < First
    PROVE  Tells(t, lo + 1, hi)'
<1> DEFINE x == t[lo]
           n == lo + 1
<1>1. /\ ~crashed /\ UNCHANGED <<layoutOK, reader, crashed, damage>>
      /\ live # << >>
      /\ \A b \in Head(live).homes :
            \/ b \in released \/ home[b] = store[b]
            \/ \E i \in 2..Len(live) : b \in live[i].homes \cup live[i].revokes
      /\ start' = After(start, Head(live).len)
      /\ startseq' = (startseq + 1) % SeqMod
      /\ live' = Tail(live)
      /\ UNCHANGED <<log, home, writing, head, count, released, store>>
  BY DEF AdvanceTail, Running
<1>2. /\ WriterIs(t, lo, hi) /\ Strung(t, lo, hi) /\ LogHolds(t, lo, hi) /\ Values(t, lo, hi)
      /\ lo \in 1..hi /\ hi \in Nat \ {0} /\ Span \in Nat \ {0} /\ t[hi].pos \in Nat
  BY <1>1, RunningFacts
<1>3. /\ Len(live) = hi - lo /\ \A i \in 1..(hi - lo) : live[i] = Kin(t[lo + i - 1])
      /\ \A b \in released, k \in lo..(hi - 1) : ~Standing(t, hi, b, k)
  BY <1>2 DEF WriterIs
<1>4. live \in Seq(Logging)
  BY DEF JournalInv, WriterTypeOK
<1>5. /\ Head(live) = live[1] /\ Len(live) \in Nat \ {0} /\ Len(Tail(live)) = Len(live) - 1
      /\ \A i \in 1..(Len(live) - 1) : Tail(live)[i] = live[i + 1]
  <2>1. /\ Len(Tail(live)) = Len(live) - 1 /\ Head(live) = live[1] /\ Len(live) \in Nat \ {0}
        /\ \A i \in 1..Len(Tail(live)) : Tail(live)[i] = live[i + 1]
    BY <1>1, <1>4, HeadTailProperties
  <2> QED BY <2>1
<1>6. lo < hi /\ n \in Nat /\ n \in 1..hi /\ lo \in 1..(hi - 1)
  BY <1>2, <1>3, <1>5
<1>7. Head(live) = Kin(x)
  <2>1. 1 \in 1..(hi - lo) /\ lo + 1 - 1 = lo
    BY <1>2, <1>6
  <2>2. live[1] = Kin(t[lo + 1 - 1])
    BY <1>3, <2>1
  <2> QED BY <1>5, <2>1, <2>2
<1>8. /\ t[n].pos = End(x) /\ End(x) = x.pos + Size(x) /\ x.pos \in Nat /\ Size(x) \in Nat \ {0}
      /\ t[n].pos \in Nat /\ End(t[hi]) \in Nat
  <2>1. t[lo + 1].pos = End(t[lo])
    BY <1>2, <1>6 DEF Strung
  <2>2. End(x) = x.pos + Size(x) /\ x.pos \in Nat /\ Size(x) \in Nat \ {0}
        /\ End(t[hi]) = t[hi].pos + Size(t[hi]) /\ Size(t[hi]) \in Nat
    BY <1>2, <1>6, StringFacts
  <2> QED BY <1>2, <2>1, <2>2
<1>9. start # 0 /\ start = Ring(x.pos) /\ startseq = SeqAt(lo)
  BY <1>2, <1>6 DEF LogHolds
<1>10. start' = Ring(t[n].pos) /\ startseq' = SeqAt(n) /\ start' # 0
  <2>1. start' = After(Ring(x.pos), Size(x))
    BY <1>1, <1>7, <1>9 DEF Kin
  <2>2. \A m \in Nat : After(Ring(x.pos), m) = Ring(x.pos + m)
    BY <1>8, RingFacts
  <2>3. start' = Ring(t[n].pos)
    BY <1>8, <2>1, <2>2
  <2>4. Ring(t[n].pos) \in Positions
    BY <1>8, RingFacts
  <2>5. \A r \in Positions : r # 0
    BY RingAssumption DEF Positions
  <2>6. (SeqAt(lo) + 1) % SeqMod = SeqAt(lo + 1)
    BY <1>6, SeqFacts
  <2> QED BY <1>1, <1>9, <2>3, <2>4, <2>5, <2>6
<1> HIDE DEF n
<1>11. n \in Nat /\ n = lo + 1
  BY <1>2 DEF n
<1>12. Strung(t, n, hi)
  <2>1. End(t[hi]) - x.pos <= Span /\ 1 <= n /\ n <= hi
    BY <1>2, <1>6 DEF Strung
  <2>2. End(t[hi]) - t[n].pos <= Span
    BY <1>2, <1>8, <2>1
  <2> QED BY <1>2, <2>1, <2>2 DEF Strung
<1>13. LogHolds(t, n, hi)'
  <2>1. \A k \in n..(hi - 1) : k \in lo..(hi - 1)
    BY <1>2, <1>11
  <2> QED BY <1>1, <1>2, <1>10, <2>1 DEF LogHolds
<1>14. Values(t, n, hi)'
  <2> SUFFICES ASSUME NEW b \in Homes
               PROVE  /\ \A k \in n..(hi - 1) : Standing(t, hi, b, k) => store[b] = Value(2 * k - 1, b)
                      /\ (\A k \in n..(hi - 1) : ~Standing(t, hi, b, k)) => home[b] = store[b]
    BY <1>1 DEF Values
  <2>1. \A k \in n..(hi - 1) : k \in lo..(hi - 1)
    BY <1>2, <1>11
  <2>2. \A k \in lo..(hi - 1) : k = lo \/ k \in n..(hi - 1)
    BY <1>2, <1>11
  <2>3. ASSUME Standing(t, hi, b, lo) PROVE home[b] = store[b]
    <3>1. b \in Head(live).homes
      BY <1>7, <2>3 DEF Standing, Kin
    <3>2. lo \in lo..(hi - 1)
      BY <1>2, <1>6
    <3>3. b \notin released
      BY <1>3, <2>3, <3>2
    <3>4. ASSUME NEW i \in 2..Len(live), b \in live[i].homes \cup live[i].revokes PROVE FALSE
      <4> DEFINE q == lo + i - 1
      <4>1. i \in 1..(hi - lo) /\ q \in (lo + 1)..(hi - 1)
        BY <1>2, <1>3
      <4>2. live[i] = Kin(t[q])
        BY <1>3, <4>1
      <4> HIDE DEF q
      <4>3. Mentions(t[q], b)
        BY <3>4, <4>2 DEF Kin, Mentions
      <4> QED BY <2>3, <4>1, <4>3 DEF Standing
    <3> QED BY <1>1, <3>1, <3>3, <3>4
  <2>4. \A k \in n..(hi - 1) : Standing(t, hi, b, k) => store[b] = Value(2 * k - 1, b)
    BY <1>2, <2>1 DEF Values
  <2>5. ASSUME \A k \in n..(hi - 1) : ~Standing(t, hi, b, k) PROVE home[b] = store[b]
    <3>1. CASE Standing(t, hi, b, lo)
      BY <2>3, <3>1
    <3>2. CASE ~Standing(t, hi, b, lo)
      <4>1. \A k \in lo..(hi - 1) : ~Standing(t, hi, b, k)
        BY <2>2, <2>5, <3>2
      <4> QED BY <1>2, <4>1 DEF Values
    <3> QED BY <3>1, <3>2
  <2> QED BY <2>4, <2>5
<1>15. WriterIs(t, n, hi)'
  <2>1. Len(live') = hi - n
    BY <1>1, <1>2, <1>3, <1>5, <1>11
  <2>2. ASSUME NEW i \in 1..(hi - n) PROVE live'[i] = Kin(t[n + i - 1])
    <3>1. i \in 1..(Len(live) - 1) /\ i + 1 \in 1..(hi - lo) /\ lo + (i + 1) - 1 = n + i - 1
      BY <1>2, <1>3, <1>11
    <3>2. live'[i] = live[i + 1]
      BY <1>1, <1>5, <3>1
    <3>3. live[i + 1] = Kin(t[lo + (i + 1) - 1])
      BY <1>3, <3>1
    <3> QED BY <3>1, <3>2, <3>3
  <2>3. \A b \in released, k \in n..(hi - 1) : ~Standing(t, hi, b, k)
    <3>1. \A k \in n..(hi - 1) : k \in lo..(hi - 1)
      BY <1>2, <1>11
    <3> QED BY <1>3, <3>1
  <2>4. CASE writing = Idle
    BY <1>1, <1>2, <2>1, <2>2, <2>3, <2>4 DEF WriterIs
  <2>5. CASE writing # Idle
    <3>1. hi = count /\ start # 0 /\ End(t[hi]) - t[lo].pos < Span /\ Underway(t[hi], hi)
          /\ head = Ring(t[hi].pos)
      BY <1>2, <2>5 DEF WriterIs
    <3>2. End(t[hi]) - t[n].pos < Span
      BY <1>2, <1>8, <3>1
    <3>3. Underway(t[hi], hi)'
      BY <1>1, <3>1 DEF Underway
    <3> QED BY <1>1, <1>10, <2>1, <2>2, <2>3, <2>5, <3>1, <3>2, <3>3 DEF WriterIs
  <2> QED BY <2>4, <2>5
<1>16. Tells(t, n, hi)'
  BY <1>1, <1>12, <1>13, <1>14, <1>15 DEF Tells
<1> QED
  BY <1>16 DEF n

\* An empty log is marked so.
LEMMA MarkTells ==
    ASSUME NEW t \in Strings, NEW lo \in Nat, NEW hi \in Nat, Tells(t, lo, hi), JournalInv, MarkEmpty
    PROVE  Tells(t, lo, hi)'
<1>1. /\ ~crashed /\ UNCHANGED <<layoutOK, reader, crashed, damage>>
      /\ live = << >> /\ writing = Idle /\ start' = 0
      /\ UNCHANGED <<log, startseq, home, live, writing, head, count, released, store>>
  BY DEF MarkEmpty, Running, writer
<1>2. /\ WriterIs(t, lo, hi) /\ Strung(t, lo, hi) /\ LogHolds(t, lo, hi) /\ Values(t, lo, hi)
      /\ lo \in 1..hi /\ hi \in Nat
  BY <1>1, RunningFacts
<1>3. lo = hi
  <2>1. Len(live) = hi - lo
    BY <1>2 DEF WriterIs
  <2>2. hi - lo = 0
    BY <1>1, <2>1
  <2> QED BY <1>2, <2>2
<1>4. LogHolds(t, lo, hi)'
  BY <1>1, <1>2, <1>3 DEF LogHolds
<1>5. Values(t, lo, hi)'
  BY <1>1, <1>2 DEF Values
<1>6. WriterIs(t, lo, hi)'
  BY <1>1, <1>2 DEF WriterIs
<1> QED
  BY <1>1, <1>2, <1>4, <1>5, <1>6 DEF Tells

\* What the log tells is there when the machine has stopped.
LEMMA CrashTells ==
    ASSUME NEW t \in Strings, NEW lo \in Nat, NEW hi \in Nat, Tells(t, lo, hi), JournalInv, Crash
    PROVE  Tells(t, lo, hi)'
<1>1. ~crashed /\ crashed' /\ UNCHANGED <<log, start, startseq, layoutOK, home, store>>
      /\ UNCHANGED <<phase, plan, outcome>>
  BY DEF Crash, disk, reader
<1>2. /\ Strung(t, lo, hi) /\ LogHolds(t, lo, hi) /\ Values(t, lo, hi)
      /\ phase = "closed" /\ layoutOK
  BY <1>1, RunningFacts
<1>3. outcome = "none" /\ plan = NoPlan
  BY <1>2 DEF JournalInv, Kept, Laying, Unopened
<1>4. LogHolds(t, lo, hi)' /\ Values(t, lo, hi)'
  BY <1>1, <1>2 DEF LogHolds, Values
<1>5. ReaderIs(t, lo, hi)'
  BY <1>1, <1>2, <1>3 DEF ReaderIs, NoPlan
<1> QED
  BY <1>1, <1>2, <1>4, <1>5 DEF Tells

-----------------------------------------------------------------------------
\* The reader finds what is told.

\* What it stands on once the machine has stopped.
LEMMA StoppedFacts ==
    ASSUME NEW t \in Strings, NEW lo \in Nat, NEW hi \in Nat, Tells(t, lo, hi), JournalInv, crashed
    PROVE  /\ Strung(t, lo, hi) /\ LogHolds(t, lo, hi) /\ Values(t, lo, hi)
           /\ layoutOK /\ ReaderIs(t, lo, hi) /\ ReaderTypeOK /\ Kept
           /\ lo \in 1..hi /\ hi \in Nat \ {0} /\ Span \in Nat \ {0}
<1>1. /\ Strung(t, lo, hi) /\ LogHolds(t, lo, hi) /\ Values(t, lo, hi)
      /\ layoutOK /\ ReaderIs(t, lo, hi) /\ ReaderTypeOK /\ Kept
  BY DEF Tells, JournalInv
<1> QED
  BY <1>1, StringFacts

\* The reader leaves the log and the homes as they are.
LEMMA ReaderTells ==
    ASSUME NEW t \in Strings, NEW lo \in Nat, NEW hi \in Nat, Tells(t, lo, hi), crashed, crashed',
           UNCHANGED disk, UNCHANGED store, ReaderIs(t, lo, hi)'
    PROVE  Tells(t, lo, hi)'
<1>1. UNCHANGED <<log, start, startseq, layoutOK, home, store>>
  BY DEF disk
<1>2. LogHolds(t, lo, hi)' /\ Values(t, lo, hi)'
  BY <1>1 DEF Tells, LogHolds, Values
<1> QED
  BY <1>1, <1>2 DEF Tells

\* It starts at the oldest transaction.
LEMMA OpenTells ==
    ASSUME NEW t \in Strings, NEW lo \in Nat, NEW hi \in Nat, Tells(t, lo, hi), JournalInv, crashed, Open
    PROVE  ReaderIs(t, lo, hi)'
<1>1. /\ LogHolds(t, lo, hi) /\ Kept /\ lo \in 1..hi /\ hi \in Nat \ {0}
      /\ \A k \in Nat : t[k] \in Record /\ t[k].pos \in Nat /\ Size(t[k]) \in Nat \ {0}
  BY StoppedFacts, StringFacts
<1>2. phase = "closed" /\ visited' = 0 /\ committed' = << >> /\ plan' = NoPlan /\ outcome' = "none"
  BY <1>1 DEF Open, Kept, Unopened, Laying
<1>3. FoundUpTo(t, lo, lo)'
  <2>1. Len(committed') = lo - lo /\ \A i \in 1..(lo - lo) : FALSE
    BY <1>1, <1>2
  <2> QED BY <2>1 DEF FoundUpTo
<1>4. CASE start = 0
  <2>1. lo = hi
    BY <1>1, <1>4 DEF LogHolds
  <2>2. phase' = "installing"
    BY <1>4 DEF Open
  <2> QED BY <1>2, <1>3, <2>1, <2>2 DEF ReaderIs, NoPlan
<1>5. CASE start # 0
  <2>1. start = Ring(t[lo].pos) /\ startseq = SeqAt(lo)
    BY <1>1, <1>5 DEF LogHolds
  <2>2. phase' = "scanning" /\ at' = start /\ current' = EmptyTransaction(startseq)
    BY <1>5 DEF Open
  <2>3. /\ current'.seq = SeqAt(lo) /\ current'.revokes = {} /\ Len(current'.tags) = 0
        /\ \A i \in 1..0 : FALSE
    BY <2>1, <2>2 DEF EmptyTransaction
  <2>4. t[lo].pos + 0 = t[lo].pos /\ t[lo].pos + 0 - t[lo].pos = 0
        /\ 0 \in 0..(Size(t[lo]) - 1) /\ 0 \in 0..Many(t[lo]) /\ 0 \in Nat /\ lo \in lo..hi
    <3>1. t[lo] \in Record /\ t[lo].pos \in Nat /\ Size(t[lo]) \in Nat \ {0}
      BY <1>1
    <3>2. Many(t[lo]) \in Nat
      BY <3>1, Counted
    <3> QED BY <1>1, <3>1, <3>2
  <2>5. Between(t[lo], 0, 0)
    BY DEF Between
  <2>6. Amid(t, lo, lo, 0, 0)'
    BY <1>2, <1>3, <2>1, <2>2, <2>3, <2>4, <2>5 DEF Amid
  <2>7. Midway(t, lo, hi)'
    BY <2>4, <2>6 DEF Midway
  <2> QED BY <1>2, <2>2, <2>7 DEF ReaderIs, NoPlan
<1> QED
  BY <1>4, <1>5

\* A log its writer left starts in its ring.
LEMMA OpenNeverFaults ==
    ASSUME NEW t \in Strings, NEW lo \in Nat, NEW hi \in Nat, Tells(t, lo, hi), JournalInv, crashed
    PROVE  ~OpenFaults
<1>1. layoutOK /\ LogHolds(t, lo, hi) /\ lo \in Nat /\ t[lo].pos \in Nat
  BY StoppedFacts, StringFacts
<1>2. start # 0 => start \in Positions
  BY <1>1, RingFacts DEF LogHolds
<1> QED
  BY <1>1, <1>2 DEF OpenFaults

\* A block that is expected is the next of the transaction being read, and where none is the
\* string has come to its end.
LEMMA NextBlock ==
    ASSUME NEW t \in Strings, NEW lo \in Nat, NEW hi \in Nat, Tells(t, lo, hi), JournalInv, crashed,
           0 < First, MaxLen <= SeqMod,
           NEW k \in lo..hi, NEW j \in Nat, NEW m \in Nat, Amid(t, lo, k, j, m)
    PROVE  /\ ~Expected => k = hi
           /\ Expected =>
                \/ /\ j = 0 /\ m = 0 /\ Lead(t[k]) = 1 /\ j < Size(t[k]) - 1
                   /\ Block = RevokeOf(t[k], k)
                \/ /\ j < Size(t[k]) - 1 /\ (j = 0 => Lead(t[k]) = 0)
                   /\ \E names : Block = DescriptorOf(k, names) /\ Next1(t[k], k, j, m, names)
                \/ /\ j = Size(t[k]) - 1 /\ k < hi /\ m = Many(t[k]) /\ Block = CommitOf(k)
                   /\ j = 0 => t[k].revokes = {}
<1> DEFINE x == t[k]
<1>1. /\ Strung(t, lo, hi) /\ LogHolds(t, lo, hi) /\ lo \in 1..hi /\ hi \in Nat \ {0}
      /\ k \in Nat /\ k \in 1..hi /\ x \in Record /\ x.pos \in Nat /\ Size(x) \in Nat \ {0}
  <2>1. lo \in 1..hi /\ hi \in Nat \ {0} /\ Strung(t, lo, hi) /\ LogHolds(t, lo, hi)
    BY StoppedFacts
  <2>2. k \in Nat /\ k \in 1..hi
    BY <2>1
  <2> QED BY <2>1, <2>2, StringFacts
<1>2. /\ j \in 0..(Size(x) - 1) /\ m \in 0..Many(x) /\ Between(x, j, m)
      /\ at = Ring(x.pos + j) /\ current.seq = SeqAt(k)
  BY DEF Amid
<1>3. at = Place(x, j + 1) /\ j + 1 \in 1..Size(x) /\ at \in Positions
  <2>1. (j + 1) - 1 = j /\ j + 1 \in 1..Size(x) /\ x.pos + j \in Nat
    BY <1>1, <1>2
  <2>2. Ring(x.pos + j) \in Positions
    BY <2>1, RingFacts
  <2> QED BY <1>2, <2>1, <2>2 DEF Place
<1>4. ASSUME k < hi PROVE Block = BlockOf(x, k, j + 1)
  <2>1. k \in lo..(hi - 1)
    BY <1>1, <1>4
  <2> QED BY <1>1, <1>3, <2>1 DEF LogHolds, Block
<1>5. ASSUME k = hi, Expected PROVE Block = BlockOf(x, k, j + 1) /\ j + 1 < Size(x)
  <2>1. log[at].kind \in Headers /\ log[at].seq = SeqAt(hi)
    BY <1>2, <1>5 DEF Expected, Block
  <2>2. PICK l \in 1..hi : \E i \in 1..Size(t[l]) :
              /\ at = Place(t[l], i) /\ log[at].seq = SeqAt(l)
              /\ t[hi].pos <= t[l].pos + (i - 1) + Span
              /\ l = hi => i < Size(t[l]) /\ log[at] = BlockOf(t[l], l, i)
    BY <1>1, <1>3, <2>1 DEF LogHolds
  <2>3. PICK i \in 1..Size(t[l]) :
              /\ at = Place(t[l], i) /\ log[at].seq = SeqAt(l)
              /\ t[hi].pos <= t[l].pos + (i - 1) + Span
              /\ l = hi => i < Size(t[l]) /\ log[at] = BlockOf(t[l], l, i)
    BY <2>2
  <2>4. l = hi
    BY <1>1, <2>1, <2>3, OwnHeaders
  <2>5. hi \in lo..hi /\ i \in 1..Size(t[hi])
    BY <1>1, <2>4
  <2>6. i = j + 1
    <3>1. Place(t[hi], i) = Place(t[hi], j + 1) /\ j + 1 \in 1..Size(t[hi])
      BY <1>3, <1>5, <2>3, <2>4
    <3> QED BY <1>1, <2>5, <3>1, OwnPlaces
  <2> QED BY <1>5, <2>3, <2>4, <2>6 DEF Block
<1>6. CASE j < Size(x) - 1
  <2>1. \/ j = 0 /\ m = 0 /\ Lead(x) = 1 /\ BlockOf(x, k, 1) = RevokeOf(x, k)
        \/ (j = 0 => Lead(x) = 0) /\ \E names : Next1(x, k, j, m, names)
    BY <1>1, <1>2, <1>6, RecordFollows
  <2>2. \/ j = 0 /\ m = 0 /\ Lead(x) = 1 /\ BlockOf(x, k, j + 1) = RevokeOf(x, k)
        \/ (j = 0 => Lead(x) = 0) /\ \E names :
              BlockOf(x, k, j + 1) = DescriptorOf(k, names) /\ Next1(x, k, j, m, names)
    <3>1. j = 0 => j + 1 = 1
      OBVIOUS
    <3> QED BY <2>1, <3>1 DEF Next1
  <2>3. BlockOf(x, k, j + 1).kind \in Headers /\ BlockOf(x, k, j + 1).seq = SeqAt(k)
    <3>1. RevokeOf(x, k).kind \in Headers /\ RevokeOf(x, k).seq = SeqAt(k)
      BY DEF RevokeOf, LogBlock, Headers, Kinds
    <3>2. \A names : DescriptorOf(k, names).kind \in Headers /\ DescriptorOf(k, names).seq = SeqAt(k)
      BY DEF DescriptorOf, LogBlock, Headers, Kinds
    <3> QED BY <2>2, <3>1, <3>2
  <2>4. k < hi => Expected
    BY <1>2, <1>4, <2>3 DEF Expected
  <2>5. Expected => Block = BlockOf(x, k, j + 1)
    BY <1>1, <1>4, <1>5
  <2>6. k < hi \/ k = hi
    BY <1>1
  <2> QED BY <1>6, <2>2, <2>4, <2>5, <2>6
<1>7. CASE ~(j < Size(x) - 1)
  <2>1. j = Size(x) - 1
    BY <1>1, <1>2, <1>7
  <2>2. m = Many(x) /\ (j = 0 => x.revokes = {})
    BY <1>1, <1>2, <2>1, RecordsEnd
  <2>3. BlockOf(x, k, j + 1) = CommitOf(k)
    BY <1>1, <2>1 DEF BlockOf
  <2>4. CASE k < hi
    <3>1. CommitOf(k).kind \in Headers /\ CommitOf(k).seq = SeqAt(k)
      BY DEF CommitOf, LogBlock, Headers, Kinds
    <3>2. Expected
      BY <1>2, <1>4, <2>3, <2>4, <3>1 DEF Expected
    <3> QED BY <1>4, <2>1, <2>2, <2>3, <2>4, <3>2
  <2>5. CASE k = hi
    <3>1. ~Expected
      BY <1>1, <1>5, <2>1, <2>5
    <3> QED BY <2>5, <3>1
  <2> QED BY <1>1, <2>4, <2>5
<1> QED
  BY <1>6, <1>7

\* The blocks are sound, name what they should, and are no more than a round.
LEMMA ScanNeverFaults ==
    ASSUME NEW t \in Strings, NEW lo \in Nat, NEW hi \in Nat, Tells(t, lo, hi), JournalInv, crashed,
           0 < First, MaxLen <= SeqMod
    PROVE  ~ScanFaults
<1> SUFFICES ASSUME ScanFaults PROVE FALSE
  OBVIOUS
<1>1. phase = "scanning"
  BY DEF ScanFaults, Scanning
<1>2. PICK k \in lo..hi, j \in Nat, m \in Nat : Amid(t, lo, k, j, m)
  BY <1>1, StoppedFacts DEF ReaderIs, Midway
<1> DEFINE x == t[k]
<1>3. /\ Strung(t, lo, hi) /\ lo \in 1..hi /\ hi \in Nat \ {0} /\ Span \in Nat /\ k \in Nat
      /\ x.pos \in Nat /\ Size(x) \in Nat \ {0} /\ End(x) = x.pos + Size(x) /\ t[lo].pos \in Nat
      /\ End(x) <= t[lo].pos + Span
  <2>1. lo \in 1..hi /\ hi \in Nat \ {0} /\ Strung(t, lo, hi) /\ Span \in Nat
    BY StoppedFacts
  <2>2. k \in Nat
    BY <2>1
  <2> QED BY <2>1, <2>2, StringFacts
<1>4. j \in 0..(Size(x) - 1) /\ visited = x.pos + j - t[lo].pos
  BY <1>2 DEF Amid
<1>5. /\ RevokeOf(x, k).sound /\ RevokeOf(x, k).kind = "revoke"
      /\ CommitOf(k).sound /\ CommitOf(k).kind = "commit"
      /\ \A names : /\ DescriptorOf(k, names).sound /\ DescriptorOf(k, names).kind = "descriptor"
                    /\ DescriptorOf(k, names).names = names
  BY DEF RevokeOf, CommitOf, DescriptorOf, LogBlock
<1>6. ASSUME NEW names, Block = DescriptorOf(k, names), Next1(x, k, j, m, names)
      PROVE  InBudget /\ Holds(Block) /\ Block.names # << >>
  <2>1. Len(names) \in Nat \ {0} /\ j + 1 + Len(names) <= Size(x) - 1
    BY <1>6 DEF Next1
  <2>2. Visits = 1 + Len(names) \/ Visits = 1 + 0
    BY <1>5, <1>6 DEF Visits
  <2>3. visited + Visits <= Span
    <3> DEFINE L == Len(names)
    <3>1. L \in Nat /\ j + 1 + L <= Size(x) - 1 /\ (Visits = 1 + L \/ Visits = 1 + 0)
      BY <2>1, <2>2
    <3> HIDE DEF L, x
    <3> QED BY <1>3, <1>4, <3>1
  <2>4. names # << >>
    BY <2>1
  <2> QED BY <1>5, <1>6, <2>3, <2>4 DEF InBudget, Holds
<1>7. ASSUME Block.kind # "descriptor" \/ ~Expected PROVE InBudget
  <2>1. Visits = 1 + 0
    BY <1>7 DEF Visits
  <2> QED BY <1>3, <1>4, <2>1 DEF InBudget
<1>8. CASE Expected
  <2>1. \/ Block = RevokeOf(x, k)
        \/ \E names : Block = DescriptorOf(k, names) /\ Next1(x, k, j, m, names)
        \/ Block = CommitOf(k)
    BY <1>2, <1>8, NextBlock
  <2>2. CASE \E names : Block = DescriptorOf(k, names) /\ Next1(x, k, j, m, names)
    BY <1>6, <2>2 DEF ScanFaults
  <2>3. CASE Block = RevokeOf(x, k) \/ Block = CommitOf(k)
    <3>1. InBudget /\ Holds(Block) /\ Block.kind # "descriptor"
      BY <1>5, <1>7, <2>3 DEF Holds
    <3> QED BY <3>1 DEF ScanFaults
  <2> QED BY <2>1, <2>2, <2>3
<1>9. CASE ~Expected
  BY <1>7, <1>9 DEF ScanFaults
<1> QED
  BY <1>8, <1>9

\* The scan stops where the string does, with every transaction of it.
LEMMA EndTells ==
    ASSUME NEW t \in Strings, NEW lo \in Nat, NEW hi \in Nat, Tells(t, lo, hi), JournalInv, crashed,
           0 < First, MaxLen <= SeqMod, ScanEnds
    PROVE  ReaderIs(t, lo, hi)'
<1>1. phase = "scanning" /\ phase' = "applying" /\ UNCHANGED <<committed, plan, outcome>>
  BY DEF ScanEnds, Scanning
<1>2. PICK k \in lo..hi, j \in Nat, m \in Nat : Amid(t, lo, k, j, m)
  BY <1>1, StoppedFacts DEF ReaderIs, Midway
<1>3. /\ RevokeOf(t[k], k).sound /\ RevokeOf(t[k], k).kind = "revoke"
      /\ CommitOf(k).sound /\ CommitOf(k).kind = "commit"
      /\ \A names : DescriptorOf(k, names).kind = "descriptor"
  BY DEF RevokeOf, CommitOf, DescriptorOf, LogBlock
<1>4. ASSUME Expected PROVE FALSE
  <2>1. \/ Block = RevokeOf(t[k], k)
        \/ \E names : Block = DescriptorOf(k, names)
        \/ Block = CommitOf(k)
    BY <1>2, <1>4, NextBlock
  <2>2. Block.kind = "other" \/ (Block.kind = "commit" /\ ~Holds(Block))
    BY <1>4 DEF ScanEnds
  <2> QED BY <1>3, <2>1, <2>2 DEF Holds
<1>5. k = hi
  BY <1>2, <1>4, NextBlock
<1>6. FoundUpTo(t, lo, hi)'
  <2>1. FoundUpTo(t, lo, hi)
    BY <1>2, <1>5 DEF Amid
  <2> QED BY <1>1, <2>1 DEF FoundUpTo
<1>7. plan.skipped = {} /\ outcome = "none"
  BY <1>1, StoppedFacts DEF ReaderIs, Kept, Laying
<1> QED
  BY <1>1, <1>6, <1>7 DEF ReaderIs

\* What a revoke record names is of the transaction.
LEMMA RevokeTells ==
    ASSUME NEW t \in Strings, NEW lo \in Nat, NEW hi \in Nat, Tells(t, lo, hi), JournalInv, crashed,
           0 < First, MaxLen <= SeqMod, ScanRevoke
    PROVE  ReaderIs(t, lo, hi)'
<1>1. /\ phase = "scanning" /\ Expected /\ Block.kind = "revoke"
      /\ UNCHANGED <<phase, committed, plan, outcome>>
      /\ current' = [current EXCEPT !.revokes = @ \cup Block.revokes]
      /\ at' = After(at, 1) /\ visited' = visited + 1
  BY DEF ScanRevoke, Pass, Scanning, Advance
<1>2. PICK k \in lo..hi, j \in Nat, m \in Nat : Amid(t, lo, k, j, m)
  BY <1>1, StoppedFacts DEF ReaderIs, Midway
<1> DEFINE x == t[k]
<1>3. lo \in 1..hi /\ k \in Nat /\ x \in Record /\ x.pos \in Nat /\ Size(x) \in Nat \ {0}
      /\ t[lo].pos \in Nat
  <2>1. lo \in 1..hi /\ hi \in Nat /\ Strung(t, lo, hi)
    BY StoppedFacts
  <2> QED BY <2>1, StringFacts
<1>4. /\ CommitOf(k).kind = "commit" /\ RevokeOf(x, k).revokes = x.revokes
      /\ \A names : DescriptorOf(k, names).kind = "descriptor"
  BY DEF RevokeOf, CommitOf, DescriptorOf, LogBlock
<1>5. j = 0 /\ m = 0 /\ Lead(x) = 1 /\ j < Size(x) - 1 /\ Block = RevokeOf(x, k)
  BY <1>1, <1>2, <1>4, NextBlock
<1>6. /\ FoundUpTo(t, lo, k) /\ at = Ring(x.pos + j) /\ visited = x.pos + j - t[lo].pos
      /\ current.seq = SeqAt(k) /\ current.revokes = {} /\ Len(current.tags) = 0
      /\ m \in 0..Many(x)
  BY <1>2, <1>5 DEF Amid
<1>7. current'.seq = SeqAt(k) /\ current'.revokes = x.revokes /\ Len(current'.tags) = 0
  <2>1. current \in Transactions
    BY DEF JournalInv, ReaderTypeOK
  <2> QED BY <1>1, <1>4, <1>5, <1>6, <2>1 DEF Transactions
<1>8. at' = Ring(x.pos + 1) /\ visited' = x.pos + 1 - t[lo].pos
  <2>1. x.pos + j = x.pos
    BY <1>3, <1>5
  <2>2. After(Ring(x.pos), 1) = Ring(x.pos + 1)
    BY <1>3, RingFacts
  <2>3. visited = x.pos + 0 - t[lo].pos /\ visited' = visited + 1
    BY <1>1, <1>5, <1>6
  <2>4. visited' = x.pos + 1 - t[lo].pos
    <3> DEFINE v == x.pos
               a == t[lo].pos
    <3>1. v \in Nat /\ a \in Nat
      BY <1>3
    <3>2. visited = v + 0 - a /\ visited' = visited + 1
      BY <2>3
    <3> HIDE DEF v, a
    <3>3. visited' = v + 1 - a
      BY <3>1, <3>2
    <3> QED BY <3>3 DEF v, a
  <2> QED BY <1>1, <1>6, <2>1, <2>2, <2>4
<1>9. FoundUpTo(t, lo, k)'
  BY <1>1, <1>6 DEF FoundUpTo
<1>10. Between(x, 1, 0)
  BY <1>5 DEF Between
<1>11. 1 \in 0..(Size(x) - 1) /\ 0 \in 0..Many(x) /\ 1 # 0 /\ \A i \in 1..0 : FALSE
  BY <1>3, <1>5, <1>6
<1>12. Amid(t, lo, k, 1, 0)'
  BY <1>7, <1>8, <1>9, <1>10, <1>11 DEF Amid
<1>13. Midway(t, lo, hi)' /\ plan.skipped = {} /\ outcome = "none"
  <2>1. 1 \in Nat /\ 0 \in Nat
    OBVIOUS
  <2>2. Midway(t, lo, hi)'
    BY <1>12, <2>1 DEF Midway
  <2> QED BY <1>1, <2>2, StoppedFacts DEF ReaderIs, Kept, Laying
<1> QED
  BY <1>1, <1>13 DEF ReaderIs

\* What a descriptor names is of the transaction, and its tags lead to the copies.
LEMMA DescriptorTells ==
    ASSUME NEW t \in Strings, NEW lo \in Nat, NEW hi \in Nat, Tells(t, lo, hi), JournalInv, crashed,
           0 < First, MaxLen <= SeqMod, ScanDescriptor
    PROVE  ReaderIs(t, lo, hi)'
<1> DEFINE fresh == [i \in 1..Len(Block.names) |->
                       [home |-> Block.names[i].home, escaped |-> Block.names[i].escaped,
                        at |-> After(at, i)]]
<1>1. /\ phase = "scanning" /\ Expected /\ Block.kind = "descriptor"
      /\ UNCHANGED <<phase, committed, plan, outcome>>
      /\ current' = [current EXCEPT !.tags = @ \o fresh]
      /\ at' = After(at, 1 + Len(Block.names)) /\ visited' = visited + (1 + Len(Block.names))
  BY DEF ScanDescriptor, Pass, Scanning, Advance
<1>2. PICK k \in lo..hi, j \in Nat, m \in Nat : Amid(t, lo, k, j, m)
  BY <1>1, StoppedFacts DEF ReaderIs, Midway
<1> DEFINE x == t[k]
<1>3. lo \in 1..hi /\ k \in Nat /\ x \in Record /\ x.pos \in Nat /\ Size(x) \in Nat \ {0}
      /\ t[lo].pos \in Nat /\ Many(x) \in Nat /\ (Lead(x) = 0 <=> x.revokes = {})
  <2>1. lo \in 1..hi /\ hi \in Nat /\ Strung(t, lo, hi)
    BY StoppedFacts
  <2>2. k \in Nat /\ x \in Record /\ x.pos \in Nat /\ Size(x) \in Nat \ {0} /\ t[lo].pos \in Nat
    BY <2>1, StringFacts
  <2> QED BY <2>1, <2>2, Counted
<1>4. /\ CommitOf(k).kind = "commit" /\ RevokeOf(x, k).kind = "revoke"
      /\ \A names : DescriptorOf(k, names).names = names
  BY DEF RevokeOf, CommitOf, DescriptorOf, LogBlock
<1>5. /\ j < Size(x) - 1 /\ (j = 0 => Lead(x) = 0)
      /\ \E names : Block = DescriptorOf(k, names) /\ Next1(x, k, j, m, names)
  BY <1>1, <1>2, <1>4, NextBlock
<1>6. PICK names : Block.names = names /\ Next1(x, k, j, m, names)
  BY <1>4, <1>5
<1>7. /\ FoundUpTo(t, lo, k) /\ at = Ring(x.pos + j) /\ visited = x.pos + j - t[lo].pos
      /\ current.seq = SeqAt(k) /\ current.revokes = (IF j = 0 THEN {} ELSE x.revokes)
      /\ Len(current.tags) = m /\ \A i \in 1..m : current.tags[i] = TagAt(x, i)
  BY <1>2 DEF Amid
<1> DEFINE L == Len(names)
<1>8. /\ L \in Nat \ {0} /\ m + L <= Many(x) /\ j + 1 + L <= Size(x) - 1
      /\ Between(x, j + 1 + L, m + L)
      /\ \A i \in 1..L : /\ names[i] = Name(Order(x.homes)[m + i])
                         /\ TagPlace(x, m + i) = x.pos + j + i
  BY <1>6 DEF Next1
<1>9. fresh = [i \in 1..L |-> [home |-> names[i].home, escaped |-> names[i].escaped,
                               at |-> After(at, i)]]
  BY <1>6
<1>a. Block \in LogBlocks /\ at \in Positions /\ current \in Transactions
  BY DEF JournalInv, ReaderTypeOK, Block
<1>b. fresh \in Seq(Tags)
  <2>1. Block.names \in Seq(Named)
    BY <1>a DEF LogBlocks
  <2> QED BY <1>a, <2>1, TagsOfNames
<1> HIDE DEF fresh
<1>10. Len(fresh) = L /\ \A i \in 1..L : fresh[i] = TagAt(x, m + i)
  <2>1. Len(fresh) = L
    BY <1>8, <1>9
  <2>2. ASSUME NEW i \in 1..L PROVE fresh[i] = TagAt(x, m + i)
    <3>1. fresh[i] = [home |-> names[i].home, escaped |-> names[i].escaped, at |-> After(at, i)]
      BY <1>9
    <3>2. names[i].home = Order(x.homes)[m + i]
          /\ names[i].escaped = (Order(x.homes)[m + i] \in MagicHomes)
      <4>1. names[i] = Name(Order(x.homes)[m + i])
        BY <1>8
      <4>2. \A b : Name(b).home = b /\ Name(b).escaped = (b \in MagicHomes)
        BY DEF Name
      <4> QED BY <4>1, <4>2
    <3>3. After(at, i) = Ring(TagPlace(x, m + i))
      <4>1. i \in Nat /\ x.pos + j \in Nat
        <5>1. L \in Nat
          BY <1>8
        <5>2. i \in Nat
          BY <5>1
        <5>3. x.pos \in Nat
          BY <1>3
        <5> QED BY <5>2, <5>3
      <4>2. After(Ring(x.pos + j), i) = Ring(x.pos + j + i)
        <5> DEFINE v == x.pos + j
        <5>1. v \in Nat
          BY <4>1
        <5> HIDE DEF v
        <5>2. \A n \in Nat : After(Ring(v), n) = Ring(v + n)
          BY <5>1, RingFacts
        <5>3. After(Ring(v), i) = Ring(v + i)
          BY <4>1, <5>2
        <5> QED BY <5>3 DEF v
      <4> QED BY <1>7, <1>8, <4>2
    <3> QED BY <3>1, <3>2, <3>3 DEF TagAt
  <2> QED BY <2>1, <2>2
<1> DEFINE joined == current.tags \o fresh
<1>11. /\ Len(joined) = m + L
       /\ \A i \in 1..(m + L) : joined[i] = TagAt(x, i)
  <2>1. current.tags \in Seq(Tags)
    BY <1>a DEF Transactions
  <2>2. /\ Len(joined) = Len(current.tags) + Len(fresh)
        /\ \A i \in 1..(Len(current.tags) + Len(fresh)) :
              joined[i] = IF i <= Len(current.tags) THEN current.tags[i]
                          ELSE fresh[i - Len(current.tags)]
    BY <1>b, <2>1, ConcatProperties
  <2> HIDE DEF joined, L
  <2>3. ASSUME NEW i \in 1..(m + L) PROVE joined[i] = TagAt(x, i)
    <3>1. joined[i] = IF i <= m THEN current.tags[i] ELSE fresh[i - m]
      BY <1>7, <1>10, <2>2
    <3>2. CASE i <= m
      <4>1. i \in 1..m
        BY <1>8, <3>2
      <4> QED BY <1>7, <3>1, <3>2, <4>1
    <3>3. CASE ~(i <= m)
      <4> DEFINE d == i - m
      <4>1. d \in 1..L /\ m + d = i
        BY <1>8, <3>3
      <4>2. joined[i] = fresh[d]
        BY <3>1, <3>3
      <4> HIDE DEF d
      <4>3. fresh[d] = TagAt(x, m + d)
        BY <1>10, <4>1
      <4> QED BY <4>1, <4>2, <4>3
    <3> QED BY <3>2, <3>3
  <2> QED BY <1>7, <1>10, <2>2, <2>3
<1> HIDE DEF joined
<1>12. /\ current'.seq = SeqAt(k) /\ current'.tags = joined
       /\ current'.revokes = current.revokes
  <2>1. current' = [current EXCEPT !.tags = joined]
    BY <1>1 DEF joined
  <2> QED BY <1>7, <1>a, <2>1 DEF Transactions
<1> DEFINE j2 == j + 1 + L
           m2 == m + L
<1>13. j2 \in Nat /\ j2 # 0 /\ m2 \in Nat /\ j2 \in 0..(Size(x) - 1) /\ m2 \in 0..Many(x)
  <2> HIDE DEF L
  <2> QED BY <1>3, <1>8
<1>14. current'.revokes = x.revokes
  BY <1>3, <1>5, <1>7, <1>12
<1>15. at' = Ring(x.pos + j2) /\ visited' = x.pos + j2 - t[lo].pos
  <2>1. at' = After(at, 1 + L) /\ visited' = visited + (1 + L)
    BY <1>1, <1>6
  <2> HIDE DEF L
  <2>2. x.pos + j \in Nat /\ 1 + L \in Nat /\ (x.pos + j) + (1 + L) = x.pos + j2
    BY <1>3, <1>8
  <2>3. After(Ring(x.pos + j), 1 + L) = Ring((x.pos + j) + (1 + L))
    BY <2>2, RingFacts
  <2>4. visited' = x.pos + j2 - t[lo].pos
    <3>1. visited = x.pos + j - t[lo].pos /\ x.pos \in Nat /\ t[lo].pos \in Nat /\ L \in Nat
      BY <1>3, <1>7, <1>8
    <3> HIDE DEF x
    <3> QED BY <2>1, <3>1
  <2> QED BY <1>7, <2>1, <2>2, <2>3, <2>4
<1>16. FoundUpTo(t, lo, k)'
  BY <1>1, <1>7 DEF FoundUpTo
<1>17. Between(x, j2, m2)
  BY <1>8
<1>18. Len(current'.tags) = m2 /\ \A i \in 1..m2 : current'.tags[i] = TagAt(x, i)
  BY <1>11, <1>12
<1> HIDE DEF j2, m2
<1>19. Amid(t, lo, k, j2, m2)'
  BY <1>12, <1>13, <1>14, <1>15, <1>16, <1>17, <1>18 DEF Amid
<1>20. Midway(t, lo, hi)'
  BY <1>13, <1>19 DEF Midway
<1>21. plan.skipped = {} /\ outcome = "none"
  BY <1>1, StoppedFacts DEF ReaderIs, Kept, Laying
<1> QED
  BY <1>1, <1>20, <1>21 DEF ReaderIs

\* A commit block closes the transaction, which has then been found whole.
LEMMA ClosedTells ==
    ASSUME NEW t \in Strings, NEW lo \in Nat, NEW hi \in Nat, Tells(t, lo, hi), JournalInv, crashed,
           0 < First, MaxLen <= SeqMod, ScanCommit
    PROVE  ReaderIs(t, lo, hi)'
<1>1. /\ phase = "scanning" /\ Expected /\ Block.kind = "commit"
      /\ UNCHANGED <<phase, plan, outcome>>
      /\ committed' = Append(committed, current)
      /\ current' = EmptyTransaction((current.seq + 1) % SeqMod)
      /\ at' = After(at, 1) /\ visited' = visited + 1
  BY DEF ScanCommit, Pass, Scanning, Advance
<1>2. PICK k \in lo..hi, j \in Nat, m \in Nat : Amid(t, lo, k, j, m)
  BY <1>1, StoppedFacts DEF ReaderIs, Midway
<1> DEFINE x == t[k]
           n == k + 1
<1>3. /\ lo \in 1..hi /\ hi \in Nat /\ Strung(t, lo, hi) /\ k \in Nat \ {0}
      /\ x \in Record /\ x.pos \in Nat /\ Size(x) \in Nat \ {0} /\ End(x) = x.pos + Size(x)
      /\ t[lo].pos \in Nat
  <2>1. lo \in 1..hi /\ hi \in Nat /\ Strung(t, lo, hi)
    BY StoppedFacts
  <2>2. k \in Nat \ {0}
    BY <2>1
  <2> QED BY <2>1, <2>2, StringFacts
<1>4. RevokeOf(x, k).kind = "revoke" /\ \A names : DescriptorOf(k, names).kind = "descriptor"
  BY DEF RevokeOf, DescriptorOf, LogBlock
<1>5. j = Size(x) - 1 /\ k < hi /\ m = Many(x) /\ (j = 0 => x.revokes = {})
  BY <1>1, <1>2, <1>4, NextBlock
<1>6. /\ FoundUpTo(t, lo, k) /\ at = Ring(x.pos + j) /\ visited = x.pos + j - t[lo].pos
      /\ current.seq = SeqAt(k) /\ current.revokes = (IF j = 0 THEN {} ELSE x.revokes)
      /\ Len(current.tags) = m /\ \A i \in 1..m : current.tags[i] = TagAt(x, i)
  BY <1>2 DEF Amid
<1>7. n \in lo..hi /\ n \in Nat /\ t[n].pos = End(x) /\ t[n] \in Record
      /\ Size(t[n]) \in Nat \ {0} /\ Many(t[n]) \in Nat
  <2>1. n \in lo..hi /\ n \in Nat /\ k \in 1..(hi - 1)
    BY <1>3, <1>5
  <2>2. t[n] \in Record /\ Size(t[n]) \in Nat \ {0}
    BY <1>3, <2>1, StringFacts
  <2>3. t[k + 1].pos = End(t[k])
    BY <1>3, <2>1 DEF Strung
  <2> QED BY <2>1, <2>2, <2>3, Counted
<1>8. Found(current, x, k)
  BY <1>5, <1>6 DEF Found
<1>9. FoundUpTo(t, lo, n)'
  <2>1. committed \in Seq(Transactions) /\ current \in Transactions
    BY DEF JournalInv, ReaderTypeOK
  <2>2. /\ Len(committed') = Len(committed) + 1
        /\ \A i \in 1..Len(committed) : committed'[i] = committed[i]
        /\ committed'[Len(committed) + 1] = current
    BY <1>1, <2>1, AppendProperties
  <2>3. Len(committed) = k - lo
    BY <1>6 DEF FoundUpTo
  <2>4. Len(committed') = n - lo
    BY <1>3, <2>2, <2>3
  <2>5. ASSUME NEW i \in 1..(n - lo) PROVE Found(committed'[i], t[lo + i - 1], lo + i - 1)
    <3>1. CASE i = n - lo
      <4>1. i = Len(committed) + 1 /\ lo + i - 1 = k
        BY <1>3, <2>3, <3>1
      <4> QED BY <1>8, <2>2, <4>1
    <3>2. CASE i # n - lo
      <4>1. i \in 1..(k - lo)
        BY <1>3, <3>2
      <4>2. Found(committed[i], t[lo + i - 1], lo + i - 1)
        BY <1>6, <4>1 DEF FoundUpTo
      <4> QED BY <2>2, <2>3, <4>1, <4>2
    <3> QED BY <3>1, <3>2
  <2> HIDE DEF n
  <2> QED BY <2>4, <2>5 DEF FoundUpTo
<1>10. current'.seq = SeqAt(n) /\ current'.revokes = {} /\ Len(current'.tags) = 0
  <2>1. (SeqAt(k) + 1) % SeqMod = SeqAt(k + 1)
    BY <1>3, SeqFacts
  <2> QED BY <1>1, <1>6, <2>1 DEF EmptyTransaction
<1>11. at' = Ring(t[n].pos + 0) /\ visited' = t[n].pos + 0 - t[lo].pos
  <2>1. x.pos + j \in Nat /\ (x.pos + j) + 1 = End(x) /\ End(x) = t[n].pos + 0
    BY <1>3, <1>5, <1>7
  <2>2. After(Ring(x.pos + j), 1) = Ring((x.pos + j) + 1)
    BY <2>1, RingFacts
  <2> DEFINE v == x.pos + j
  <2>a. visited = v - t[lo].pos
    <3>1. visited = x.pos + j - t[lo].pos
      BY <1>6
    <3>2. x.pos \in Nat /\ t[lo].pos \in Nat
      BY <1>3
    <3> HIDE DEF x
    <3> QED BY <3>1, <3>2
  <2>b. visited' = visited + 1
    BY <1>1
  <2>c. v \in Nat /\ v + 1 = End(x) /\ End(x) = t[n].pos + 0
    BY <2>1
  <2>3. visited = v - t[lo].pos /\ visited' = visited + 1 /\ v \in Nat /\ t[lo].pos \in Nat
        /\ v + 1 = End(x) /\ End(x) = t[n].pos + 0
    BY <1>3, <2>a, <2>b, <2>c
  <2>4. at' = Ring(v + 1)
    BY <1>1, <1>6, <2>2
  <2> HIDE DEF v, x, n
  <2>5. visited' = (v + 1) - t[lo].pos
    BY <2>3
  <2>6. at' = Ring(t[n].pos + 0) /\ visited' = (t[n].pos + 0) - t[lo].pos
    BY <2>3, <2>4, <2>5
  <2>7. t[n].pos \in Nat
    BY <1>3, <1>7
  <2>8. visited' = t[n].pos + 0 - t[lo].pos
    <3> DEFINE a == t[n].pos
               b == t[lo].pos
    <3>1. a \in Nat /\ b \in Nat /\ visited' = (a + 0) - b
      BY <2>3, <2>6, <2>7
    <3> HIDE DEF a, b
    <3>2. visited' = a + 0 - b
      BY <3>1
    <3> QED BY <3>2 DEF a, b
  <2> QED BY <2>6, <2>8
<1>12. Between(t[n], 0, 0)
  BY DEF Between
<1>13. 0 \in 0..(Size(t[n]) - 1) /\ 0 \in 0..Many(t[n]) /\ 0 \in Nat /\ \A i \in 1..0 : FALSE
  BY <1>7
<1> HIDE DEF n
<1>14. Amid(t, lo, n, 0, 0)'
  BY <1>9, <1>10, <1>11, <1>12, <1>13 DEF Amid
<1>15. Midway(t, lo, hi)'
  BY <1>7, <1>13, <1>14 DEF Midway
<1>16. plan.skipped = {} /\ outcome = "none"
  BY <1>1, StoppedFacts DEF ReaderIs, Kept, Laying
<1> QED
  BY <1>1, <1>15, <1>16 DEF ReaderIs

\* An entry of what was found is a copy in the log, of a block of the filesystem.
LEMMA EntryIs ==
    ASSUME NEW t \in Strings, NEW lo \in Nat, NEW hi \in Nat, Tells(t, lo, hi), JournalInv, crashed,
           FoundUpTo(t, lo, hi), NEW e \in Entries
    PROVE  LET q == lo + e[1] - 1
           IN  /\ e[1] \in 1..Len(committed) /\ q \in lo..(hi - 1) /\ e[2] \in 1..Many(t[q])
               /\ TagOf(e) = TagAt(t[q], e[2]) /\ TagOf(e).home \in t[q].homes
               /\ log[TagOf(e).at] = CopyOf(q) /\ committed[e[1]].revokes = t[q].revokes
<1> DEFINE q == lo + e[1] - 1
           x == t[q]
<1>1. lo \in 1..hi /\ hi \in Nat /\ Strung(t, lo, hi) /\ LogHolds(t, lo, hi) /\ ReaderTypeOK
  BY StoppedFacts
<1>2. /\ e[1] \in 1..Len(committed) /\ e[1] \in Nat
      /\ e[2] \in 1..Len(committed[e[1]].tags) /\ TagOf(e) \in Tags
  BY <1>1, EntryParts
<1>3. Len(committed) = hi - lo /\ Found(committed[e[1]], x, q)
  BY <1>2 DEF FoundUpTo
<1>4. q \in lo..(hi - 1) /\ q \in Nat
  BY <1>1, <1>2, <1>3
<1>5. e[2] \in 1..Many(x) /\ TagOf(e) = TagAt(x, e[2]) /\ committed[e[1]].revokes = x.revokes
  BY <1>2, <1>3 DEF Found, TagOf
<1> HIDE DEF q
<1>6. x \in Record /\ x.homes \in SUBSET Homes /\ Size(x) \in Nat
  <2>1. x \in Record /\ Size(x) \in Nat
    BY <1>1, <1>4, StringFacts
  <2> QED BY <2>1 DEF Record
<1>7. TagOf(e).home \in x.homes
  <2>1. Order(x.homes)[e[2]] \in x.homes
    BY <1>5, <1>6, OrderIs DEF Many
  <2> QED BY <1>5, <2>1 DEF TagAt
<1>8. log[TagOf(e).at] = CopyOf(q)
  <2>1. PICK j \in 1..(Size(x) - 1) :
           BlockOf(x, q, j) = CopyOf(q) /\ Place(x, j) = Ring(TagPlace(x, e[2]))
    BY <1>5, <1>6, CopyIs
  <2>2. j \in 1..Size(x)
    BY <1>6
  <2>3. log[Place(x, j)] = BlockOf(x, q, j)
    BY <1>1, <1>4, <2>2 DEF LogHolds
  <2>4. TagOf(e).at = Ring(TagPlace(x, e[2]))
    BY <1>5 DEF TagAt
  <2> QED BY <2>1, <2>3, <2>4
<1> QED
  BY <1>2, <1>4, <1>5, <1>7, <1>8 DEF q

\* Every copy verifies, and every tag names a block of the filesystem.
LEMMA ApplyTells ==
    ASSUME NEW t \in Strings, NEW lo \in Nat, NEW hi \in Nat, Tells(t, lo, hi), JournalInv, crashed,
           phase = "applying"
    PROVE  ~ApplyFaults /\ (Apply => ReaderIs(t, lo, hi)')
<1>1. FoundUpTo(t, lo, hi) /\ plan.skipped = {} /\ outcome = "none"
  BY StoppedFacts DEF ReaderIs, Kept, Laying
<1>2. lo \in 1..hi /\ hi \in Nat /\ Strung(t, lo, hi)
  BY StoppedFacts
<1>3. ASSUME NEW e \in Entries PROVE TagOf(e).home \in Homes /\ Holds(log[TagOf(e).at])
  <2> DEFINE q == lo + e[1] - 1
  <2>1. q \in lo..(hi - 1) /\ TagOf(e).home \in t[q].homes /\ log[TagOf(e).at] = CopyOf(q)
    BY <1>1, EntryIs
  <2> HIDE DEF q
  <2>2. t[q].homes \in SUBSET Homes
    <3>1. q \in Nat
      BY <1>2, <2>1
    <3>2. t[q] \in Record
      BY <1>2, <3>1, StringFacts
    <3> QED BY <3>2 DEF Record
  <2>3. CopyOf(q).sound
    BY DEF CopyOf, LogBlock
  <2> QED BY <2>1, <2>2, <2>3 DEF Holds
<1>4. \A e \in Applicable : e \in Entries
  BY DEF Applicable
<1>5. ~ApplyFaults
  BY <1>3, <1>4 DEF ApplyFaults
<1>6. ASSUME Apply PROVE ReaderIs(t, lo, hi)'
  <2>1. Skipped = {}
    BY <1>3, <1>4 DEF Skipped
  <2>2. /\ plan'.skipped = {TagOf(e).home : e \in Skipped} /\ phase' = "installing"
        /\ committed' = committed /\ outcome' = "none"
    BY <1>1, <1>6 DEF Apply, scanning
  <2>3. plan'.skipped = {}
    BY <2>1, <2>2
  <2>4. FoundUpTo(t, lo, hi)'
    BY <1>1, <2>2 DEF FoundUpTo
  <2> QED BY <2>2, <2>3, <2>4 DEF ReaderIs
<1> QED
  BY <1>5, <1>6

\* What follows changes neither the transactions found nor the plan.
LEMMA LaterTells ==
    ASSUME NEW t \in Strings, NEW lo \in Nat, NEW hi \in Nat, Tells(t, lo, hi), JournalInv, crashed,
           \/ Install \/ TakeSuperblock \/ InstallFaults \/ ReadTable
           \/ UNCHANGED reader
    PROVE  ReaderIs(t, lo, hi)'
<1>1. ReaderIs(t, lo, hi) /\ Kept /\ plan.skipped = {}
  BY StoppedFacts DEF ReaderIs
<1>2. CASE Install
  <2>1. phase = "installing" /\ phase' = "rereading" /\ UNCHANGED <<committed, plan, outcome>>
    BY <1>2 DEF Install, scanning
  <2>2. outcome = "none"
    BY <1>1, <2>1 DEF Kept, Laying
  <2> QED BY <1>1, <2>1, <2>2 DEF ReaderIs, FoundUpTo
<1>3. CASE TakeSuperblock
  <2>1. phase = "rereading" /\ phase' = "open" /\ UNCHANGED <<committed, plan>>
        /\ outcome' = "replayed"
    BY <1>3 DEF TakeSuperblock, scanning
  <2> QED BY <1>1, <2>1 DEF ReaderIs, FoundUpTo
<1>4. CASE InstallFaults
  <2>1. phase = "rereading" /\ Super \in DOMAIN overlay
    BY <1>1, <1>4 DEF InstallFaults
  <2>2. overlay = plan.copies
    BY <1>1, <2>1 DEF Kept, Laying
  <2>3. phase' \in {"refused", "open"} /\ UNCHANGED <<committed, plan>> /\ outcome' = "not_replayed"
    BY <1>4 DEF InstallFaults, Fault, scanning
  <2> QED BY <1>1, <2>1, <2>2, <2>3 DEF ReaderIs
<1>5. CASE ReadTable \/ UNCHANGED reader
  <2>1. UNCHANGED <<phase, at, visited, current, committed, plan, outcome>>
    BY <1>5 DEF ReadTable, reader, scanning
  <2>2. FoundUpTo(t, lo, hi)' <=> FoundUpTo(t, lo, hi)
    BY <2>1 DEF FoundUpTo
  <2>3. Midway(t, lo, hi)' <=> Midway(t, lo, hi)
    BY <2>1 DEF Midway, Amid, FoundUpTo
  <2> QED BY <1>1, <2>1, <2>2, <2>3 DEF ReaderIs
<1> QED
  BY <1>2, <1>3, <1>4, <1>5

\* So every step of the reader leaves it at what is told.
LEMMA RecoverTells ==
    ASSUME NEW t \in Strings, NEW lo \in Nat, NEW hi \in Nat, Tells(t, lo, hi), JournalInv,
           0 < First, MaxLen <= SeqMod, Recover \/ Read \/ Settled \/ (crashed /\ UNCHANGED vars)
    PROVE  Tells(t, lo, hi)'
<1>0. crashed /\ crashed' /\ UNCHANGED store
  <2>1. CASE Recover \/ Read
    BY <2>1 DEF Recover, Read, writer
  <2>2. CASE Settled
    <3>1. crashed
      BY <2>2 DEF Settled, Opened, JournalInv, WriterFirst
    <3> QED BY <2>2, <3>1 DEF Settled, vars, writer
  <2>3. CASE crashed /\ UNCHANGED vars
    BY <2>3 DEF vars, writer
  <2> QED BY <2>1, <2>2, <2>3
<1>1. UNCHANGED disk
  BY DEF Recover, Read, Settled, vars, Replay, ReadTable, Open, OpenFaults, ScanEnds, ScanDescriptor,
         ScanRevoke, ScanCommit, ScanFaults, Apply, ApplyFaults, Install, TakeSuperblock,
         InstallFaults, Fault
<1>2. ReaderIs(t, lo, hi)'
  <2>1. CASE Read \/ Settled \/ (crashed /\ UNCHANGED vars)
    <3>1. ReadTable \/ UNCHANGED reader
      BY <2>1 DEF Read, Settled, vars
    <3> QED BY <1>0, <3>1, LaterTells
  <2>2. CASE Recover
    <3>1. Replay
      BY <2>2 DEF Recover
    <3>2. CASE Open
      BY <1>0, <3>2, OpenTells
    <3>3. CASE ScanEnds
      BY <1>0, <3>3, EndTells
    <3>4. CASE ScanDescriptor
      BY <1>0, <3>4, DescriptorTells
    <3>5. CASE ScanRevoke
      BY <1>0, <3>5, RevokeTells
    <3>6. CASE ScanCommit
      BY <1>0, <3>6, ClosedTells
    <3>7. CASE Apply
      BY <1>0, <3>7, ApplyTells DEF Apply
    <3>8. ~OpenFaults /\ ~ScanFaults /\ ~ApplyFaults
      BY <1>0, OpenNeverFaults, ScanNeverFaults, ApplyTells DEF ApplyFaults
    <3>9. CASE Install \/ TakeSuperblock \/ InstallFaults
      BY <1>0, <3>9, LaterTells
    <3> QED BY <3>1, <3>2, <3>3, <3>4, <3>5, <3>6, <3>7, <3>8, <3>9 DEF Replay
  <2> QED BY <2>1, <2>2
<1> QED
  BY <1>0, <1>1, <1>2, ReaderTells

-----------------------------------------------------------------------------
\* What is told is what is presented.

\* A transaction found is one told, tag by tag.
LEMMA FoundIs ==
    ASSUME NEW t \in Strings, NEW lo \in Nat, NEW hi \in Nat, Tells(t, lo, hi), JournalInv, crashed,
           FoundUpTo(t, lo, hi), NEW k \in lo..(hi - 1)
    PROVE  LET i == k - lo + 1
           IN  /\ i \in 1..Len(committed) /\ committed[i].revokes = t[k].revokes
               /\ \A b \in t[k].homes : \E c \in Nat :
                     <<i, c>> \in Entries /\ TagOf(<<i, c>>).home = b
<1> DEFINE i == k - lo + 1
<1>1. lo \in 1..hi /\ hi \in Nat /\ Strung(t, lo, hi) /\ ReaderTypeOK
  BY StoppedFacts
<1>2. i \in 1..(hi - lo) /\ lo + i - 1 = k /\ k \in Nat
  BY <1>1
<1> HIDE DEF i
<1>3. Len(committed) = hi - lo /\ Found(committed[i], t[k], k)
  BY <1>2 DEF FoundUpTo
<1>4. t[k] \in Record /\ t[k].homes \in SUBSET Homes
  <2>1. t[k] \in Record
    BY <1>1, <1>2, StringFacts
  <2> QED BY <2>1 DEF Record
<1>5. ASSUME NEW b \in t[k].homes
      PROVE  \E c \in Nat : <<i, c>> \in Entries /\ TagOf(<<i, c>>).home = b
  <2>1. PICK c \in 1..Many(t[k]) : Order(t[k].homes)[c] = b
    BY <1>4, OrderIs DEF Many
  <2>2. Many(t[k]) \in Nat
    BY <1>4, Counted
  <2>3. c \in 1..Len(committed[i].tags) /\ committed[i].tags[c] = TagAt(t[k], c) /\ c \in Nat
    BY <1>3, <2>1, <2>2 DEF Found
  <2>4. <<i, c>> \in Entries
    BY <1>2, <1>3, <2>3, TagsAreEntries
  <2>5. TagOf(<<i, c>>).home = b
    BY <2>1, <2>3 DEF TagOf, TagAt
  <2> QED BY <2>3, <2>4, <2>5
<1> QED
  BY <1>2, <1>3, <1>5 DEF Found, i

\* So what the reader presents of a block is the copy that stands for it, or its home.
LEMMA PresentsTheString ==
    ASSUME NEW t \in Strings, NEW lo \in Nat, NEW hi \in Nat, Tells(t, lo, hi), JournalInv, crashed,
           outcome = "replayed", NEW b \in Homes
    PROVE  View(b) = store[b]
<1> DEFINE n == Len(committed)
           E == Stands(n)
<1>1. /\ lo \in 1..hi /\ hi \in Nat /\ Strung(t, lo, hi) /\ Values(t, lo, hi) /\ ReaderTypeOK /\ Kept
      /\ FoundUpTo(t, lo, hi)
  BY StoppedFacts DEF ReaderIs
<1>2. n = hi - lo /\ n \in Nat
  BY <1>1 DEF FoundUpTo
<1>3. overlay = Laid(E)
  <2>1. overlay = plan.copies /\ plan.copies = InOrder(Damaged)
    BY <1>1 DEF Kept, Laying, Planned
  <2> QED BY <1>1, <2>1, InOrderIsLaid
<1>4. E \in SUBSET Entries
  BY DEF Stands
<1> HIDE DEF n
<1>5. ASSUME NEW f \in Entries
      PROVE  f[1] \in 1..n /\ Holds(log[TagOf(f).at]) /\ log[TagOf(f).at] = CopyOf(lo + f[1] - 1)
  <2> DEFINE q == lo + f[1] - 1
  <2>1. log[TagOf(f).at] = CopyOf(q) /\ f[1] \in 1..n
    BY <1>1, EntryIs DEF n
  <2> HIDE DEF q
  <2>2. CopyOf(q).sound
    BY DEF CopyOf, LogBlock
  <2> QED BY <2>1, <2>2 DEF Holds, q
<1>6. ASSUME NEW f \in Entries, TagOf(f).home = b, \A q \in f[1]..n : ~RevokedBy(q, b)
      PROVE  f \in E
  <2>1. f[1] <= n /\ Holds(log[TagOf(f).at])
    BY <1>2, <1>5
  <2> QED BY <1>6, <2>1 DEF Stands
<1>7. CASE b \in {TagOf(e).home : e \in E}
  <2>1. PICK e \in E : IsLast(E, b, e)
    BY <1>1, <1>4, <1>7, LastExists
  <2>2. e \in Entries /\ TagOf(e).home = b /\ \A q \in e[1]..n : ~RevokedBy(q, b)
    BY <1>4, <2>1 DEF IsLast, Stands
  <2> DEFINE k == lo + e[1] - 1
  <2>3. /\ k \in lo..(hi - 1) /\ e[2] \in 1..Many(t[k]) /\ TagOf(e) = TagAt(t[k], e[2])
        /\ b \in t[k].homes /\ log[TagOf(e).at] = CopyOf(k) /\ e[1] \in 1..n
    BY <1>1, <2>2, EntryIs DEF n
  <2>4. e[1] = k - lo + 1 /\ k \in Nat
    BY <1>1, <1>2, <2>3
  <2> HIDE DEF k
  <2>5. ASSUME NEW r \in (k + 1)..(hi - 1), Mentions(t[r], b) PROVE FALSE
    <3> DEFINE i == r - lo + 1
    <3>1. r \in lo..(hi - 1) /\ i \in 1..n /\ i > e[1] /\ i \in Nat
      BY <1>1, <1>2, <2>3, <2>4
    <3>2. /\ committed[i].revokes = t[r].revokes
          /\ \A c \in t[r].homes : \E d \in Nat : <<i, d>> \in Entries /\ TagOf(<<i, d>>).home = c
      BY <1>1, <3>1, FoundIs
    <3> HIDE DEF i
    <3>3. b \notin t[r].revokes
      <4>1. i \in e[1]..n
        BY <1>2, <2>3, <3>1
      <4> QED BY <2>2, <3>2, <4>1 DEF RevokedBy
    <3>4. b \in t[r].homes
      BY <2>5, <3>3 DEF Mentions
    <3>5. PICK d \in Nat : <<i, d>> \in Entries /\ TagOf(<<i, d>>).home = b
      BY <3>2, <3>4
    <3>6. \A q \in i..n : q \in e[1]..n
      BY <1>2, <2>3, <3>1
    <3>7. <<i, d>> \in E
      BY <1>6, <2>2, <3>5, <3>6
    <3>8. <<i, d>> # e /\ ~Later(e, <<i, d>>)
      BY <2>3, <3>1 DEF Later
    <3> QED BY <2>1, <3>5, <3>7, <3>8 DEF IsLast
  <2>6. Standing(t, hi, b, k)
    BY <2>3, <2>5 DEF Standing
  <2>7. store[b] = Value(2 * k - 1, b)
    BY <1>1, <2>3, <2>6 DEF Values
  <2>8. b \in DOMAIN overlay /\ overlay[b].at = TagOf(e).at /\ overlay[b].escaped = TagOf(e).escaped
    <3>1. LastOf(E, b) = e
      BY <1>1, <1>4, <2>1, LastOfIs
    <3> HIDE DEF E
    <3> QED BY <1>3, <1>7, <3>1 DEF Laid
  <2>9. TagOf(e).escaped = (b \in MagicHomes)
    BY <2>2, <2>3 DEF TagAt
  <2>10. log[overlay[b].at].content = [ver |-> 2 * k - 1, magic |-> FALSE]
    <3>1. CopyOf(k).content = [ver |-> 2 * k - 1, magic |-> FALSE]
      BY DEF CopyOf, LogBlock, Logged
    <3> QED BY <2>3, <2>8, <3>1
  <2>11. View(b) = IF b \in MagicHomes THEN [ver |-> 2 * k - 1, magic |-> TRUE]
                   ELSE [ver |-> 2 * k - 1, magic |-> FALSE]
    <3> DEFINE c == log[overlay[b].at].content
    <3>1. View(b) = IF overlay[b].escaped THEN [c EXCEPT !.magic = TRUE] ELSE c
      BY <2>8 DEF View, Through
    <3> HIDE DEF c
    <3>2. c = [ver |-> 2 * k - 1, magic |-> FALSE]
      BY <2>10 DEF c
    <3>3. [c EXCEPT !.magic = TRUE] = [ver |-> 2 * k - 1, magic |-> TRUE]
      <4> DEFINE v == 2 * k - 1
      <4>1. c = [ver |-> v, magic |-> FALSE]
        BY <3>2
      <4> HIDE DEF v
      <4>2. c \in [ver : {v}, magic : BOOLEAN]
        BY <4>1
      <4>3. [c EXCEPT !.magic = TRUE] \in [ver : {v}, magic : {TRUE}]
        BY <4>2
      <4>4. ASSUME NEW w, NEW d \in [ver : {v}, magic : {w}] PROVE d = [ver |-> v, magic |-> w]
        OBVIOUS
      <4> QED BY <4>3, <4>4 DEF v
    <3> QED BY <2>8, <2>9, <3>1, <3>2, <3>3
  <2>12. CASE b \in MagicHomes
    <3>1. Value(2 * k - 1, b) = [ver |-> 2 * k - 1, magic |-> TRUE]
      BY <2>12 DEF Value
    <3> QED BY <2>7, <2>11, <2>12, <3>1
  <2>13. CASE b \notin MagicHomes
    <3>0. (b \in MagicHomes) = FALSE
      BY <2>13
    <3>1. Value(2 * k - 1, b) = [ver |-> 2 * k - 1, magic |-> FALSE]
      BY <3>0, Zenon DEF Value
    <3> QED BY <2>7, <2>11, <2>13, <3>1
  <2> QED BY <2>12, <2>13
<1>8. CASE b \notin {TagOf(e).home : e \in E}
  <2>1. b \notin DOMAIN overlay
    BY <1>3, <1>8 DEF Laid
  <2>2. ASSUME NEW k \in lo..(hi - 1), Standing(t, hi, b, k) PROVE FALSE
    <3> DEFINE i == k - lo + 1
    <3>1. i \in 1..n /\ k \in Nat /\ k \in 1..hi
      BY <1>1, <1>2
    <3>2. PICK c \in Nat : <<i, c>> \in Entries /\ TagOf(<<i, c>>).home = b
      <4>1. b \in t[k].homes
        BY <2>2 DEF Standing
      <4> QED BY <1>1, <4>1, FoundIs
    <3>3. ASSUME NEW p \in i..n PROVE ~RevokedBy(p, b)
      <4> DEFINE r == p + lo - 1
      <4>1. r \in lo..(hi - 1) /\ r - lo + 1 = p /\ (r = k \/ r \in (k + 1)..(hi - 1))
        BY <1>1, <1>2, <3>1
      <4> HIDE DEF r
      <4>2. committed[p].revokes = t[r].revokes
        <5>1. committed[r - lo + 1].revokes = t[r].revokes
          BY <1>1, <4>1, FoundIs
        <5> QED BY <4>1, <5>1
      <4>3. b \notin t[r].revokes
        <5>1. CASE r = k
          BY <1>1, <2>2, <3>1, <5>1 DEF Strung, Standing
        <5>2. CASE r \in (k + 1)..(hi - 1)
          BY <2>2, <5>2 DEF Standing, Mentions
        <5> QED BY <4>1, <5>1, <5>2
      <4> QED BY <4>2, <4>3 DEF RevokedBy
    <3> HIDE DEF i
    <3>4. <<i, c>>[1] = i
      OBVIOUS
    <3>5. <<i, c>> \in E
      BY <1>6, <3>2, <3>3, <3>4
    <3> QED BY <1>8, <3>2, <3>5
  <2>3. home[b] = store[b]
    BY <1>1, <2>2 DEF Values
  <2> QED BY <2>1, <2>3 DEF View, Through
<1> QED
  BY <1>7, <1>8

\* An undamaged log that tells its string is recovered.
LEMMA ToldIsRecovered ==
    ASSUME JournalInv, Lossless
    PROVE  CrashLosesNothing
<1> SUFFICES ASSUME damage = "none" PROVE CrashLosesNothing
  BY DEF CrashLosesNothing, RecoversCommitted, SoundLogReplays
<1>1. PICK t \in Strings, lo \in Nat, hi \in Nat : Tells(t, lo, hi)
  BY DEF Lossless
<1>2. CASE ~crashed
  <2>1. outcome = "none"
    BY <1>2 DEF JournalInv, WriterFirst, Kept, Laying
  <2> QED BY <2>1 DEF CrashLosesNothing, RecoversCommitted, SoundLogReplays
<1>3. CASE crashed
  <2>1. SoundLogReplays
    BY <1>1, <1>3, StoppedFacts DEF SoundLogReplays, ReaderIs
  <2>2. RecoversCommitted
    BY <1>1, <1>3, PresentsTheString DEF RecoversCommitted
  <2> QED BY <2>1, <2>2 DEF CrashLosesNothing
<1> QED
  BY <1>2, <1>3

\* The log of a new filesystem tells a string with nothing in it.
LEMMA LosslessBegins == Init => Lossless
<1> SUFFICES ASSUME Init, damage = "none"
             PROVE  \E t \in Strings, lo \in Nat, hi \in Nat : Tells(t, lo, hi)
  BY DEF Lossless
<1>1. Fresh
  BY DEF Init
<1> DEFINE x == [pos |-> 0, homes |-> {}, revokes |-> {}, split |-> FALSE]
           t == [k \in Nat |-> x]
<1>2. x \in Record /\ x.pos = 0 /\ x.homes = {} /\ x.revokes = {}
  BY DEF Record
<1> HIDE DEF x
<1>3. t \in Strings /\ t[1] = x
  BY <1>2 DEF Strings
<1> HIDE DEF t
<1>4. Size(x) = 1 /\ End(x) = 1
  <2>1. Size(x) = 1
    BY <1>2, EmptyRecord
  <2> QED BY <1>2, <2>1 DEF End
<1>5. Span \in Nat \ {0} /\ First \in Nat
  BY RingAssumption DEF Span
<1>6. Ring(0) = First
  <2>1. 0 % Span = 0
    <3> HIDE DEF Span
    <3> QED BY <1>5
  <2> QED BY <1>5, <2>1 DEF Ring
<1>7. Strung(t, 1, 1)
  <2>1. (\A k \in 1..(1 - 1) : FALSE) /\ (\A i, j \in 1..1 : ~(i < j)) /\ \A k \in 1..1 : k = 1
    OBVIOUS
  <2>2. End(t[1]) - t[1].pos <= Span
    <3> HIDE DEF Span
    <3> QED BY <1>2, <1>3, <1>4, <1>5
  <2>3. 1 <= 1
    OBVIOUS
  <2> QED BY <1>2, <1>3, <2>1, <2>2, <2>3 DEF Strung
<1>8. \A k \in 1..(1 - 1) : FALSE
  OBVIOUS
<1>9. LogHolds(t, 1, 1)
  <2>1. \A p \in Positions : log[p].kind \notin Headers
    BY <1>1 DEF Fresh, Unwritten, LogBlock, Headers
  <2> QED BY <1>1, <1>8, <2>1 DEF LogHolds, Fresh
<1>10. Values(t, 1, 1)
  BY <1>8 DEF Values, Init
<1>11. WriterIs(t, 1, 1)
  <2>1. /\ live = << >> /\ writing = Idle /\ head = First /\ count = 0 /\ released = {}
    BY DEF Init
  <2>2. Len(live) = 1 - 1 /\ (\A i \in 1..(1 - 1) : FALSE) /\ 1 = count + 1
    BY <2>1
  <2>3. head = Ring(t[1].pos) /\ t[1].homes = {} /\ t[1].revokes = {}
    BY <1>2, <1>3, <1>6, <2>1
  <2> QED BY <2>1, <2>2, <2>3 DEF WriterIs
<1>12. Tells(t, 1, 1)
  BY <1>1, <1>7, <1>9, <1>10, <1>11 DEF Tells, Fresh
<1> QED
  BY <1>3, <1>12

\* And every step leaves an undamaged log telling one.
LEMMA LosslessKeeps ==
    ASSUME 0 < First, MaxLen <= SeqMod, JournalInv, Lossless, [Next]_vars
    PROVE  Lossless'
<1> SUFFICES ASSUME damage' = "none"
             PROVE  \E t \in Strings, lo \in Nat, hi \in Nat : Tells(t, lo, hi)'
  BY DEF Lossless
<1>1. damage = "none" /\ ~Damage
  <2>1. ~Damage
    BY DEF Damage
  <2>2. UNCHANGED damage
    BY <2>1 DEF Next, BeginSome, Begin, Write, Commit, WriteDirectly, Checkpoint, AdvanceTail,
                MarkEmpty, Crash, Running, Recover, Read, Settled, vars
  <2> QED BY <2>1, <2>2
<1>2. PICK t \in Strings, lo \in Nat, hi \in Nat : Tells(t, lo, hi)
  BY <1>1 DEF Lossless
<1>3. CASE BeginSome
  BY <1>2, <1>3, BeginTells
<1>4. CASE Write
  BY <1>2, <1>4, WriteTells
<1>5. CASE Commit
  <2>1. hi + 1 \in Nat
    OBVIOUS
  <2> QED BY <1>2, <1>5, <2>1, CommitTells
<1>6. CASE WriteDirectly \/ Checkpoint
  BY <1>2, <1>6, HomeWritesTell
<1>7. CASE AdvanceTail
  <2>1. lo + 1 \in Nat
    OBVIOUS
  <2> QED BY <1>2, <1>7, <2>1, AdvanceTells
<1>8. CASE MarkEmpty
  BY <1>2, <1>8, MarkTells
<1>9. CASE Crash
  BY <1>2, <1>9, CrashTells
<1>10. CASE Recover \/ Read \/ Settled \/ (crashed /\ UNCHANGED vars)
  BY <1>2, <1>10, RecoverTells
<1>11. CASE ~crashed /\ UNCHANGED vars
  <2>1. UNCHANGED <<log, start, startseq, layoutOK, home, crashed, store>>
        /\ UNCHANGED <<live, writing, head, count, released>>
    BY <1>11 DEF vars, disk, writer
  <2>2. WriterIs(t, lo, hi)
    BY <1>2, <1>11 DEF Tells
  <2>3. WriterIs(t, lo, hi)'
    BY <2>1, <2>2 DEF WriterIs, Underway
  <2>4. LogHolds(t, lo, hi)' /\ Values(t, lo, hi)' /\ Strung(t, lo, hi)
    BY <1>2, <2>1 DEF Tells, LogHolds, Values
  <2>5. Tells(t, lo, hi)'
    BY <1>11, <2>1, <2>3, <2>4 DEF Tells
  <2> QED BY <2>5
<1> QED
  BY <1>1, <1>3, <1>4, <1>5, <1>6, <1>7, <1>8, <1>9, <1>10, <1>11 DEF Next

\* A crash of the writer at any moment, its last transactions half in the log and its
\* checkpoints half done, costs nothing that was committed: the replay presents every block as
\* of the last commit, and refuses no log the writer left. Block 0 of a journal is its
\* superblock, so s_first is past it and s_start zero means an empty log; s_maxlen is a
\* 32-bit number, as the sequences are.
THEOREM CrashesLoseNothing == 0 < First /\ MaxLen <= SeqMod => (Spec => []CrashLosesNothing)
<1> SUFFICES ASSUME 0 < First, MaxLen <= SeqMod PROVE Spec => []CrashLosesNothing
  OBVIOUS
<1>1. Init => JournalInv /\ Lossless
  BY JournalBegins, LosslessBegins
<1>2. JournalInv /\ Lossless /\ [Next]_vars => (JournalInv /\ Lossless)'
  BY JournalKeeps, LosslessKeeps
<1>3. JournalInv /\ Lossless => CrashLosesNothing
  BY ToldIsRecovered
<1> QED
  BY <1>1, <1>2, <1>3, PTL DEF Spec
=============================================================================
