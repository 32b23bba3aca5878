---------------------------- MODULE WriterProofs ----------------------------
(***************************************************************************)
(* What a writer takes and what it leaves alone: the blocks the allocator  *)
(* of an ext volume hands out, and the files around an artifact.           *)
(*                                                                         *)
(* For every geometry, metadata layout and sequence of requests: nothing   *)
(* below the cursor is free, a shortage is real, and the allocator         *)
(* implements FreeSpace. `allocate` never looks below the cursor, so that  *)
(* what it gathers is all that is free needs NothingFreeBelow; and that    *)
(* the gathered blocks are exactly the free ones between the cursor and    *)
(* the scan, as many as the request lacks no more, is the strengthening    *)
(* Gathering. Measuring says the same of the search for one run.           *)
(*                                                                         *)
(* A run of the tool keeps its source, for any number of runs at once, any *)
(* requests, any number of pieces and whatever other processes do. A run   *)
(* cuts a file only when the handle it opened is not of the files it       *)
(* reads; those were set when it looked, from the same name its source was *)
(* opened by. So where the name had not moved by then, what is held is     *)
(* among them from the look until the handle is judged.                    *)
(***************************************************************************)
EXTENDS BlockAllocator, Destination, FiniteSetTheorems, SequenceTheorems, TLAPS

Held == Covered(ranges) \cup (IF pc = "extend" THEN start..(i - 1) ELSE {})
Window == {b \in Free : cursor <= b /\ b < i}
Progress == wanted - remaining + (IF pc = "extend" THEN i - start ELSE 0)

Gathering ==
    pc \in {"find", "extend"} =>
        /\ cursor <= i
        /\ Held = Window
        /\ IsFiniteSet(Window) /\ Cardinality(Window) = Progress
        /\ 0 < remaining /\ remaining <= wanted
        /\ pc = "extend" => cursor <= start /\ start <= i /\ i - start <= remaining

\* No run long enough begins before the position the search has reached.
Measuring ==
    pc \in {"find_run", "extend_run"} =>
        /\ \A s \in Real : s < (IF pc = "find_run" THEN i ELSE start)
                             => \E b \in s..(s + wanted - 1) : b \notin Free
        /\ pc = "extend_run" => start <= i /\ start..(i - 1) \subseteq Free /\ start \in Real

Asking ==
    /\ pc # "idle" => wanted \in Counts /\ wanted > 0
    /\ pc \in {"idle", "find_run", "extend_run"} => ranges = << >>

IInv == TypeOK /\ NothingFreeBelow /\ Gathering /\ Measuring /\ Asking /\ ShortageIsReal

-----------------------------------------------------------------------------
(* Covered *)

LEMMA CoveredEmpty == Covered(<< >>) = {}
  BY DEF Covered

\* What a list of runs covers, with one run more.
LEMMA CoveredAppend ==
    ASSUME NEW rs \in Seq(BlockRange), NEW r \in BlockRange
    PROVE  Covered(Append(rs, r)) = Covered(rs) \cup BlocksOf(r)
<1> DEFINE long == Append(rs, r)
<1>1. /\ DOMAIN rs = 1..Len(rs) /\ Len(rs) \in Nat
      /\ DOMAIN long = 1..(Len(rs) + 1)
      /\ \A k \in DOMAIN rs : long[k] = rs[k]
      /\ long[Len(rs) + 1] = r
  BY AppendProperties, LenProperties
<1> HIDE DEF long
<1>2. DOMAIN long = DOMAIN rs \cup {Len(rs) + 1}
  BY <1>1
<1>3. \A b : (\E k \in DOMAIN long : b \in BlocksOf(long[k]))
                <=> (\E k \in DOMAIN rs : b \in BlocksOf(rs[k])) \/ b \in BlocksOf(r)
  BY <1>1, <1>2, Zenon
<1>4. Covered(long) = UNION {BlocksOf(long[k]) : k \in DOMAIN long}
  BY DEF Covered
<1>5. Covered(rs) = UNION {BlocksOf(rs[k]) : k \in DOMAIN rs}
  BY DEF Covered
<1>6. \A b : b \in Covered(long) <=> b \in Covered(rs) \/ b \in BlocksOf(r)
  BY <1>3, <1>4, <1>5, Zenon
<1> QED
  BY <1>6 DEF long

-----------------------------------------------------------------------------
(* Types *)

LEMMA TypeInit == AllocatorInit => TypeOK
<1> SUFFICES ASSUME AllocatorInit PROVE TypeOK
  OBVIOUS
<1>1. used \in SUBSET Bits
  BY GeometryAssumption DEF AllocatorInit, Bits, Real
<1>2. ranges \in Seq(BlockRange)
  BY DEF AllocatorInit
<1> QED
  BY <1>1, <1>2, GeometryAssumption DEF AllocatorInit, TypeOK, Silence

\* What a call returns is well typed, and so is the allocator it leaves.
LEMMA TypeReturn ==
    ASSUME TypeOK, NEW kind \in {"blocks", "run", "out_of_space", "no_run"},
           NEW blocks \in SUBSET Real, NEW available \in Nat, Return(kind, blocks, available),
           used' \in SUBSET Bits, cursor' \in First..Total
    PROVE  TypeOK'
<1>1. ranges' \in Seq(BlockRange)
  BY DEF Return
<1>2. First \in First..Total /\ 0 \in Nat
  BY GeometryAssumption
<1> QED
  BY <1>1, <1>2 DEF Return, TypeOK

LEMMA HeldBounds ==
    ASSUME IInv, pc \in {"find", "extend"}
    PROVE  /\ i \in First..Total /\ start \in First..Total /\ cursor \in First..Total
           /\ wanted \in Nat /\ remaining \in Nat
           /\ wanted - remaining \in Nat /\ wanted - remaining < wanted
           /\ First \in Nat /\ Total \in Nat
  BY GeometryAssumption DEF IInv, TypeOK, Gathering

\* The run being extended is one of the ranges a list may hold.
LEMMA GatheredType ==
    ASSUME IInv, pc = "extend"
    PROVE  /\ [start |-> start, len |-> i - start] \in BlockRange
           /\ Gathered \in Seq(BlockRange)
           /\ Covered(Gathered) = Held
           /\ Held = Window
           /\ start <= i /\ i - start <= remaining
<1>1. start <= i /\ i - start <= remaining /\ Held = Window
  BY DEF IInv, Gathering
<1>2. start \in Nat /\ i \in Nat /\ i - start \in Nat
  BY HeldBounds, <1>1
<1>3. [start |-> start, len |-> i - start] \in BlockRange
  BY <1>2 DEF BlockRange
<1>4. ranges \in Seq(BlockRange)
  BY DEF IInv, TypeOK
<1>5. Gathered \in Seq(BlockRange)
  BY <1>3, <1>4, AppendProperties DEF Gathered
<1>6. BlocksOf([start |-> start, len |-> i - start]) = start..(i - 1)
  BY <1>2 DEF BlocksOf
<1>7. Covered(Gathered) = Covered(ranges) \cup start..(i - 1)
  BY <1>3, <1>4, <1>6, CoveredAppend DEF Gathered
<1> QED
  BY <1>1, <1>3, <1>5, <1>7 DEF Held

LEMMA TypeStep == IInv /\ [AllocatorNext]_allocatorVars => TypeOK'
<1> SUFFICES ASSUME IInv, [AllocatorNext]_allocatorVars PROVE TypeOK'
  OBVIOUS
<1>0. TypeOK
  BY DEF IInv
<1> USE GeometryAssumption
<1>1. CASE SkipUsed
  BY <1>0, <1>1 DEF TypeOK, SkipUsed
<1>2. CASE BeginRun
  BY <1>0, <1>2 DEF TypeOK, BeginRun
<1>3. CASE ExtendRun
  BY <1>0, <1>3 DEF TypeOK, ExtendRun, RunGoesOn
<1>4. CASE EndRun
  <2>1. ranges' \in Seq(BlockRange)
    BY <1>4, GatheredType DEF EndRun
  <2>2. remaining' \in Nat
    BY <1>4, GatheredType, HeldBounds DEF EndRun
  <2> QED
    BY <1>0, <1>4, <2>1, <2>2 DEF TypeOK, EndRun
<1>5. CASE ShortRun
  BY <1>0, <1>5 DEF TypeOK, ShortRun, locals
<1>6. CASE Commit
  <2>1. Covered(Gathered) \in SUBSET Real
    BY <1>6, GatheredType DEF Commit, Window, Free
  <2>2. used' \in SUBSET Bits
    BY <1>0, <1>6 DEF Commit, MarkUsed, TypeOK
  <2>3. cursor' \in First..Total
    BY <1>0, <1>6 DEF Commit, TypeOK
  <2> QED
    BY <1>0, <1>6, <2>1, <2>2, <2>3, TypeReturn DEF Commit
<1>7. CASE TakeRun
  <2>1. start..(start + wanted - 1) \in SUBSET Real
    BY <1>0, <1>7 DEF TakeRun, TypeOK, Real
  <2>2. used' \in SUBSET Bits
    BY <1>0, <1>7 DEF TakeRun, MarkUsed, TypeOK
  <2> QED
    BY <1>0, <1>7, <2>1, <2>2, TypeReturn DEF TakeRun, TypeOK
<1>8. CASE OutOfSpace
  BY <1>0, <1>8, TypeReturn, HeldBounds DEF OutOfSpace, TypeOK
<1>9. CASE NoRun
  BY <1>0, <1>9, TypeReturn DEF NoRun, TypeOK
<1>10. CASE EmptyRequest("blocks")
  BY <1>0, <1>10 DEF TypeOK, EmptyRequest, Silence, locals
<1>11. CASE EmptyRequest("run")
  BY <1>0, <1>11 DEF TypeOK, EmptyRequest, Silence, locals
<1>12. ASSUME NEW n \in Counts, Allocate(n) PROVE TypeOK'
  BY <1>0, <1>12, CountsAssumption DEF TypeOK, Allocate, Begin, Silence
<1>13. ASSUME NEW n \in Counts, AllocateContiguous(n) PROVE TypeOK'
  BY <1>0, <1>13, CountsAssumption DEF TypeOK, AllocateContiguous, Begin, Silence
<1>14. ASSUME NEW r, MarkRange(r) PROVE TypeOK'
  BY <1>0, <1>14 DEF TypeOK, MarkRange, MarkUsed, Silence, locals
<1>15. CASE UNCHANGED allocatorVars
  BY <1>0, <1>15 DEF TypeOK, allocatorVars
<1> QED
  BY <1>1, <1>2, <1>3, <1>4, <1>5, <1>6, <1>7, <1>8, <1>9, <1>10, <1>11, <1>12, <1>13, <1>14,
     <1>15 DEF AllocatorNext, Scan, Call

-----------------------------------------------------------------------------
(* The cursor *)

\* A commit marks every free block below the position the scan reached.
LEMMA CursorStep == IInv /\ [AllocatorNext]_allocatorVars => NothingFreeBelow'
<1> SUFFICES ASSUME IInv, [AllocatorNext]_allocatorVars, NEW b \in Real, b < cursor' PROVE b \in used'
  BY DEF NothingFreeBelow
<1>0. TypeOK /\ NothingFreeBelow
  BY DEF IInv
<1>1. CASE UNCHANGED <<used, cursor>>
  BY <1>0, <1>1 DEF NothingFreeBelow
<1>2. CASE cursor' = cursor /\ used \subseteq used'
  BY <1>0, <1>2 DEF NothingFreeBelow
<1>3. CASE Commit
  <2>1. cursor' = i /\ used' = used \cup (Covered(Gathered) \cap Bits)
    BY <1>3 DEF Commit, MarkUsed
  <2>2. Covered(Gathered) = Window
    BY <1>3, GatheredType DEF Commit
  <2>3. CASE b < cursor
    BY <1>0, <2>1, <2>3 DEF NothingFreeBelow
  <2>4. CASE ~(b < cursor)
    <3>1. cursor <= b /\ b < i
      BY <1>0, <2>1, <2>4, GeometryAssumption DEF TypeOK, Real
    <3>2. b \in Bits
      BY GeometryAssumption DEF Real, Bits
    <3>3. b \in used \/ b \in Window
      BY <3>1, <3>2 DEF Window, Free, IsUsed
    <3> QED
      BY <2>1, <2>2, <3>2, <3>3
  <2> QED
    BY <2>3, <2>4
<1>4. CASE TakeRun
  BY <1>2, <1>4 DEF TakeRun, MarkUsed
<1>5. ASSUME NEW r, MarkRange(r) PROVE b \in used'
  BY <1>2, <1>5 DEF MarkRange, MarkUsed
<1> QED
  BY <1>1, <1>3, <1>4, <1>5
  DEF AllocatorNext, Scan, Call, SkipUsed, BeginRun, ExtendRun, EndRun, ShortRun, OutOfSpace, NoRun,
      EmptyRequest, Allocate, AllocateContiguous, Begin, allocatorVars

-----------------------------------------------------------------------------
(* What is gathered *)

LEMMA FreeUnchanged == ASSUME used' = used PROVE Free' = Free
  BY DEF Free, IsUsed

\* Past a used block the window is what it was.
LEMMA WindowSkips ==
    ASSUME TypeOK, i < Total, IsUsed(i), i' = i + 1, UNCHANGED <<used, cursor>>
    PROVE  Window' = Window
<1>1. Free' = Free
  BY FreeUnchanged
<1>2. i \notin Free
  BY DEF Free
<1>3. \A b \in Free : b < i + 1 <=> b < i
  BY <1>2, GeometryAssumption DEF Free, Real, TypeOK
<1> QED
  BY <1>1, <1>3 DEF Window

\* Past a free block it has one block more.
LEMMA WindowGrows ==
    ASSUME TypeOK, cursor <= i, i < Total, ~IsUsed(i), i' = i + 1, UNCHANGED <<used, cursor>>
    PROVE  Window' = Window \cup {i} /\ i \notin Window
<1>1. Free' = Free
  BY FreeUnchanged
<1>2. i \in Free
  BY GeometryAssumption DEF Free, Real, TypeOK
<1>3. \A b \in Free : b < i + 1 <=> (b < i \/ b = i)
  BY <1>2, GeometryAssumption DEF Free, Real, TypeOK
<1>4. ~(i < i)
  BY GeometryAssumption DEF TypeOK
<1>5. Window' = {b \in Free : cursor <= b /\ b < i + 1}
  BY <1>1 DEF Window
<1>6. Window = {b \in Free : cursor <= b /\ b < i}
  BY DEF Window
<1>7. \A b : b \in Window' <=> b \in Window \/ b = i
  BY <1>2, <1>3, <1>5, <1>6
<1>8. Window' = Window \cup {i}
  BY <1>7
<1> QED
  BY <1>4, <1>6, <1>8

LEMMA GatheringStep == IInv /\ [AllocatorNext]_allocatorVars => Gathering'
<1> SUFFICES ASSUME IInv, [AllocatorNext]_allocatorVars PROVE Gathering'
  OBVIOUS
<1>0. TypeOK /\ Gathering
  BY DEF IInv
<1>1. CASE SkipUsed
  <2>1. CASE pc = "find_run"
    BY <1>1, <2>1 DEF SkipUsed, Gathering
  <2>2. CASE pc = "find"
    <3>1. /\ cursor <= i /\ Held = Window /\ IsFiniteSet(Window)
          /\ Cardinality(Window) = Progress /\ 0 < remaining /\ remaining <= wanted
      BY <1>0, <2>2 DEF Gathering
    <3>2. Window' = Window
      BY <1>0, <1>1, WindowSkips DEF SkipUsed
    <3>3. Held' = Held /\ Progress' = Progress /\ pc' = "find"
      BY <1>1, <2>2 DEF SkipUsed, Held, Progress, Covered
    <3>4. cursor' <= i'
      BY <1>0, <1>1, <3>1, GeometryAssumption DEF SkipUsed, TypeOK
    <3>5. 0 < remaining' /\ remaining' <= wanted'
      BY <1>1, <3>1 DEF SkipUsed
    <3> QED
      BY <3>1, <3>2, <3>3, <3>4, <3>5 DEF Gathering
  <2> QED
    BY <1>1, <2>1, <2>2 DEF SkipUsed
<1>2. CASE BeginRun
  <2>1. CASE pc = "find_run"
    BY <1>2, <2>1 DEF BeginRun, Gathering
  <2>2. CASE pc = "find"
    <3>1. /\ cursor <= i /\ Held = Window /\ IsFiniteSet(Window)
          /\ Cardinality(Window) = Progress /\ 0 < remaining /\ remaining <= wanted
      BY <1>0, <2>2 DEF Gathering
    <3>2. Window' = Window
      BY <1>2, FreeUnchanged DEF BeginRun, Window
    <3>3. pc' = "extend" /\ start' = i /\ i' = i /\ ranges' = ranges
      BY <1>2, <2>2 DEF BeginRun
    <3>4. i \in Nat /\ wanted \in Nat /\ remaining \in Nat
      BY <2>2, HeldBounds
    <3>5. start'..(i' - 1) = {}
      BY <3>3, <3>4
    <3>6. Held' = Held
      BY <2>2, <3>3, <3>5 DEF Held, Covered
    <3>7. Progress' = Progress
      BY <1>2, <2>2, <3>3, <3>4 DEF BeginRun, Progress
    <3>8. cursor' <= start' /\ start' <= i' /\ i' - start' <= remaining' /\ cursor' <= i'
      BY <1>2, <3>1, <3>3, <3>4 DEF BeginRun
    <3>9. 0 < remaining' /\ remaining' <= wanted'
      BY <1>2, <3>1 DEF BeginRun
    <3> QED
      BY <3>1, <3>2, <3>6, <3>7, <3>8, <3>9 DEF Gathering
  <2> QED
    BY <1>2, <2>1, <2>2 DEF BeginRun
<1>3. CASE ExtendRun
  <2>1. CASE pc = "extend_run"
    BY <1>3, <2>1 DEF ExtendRun, Gathering
  <2>2. CASE pc = "extend"
    <3>1. /\ cursor <= i /\ Held = Window /\ IsFiniteSet(Window)
          /\ Cardinality(Window) = Progress /\ 0 < remaining /\ remaining <= wanted
          /\ cursor <= start /\ start <= i
      BY <1>0, <2>2 DEF Gathering
    <3>2. Window' = Window \cup {i} /\ i \notin Window
      BY <1>0, <1>3, <3>1, WindowGrows DEF ExtendRun, RunGoesOn
    <3>3. IsFiniteSet(Window') /\ Cardinality(Window') = Progress + 1
      BY <3>1, <3>2, FS_AddElement
    <3>4. i \in Nat /\ start \in Nat /\ wanted \in Nat /\ remaining \in Nat /\ cursor \in Nat
      BY <2>2, HeldBounds
    <3>5. /\ i' = i + 1 /\ i - start < remaining
          /\ UNCHANGED <<used, cursor, pc, wanted, remaining, start, ranges>>
      BY <1>3, <2>2 DEF ExtendRun, RunGoesOn
    <3>6. Progress' = Progress + 1
      BY <2>2, <3>4, <3>5 DEF Progress
    <3>7. start..(i + 1 - 1) = (start..(i - 1)) \cup {i}
      BY <3>1, <3>4
    <3>8. Held' = Covered(ranges) \cup start..(i + 1 - 1)
      <4>1. Held' = Covered(ranges)' \cup start'..(i' - 1)
        BY <2>2, <3>5 DEF Held
      <4>2. Covered(ranges)' = Covered(ranges)
        BY <3>5 DEF Covered
      <4>3. start' = start /\ i' = i + 1
        BY <3>5
      <4>4. start'..(i' - 1) = start..(i + 1 - 1)
        BY <3>4, <4>3
      <4> QED
        BY <4>1, <4>2, <4>4
    <3>9. Held = Covered(ranges) \cup start..(i - 1)
      BY <2>2 DEF Held
    <3>10. Held' = Held \cup {i}
      BY <3>7, <3>8, <3>9
    <3>11. cursor' <= start' /\ start' <= i' /\ i' - start' <= remaining' /\ cursor' <= i'
      BY <3>1, <3>4, <3>5
    <3>12. 0 < remaining' /\ remaining' <= wanted'
      BY <3>1, <3>5
    <3> QED
      BY <3>1, <3>2, <3>3, <3>6, <3>10, <3>11, <3>12 DEF Gathering
  <2> QED
    BY <1>3, <2>1, <2>2 DEF ExtendRun
<1>4. CASE EndRun
  <2>1. pc = "extend" /\ pc' = "find" /\ ranges' = Gathered
        /\ remaining' = remaining - (i - start) /\ i - start < remaining
        /\ UNCHANGED <<used, cursor, wanted, i, start>>
    BY <1>4 DEF EndRun
  <2>2. /\ cursor <= i /\ IsFiniteSet(Window) /\ Cardinality(Window) = Progress
        /\ 0 < remaining /\ remaining <= wanted /\ start <= i
    BY <1>0, <2>1 DEF Gathering
  <2>3. i \in Nat /\ start \in Nat /\ wanted \in Nat /\ remaining \in Nat /\ cursor \in Nat
    BY <2>1, HeldBounds
  <2>4. Window' = Window
    BY <2>1, FreeUnchanged DEF Window
  <2>5. Held' = Covered(Gathered)
    BY <2>1 DEF Held, Covered
  <2>6. Held' = Window
    BY <2>1, <2>5, GatheredType
  <2>7. Progress' = Progress
    BY <2>1, <2>3 DEF Progress
  <2>8. 0 < remaining' /\ remaining' <= wanted' /\ cursor' <= i'
    BY <2>1, <2>2, <2>3
  <2> QED
    BY <2>1, <2>2, <2>4, <2>6, <2>7, <2>8 DEF Gathering
<1>5. ASSUME NEW n \in Counts, Allocate(n) PROVE Gathering'
  <2>1. pc = "idle" /\ pc' = "find" /\ i' = cursor /\ wanted' = n /\ remaining' = n
        /\ n > 0 /\ UNCHANGED <<used, cursor, start, ranges>>
    BY <1>5 DEF Allocate, Begin
  <2>2. n \in Nat /\ cursor \in Nat
    BY <1>0, CountsAssumption, GeometryAssumption DEF TypeOK
  <2>3. Window' = {b \in Free' : cursor <= b /\ b < cursor}
    BY <2>1 DEF Window
  <2>4. \A b \in Free' : ~(cursor <= b /\ b < cursor)
    BY <2>2, GeometryAssumption DEF Free, Real
  <2>5. Window' = {}
    BY <2>3, <2>4
  <2>6. ranges = << >>
    BY <2>1 DEF IInv, Asking
  <2>7. Held' = {}
    BY <2>1, <2>6, CoveredEmpty DEF Held, Covered
  <2>8. Progress' = 0
    BY <2>1, <2>2 DEF Progress
  <2>9. cursor' <= i' /\ 0 < remaining' /\ remaining' <= wanted'
    BY <2>1, <2>2
  <2> QED
    BY <2>1, <2>5, <2>7, <2>8, <2>9, FS_EmptySet DEF Gathering
<1>6. CASE pc' = "idle"
  BY <1>6 DEF Gathering
<1>7. CASE ShortRun
  BY <1>7 DEF ShortRun, Gathering
<1>8. ASSUME NEW n \in Counts, AllocateContiguous(n) PROVE Gathering'
  BY <1>8 DEF AllocateContiguous, Begin, Gathering
<1>9. ASSUME NEW r, MarkRange(r) PROVE Gathering'
  BY <1>9, <1>6 DEF MarkRange
<1>10. CASE EmptyRequest("blocks") \/ EmptyRequest("run")
  BY <1>10, <1>6 DEF EmptyRequest
<1>11. CASE UNCHANGED allocatorVars
  BY <1>0, <1>11 DEF allocatorVars, Gathering, Held, Window, Progress, Free, IsUsed, Covered
<1> QED
  BY <1>1, <1>2, <1>3, <1>4, <1>5, <1>6, <1>7, <1>8, <1>9, <1>10, <1>11
  DEF AllocatorNext, Scan, Call, Commit, TakeRun, OutOfSpace, NoRun, Return

-----------------------------------------------------------------------------
(* The search for one run *)

LEMMA MeasuringStep == IInv /\ [AllocatorNext]_allocatorVars => Measuring'
<1> SUFFICES ASSUME IInv, [AllocatorNext]_allocatorVars PROVE Measuring'
  OBVIOUS
<1>0. TypeOK /\ Measuring
  BY DEF IInv
<1> DEFINE Blocked(w, s) == \E b \in s..(s + w - 1) : b \notin Free
<1>1. CASE SkipUsed
  <2>1. CASE pc = "find"
    BY <1>1, <2>1 DEF SkipUsed, Measuring
  <2>2. CASE pc = "find_run"
    <3>1. \A s \in Real : s < i => Blocked(wanted, s)
      BY <1>0, <2>2 DEF Measuring
    <3>2. i \notin Free /\ i' = i + 1 /\ wanted' = wanted /\ pc' = "find_run"
      BY <1>1, <2>2 DEF SkipUsed, Free
    <3>3. Free' = Free
      BY <1>1, FreeUnchanged DEF SkipUsed
    <3>4. wanted \in Nat /\ wanted > 0
      BY <2>2 DEF IInv, TypeOK, Asking
    <3>5. i \in i..(i + wanted - 1)
      BY <1>0, <3>4, GeometryAssumption DEF TypeOK
    <3>6. Blocked(wanted, i)
      BY <3>2, <3>5
    <3>7. \A s \in Real : s < i + 1 => s < i \/ s = i
      BY <1>0, GeometryAssumption DEF TypeOK, Real
    <3>8. \A s \in Real : s < i + 1 => Blocked(wanted, s)
      BY <3>1, <3>6, <3>7
    <3> QED
      BY <3>2, <3>3, <3>8 DEF Measuring
  <2> QED
    BY <1>1, <2>1, <2>2 DEF SkipUsed
<1>2. CASE BeginRun
  <2>1. CASE pc = "find"
    BY <1>2, <2>1 DEF BeginRun, Measuring
  <2>2. CASE pc = "find_run"
    <3>1. \A s \in Real : s < i => Blocked(wanted, s)
      BY <1>0, <2>2 DEF Measuring
    <3>2. start' = i /\ i' = i /\ wanted' = wanted /\ pc' = "extend_run" /\ i < Total
      BY <1>2, <2>2 DEF BeginRun
    <3>3. Free' = Free
      BY <1>2, FreeUnchanged DEF BeginRun
    <3>4. i \in Real /\ i..(i - 1) = {} /\ i <= i
      BY <1>0, <3>2, GeometryAssumption DEF TypeOK, Real
    <3> QED
      BY <3>1, <3>2, <3>3, <3>4 DEF Measuring
  <2> QED
    BY <1>2, <2>1, <2>2 DEF BeginRun
<1>3. CASE ExtendRun
  <2>1. CASE pc = "extend"
    BY <1>3, <2>1 DEF ExtendRun, Measuring
  <2>2. CASE pc = "extend_run"
    <3>1. /\ \A s \in Real : s < start => Blocked(wanted, s)
          /\ start <= i /\ start..(i - 1) \subseteq Free /\ start \in Real
      BY <1>0, <2>2 DEF Measuring
    <3>2. /\ i' = i + 1 /\ start' = start /\ wanted' = wanted /\ pc' = "extend_run"
          /\ i < Total /\ ~IsUsed(i)
      BY <1>3, <2>2 DEF ExtendRun, RunGoesOn
    <3>3. Free' = Free
      BY <1>3, FreeUnchanged DEF ExtendRun
    <3>4. i \in Free
      BY <1>0, <3>2, GeometryAssumption DEF Free, Real, TypeOK
    <3>5. start..(i + 1 - 1) = (start..(i - 1)) \cup {i} /\ start <= i + 1
      BY <1>0, <3>1, GeometryAssumption DEF TypeOK
    <3>6. start'..(i' - 1) = start..(i + 1 - 1)
      BY <1>0, <3>2, GeometryAssumption DEF TypeOK
    <3> QED
      BY <3>1, <3>2, <3>3, <3>4, <3>5, <3>6 DEF Measuring
  <2> QED
    BY <1>3, <2>1, <2>2 DEF ExtendRun
<1>4. CASE ShortRun
  <2>1. /\ \A s \in Real : s < start => Blocked(wanted, s)
        /\ start <= i /\ start \in Real
    BY <1>0, <1>4 DEF Measuring, ShortRun
  <2>2. /\ pc' = "find_run" /\ i' = i /\ wanted' = wanted /\ used' = used
        /\ i - start < wanted
    BY <1>4 DEF ShortRun, locals
  <2>3. i \notin Free
    <3>1. ~(i < Total /\ ~IsUsed(i))
      BY <1>4 DEF ShortRun, RunGoesOn
    <3>2. \A b \in Free : b < Total /\ ~IsUsed(b)
      BY GeometryAssumption DEF Free, Real
    <3> QED
      BY <3>1, <3>2
  <2>4. wanted \in Nat
    BY <1>0 DEF TypeOK
  <2>5. \A s \in Real : ~(s < start) /\ s < i => i \in s..(s + wanted - 1)
    BY <1>0, <2>1, <2>2, <2>4, GeometryAssumption DEF TypeOK, Real
  <2>6. \A s \in Real : s < i => Blocked(wanted, s)
    BY <2>1, <2>3, <2>5
  <2> QED
    BY <2>2, <2>6, FreeUnchanged DEF Measuring
<1>5. ASSUME NEW n \in Counts, AllocateContiguous(n) PROVE Measuring'
  <2>1. i' = First /\ pc' = "find_run"
    BY <1>5 DEF AllocateContiguous, Begin
  <2>2. \A s \in Real : ~(s < First)
    BY GeometryAssumption DEF Real
  <2> QED
    BY <2>1, <2>2 DEF Measuring
<1>6. CASE pc' \in {"idle", "find", "extend"}
  BY <1>6 DEF Measuring
<1>7. ASSUME NEW n \in Counts, Allocate(n) PROVE Measuring'
  BY <1>6, <1>7 DEF Allocate, Begin
<1>8. ASSUME NEW r, MarkRange(r) PROVE Measuring'
  BY <1>6, <1>8 DEF MarkRange
<1>9. CASE EmptyRequest("blocks") \/ EmptyRequest("run")
  BY <1>6, <1>9 DEF EmptyRequest
<1>10. CASE UNCHANGED allocatorVars
  BY <1>0, <1>10 DEF allocatorVars, Measuring, Free, IsUsed
<1> QED
  BY <1>1, <1>2, <1>3, <1>4, <1>5, <1>6, <1>7, <1>8, <1>9, <1>10
  DEF AllocatorNext, Scan, Call, Commit, TakeRun, OutOfSpace, NoRun, Return, EndRun

-----------------------------------------------------------------------------
(* What is answered *)

LEMMA AskingStep == IInv /\ [AllocatorNext]_allocatorVars => Asking'
<1> SUFFICES ASSUME IInv, [AllocatorNext]_allocatorVars PROVE Asking'
  OBVIOUS
<1>0. Asking /\ TypeOK
  BY DEF IInv
<1> QED
  BY <1>0 DEF Asking, AllocatorNext, allocatorVars, locals, Scan, Call, SkipUsed, BeginRun, ExtendRun, EndRun,
     ShortRun, Commit, TakeRun, OutOfSpace, NoRun, Return, EmptyRequest, Allocate,
     AllocateContiguous, Begin, MarkRange, TypeOK

\* At the end of the blocks what was gathered is all that is free.
LEMMA GatheredAll ==
    ASSUME IInv, OutOfSpace
    PROVE  /\ Window = Free
           /\ wanted - remaining = Cardinality(Free) /\ wanted - remaining < wanted
<1>1. pc = "find" /\ i >= Total
  BY DEF OutOfSpace
<1>2. Cardinality(Window) = wanted - remaining
  <2>1. Cardinality(Window) = Progress
    BY <1>1 DEF IInv, Gathering
  <2>2. Progress = wanted - remaining + 0
    BY <1>1 DEF Progress
  <2> QED
    BY <2>1, <2>2, <1>1, HeldBounds
<1>3. ASSUME NEW b \in Free PROVE cursor <= b /\ b < i
  <2>1. b \in Real /\ b \notin used
    BY <1>3 DEF Free, IsUsed
  <2>2. ~(b < cursor)
    BY <2>1 DEF IInv, NothingFreeBelow
  <2> QED
    BY <1>1, <2>1, <2>2, HeldBounds DEF Real
<1>4. Window = Free
  BY <1>3 DEF Window
<1> QED
  BY <1>1, <1>2, <1>4, HeldBounds

LEMMA ShortageStep == IInv /\ [AllocatorNext]_allocatorVars => ShortageIsReal'
<1> SUFFICES ASSUME IInv, [AllocatorNext]_allocatorVars PROVE ShortageIsReal'
  OBVIOUS
<1>0. ShortageIsReal
  BY DEF IInv
<1>1. CASE OutOfSpace
  <2>1. answer' = [kind |-> "out_of_space", asked |-> wanted, blocks |-> {},
                   available |-> wanted - remaining]
    BY <1>1 DEF OutOfSpace, Return
  <2>2. Free' = Free
    BY <1>1, FreeUnchanged DEF OutOfSpace
  <2> QED
    BY <1>1, <2>1, <2>2, GatheredAll DEF ShortageIsReal
<1>2. CASE UNCHANGED <<used, answer>>
  BY <1>0, <1>2 DEF ShortageIsReal, Free, IsUsed
<1>3. CASE answer'.kind # "out_of_space"
  BY <1>3 DEF ShortageIsReal
<1>4. ASSUME NEW n \in Counts, Allocate(n) PROVE ShortageIsReal'
  BY <1>3, <1>4 DEF Allocate, Begin, Silence
<1>5. ASSUME NEW n \in Counts, AllocateContiguous(n) PROVE ShortageIsReal'
  BY <1>3, <1>5 DEF AllocateContiguous, Begin, Silence
<1>6. ASSUME NEW r, MarkRange(r) PROVE ShortageIsReal'
  BY <1>3, <1>6 DEF MarkRange, Silence
<1>7. CASE EmptyRequest("blocks") \/ EmptyRequest("run")
  BY <1>3, <1>7 DEF EmptyRequest, Silence
<1>8. CASE Commit \/ TakeRun \/ NoRun
  BY <1>3, <1>8 DEF Commit, TakeRun, NoRun, Return
<1> QED
  BY <1>1, <1>2, <1>4, <1>5, <1>6, <1>7, <1>8
  DEF AllocatorNext, Scan, Call, SkipUsed, BeginRun, ExtendRun, EndRun, ShortRun, locals, allocatorVars

-----------------------------------------------------------------------------

LEMMA IInvInit == AllocatorInit => IInv
<1> SUFFICES ASSUME AllocatorInit PROVE IInv
  OBVIOUS
<1>1. TypeOK
  BY TypeInit
<1>2. NothingFreeBelow
  BY GeometryAssumption DEF AllocatorInit, NothingFreeBelow, Real
<1> QED
  BY <1>1, <1>2 DEF AllocatorInit, IInv, Gathering, Measuring, Asking, ShortageIsReal, Silence

LEMMA IInvStep == IInv /\ [AllocatorNext]_allocatorVars => IInv'
  BY TypeStep, CursorStep, GatheringStep, MeasuringStep, AskingStep, ShortageStep DEF IInv

LEMMA Invariance == AllocatorSpec => []IInv
  BY IInvInit, IInvStep, PTL DEF AllocatorSpec

\* Every variable of the allocator keeps its type, whatever is asked of it.
THEOREM TypeCorrect == AllocatorSpec => []TypeOK
<1>1. IInv => TypeOK
  BY DEF IInv
<1> QED
  BY <1>1, Invariance, PTL

\* No block below the cursor is free: `allocate` misses nothing by starting there.
THEOREM CursorIsSound == AllocatorSpec => []NothingFreeBelow
<1>1. IInv => NothingFreeBelow
  BY DEF IInv
<1> QED
  BY <1>1, Invariance, PTL

\* OutOfSpace is answered only when fewer blocks are free than were asked for, and
\* reports how many are.
THEOREM ShortagesAreReal == AllocatorSpec => []ShortageIsReal
<1>1. IInv => ShortageIsReal
  BY DEF IInv
<1> QED
  BY <1>1, Invariance, PTL

-----------------------------------------------------------------------------
(* The allocator implements FreeSpace *)

LEMMA InitMaps == AllocatorInit => Pool!Init
  BY DEF AllocatorInit, Pool!Init, Pool!Silence, Silence, Free

\* What is marked leaves the pool, and nothing else does.
LEMMA MarkTakes ==
    ASSUME NEW S, MarkUsed(S)
    PROVE  Free' = Free \ S
  BY DEF MarkUsed, Free, IsUsed

\* FreeSpace counts with the same Cardinality.
LEMMA SameCardinality == \A S : Pool!Cardinality(S) = Cardinality(S)
  BY DEF Pool!Cardinality, Cardinality

LEMMA CommitMaps == IInv /\ Commit => Pool!Grant(wanted)
<1> SUFFICES ASSUME IInv, Commit PROVE Pool!Grant(wanted)
  OBVIOUS
<1>1. pc = "extend" /\ i - start >= remaining
  BY DEF Commit
<1>2. /\ Cardinality(Window) = Progress
      /\ cursor <= i /\ i - start <= remaining /\ start <= i
  BY <1>1 DEF IInv, Gathering
<1>3. Progress = wanted - remaining + (i - start)
  BY <1>1 DEF Progress
<1>4. Cardinality(Window) = wanted
  BY <1>1, <1>2, <1>3, HeldBounds
<1>5. Covered(Gathered) = Window
  BY <1>1, GatheredType
<1>6. Free' = Free \ Window
  BY <1>5, MarkTakes DEF Commit
<1>7. answer' = [kind |-> "blocks", asked |-> wanted, blocks |-> Window, available |-> 0]
  BY <1>5 DEF Commit, Return
<1>8. Window \in SUBSET Free
  BY DEF Window
<1>9. ASSUME NEW b \in Window, NEW f \in Free \ Window PROVE b < f
  <2>1. b < i /\ b \in Real /\ f \in Real /\ ~(cursor <= f /\ f < i)
    BY <1>9 DEF Window, Free
  <2>2. ~(f < cursor)
    BY <1>9 DEF IInv, NothingFreeBelow, Free, IsUsed
  <2> QED
    BY <1>1, <2>1, <2>2, HeldBounds DEF Real
<1> QED
  BY <1>4, <1>6, <1>7, <1>8, <1>9, SameCardinality DEF Pool!Grant

LEMMA OutOfSpaceMaps == IInv /\ OutOfSpace => Pool!Refuse(wanted)
<1> SUFFICES ASSUME IInv, OutOfSpace PROVE Pool!Refuse(wanted)
  OBVIOUS
<1>1. Cardinality(Free) < wanted /\ wanted - remaining = Cardinality(Free)
  BY GatheredAll
<1>2. Free' = Free
  BY FreeUnchanged DEF OutOfSpace
<1> QED
  BY <1>1, <1>2, SameCardinality DEF OutOfSpace, Return, Pool!Refuse

LEMMA TakeRunMaps == IInv /\ TakeRun => Pool!GrantRun(wanted)
<1> SUFFICES ASSUME IInv, TakeRun PROVE Pool!GrantRun(wanted)
  OBVIOUS
<1> DEFINE found == start..(start + wanted - 1)
<1>1. pc = "extend_run" /\ i - start >= wanted
  BY DEF TakeRun
<1>2. /\ \A s \in Real : s < start => \E b \in s..(s + wanted - 1) : b \notin Free
      /\ start..(i - 1) \subseteq Free /\ start \in Real
  BY <1>1 DEF IInv, Measuring
<1>3. i \in Nat /\ start \in Nat /\ wanted \in Nat
  BY GeometryAssumption DEF IInv, TypeOK
<1>4. found \subseteq Free
  <2>1. found \subseteq start..(i - 1)
    BY <1>1, <1>3
  <2> QED
    BY <2>1, <1>2
<1>5. start \in Pool!Runs(wanted)
  BY <1>2, <1>4 DEF Pool!Runs
<1>6. ASSUME NEW t \in Pool!Runs(wanted) PROVE start <= t
  <2>1. t \in Real /\ ~(t < start)
    BY <1>2 DEF Pool!Runs
  <2> QED
    BY <1>3, <2>1, GeometryAssumption DEF Real
<1>7. Free' = Free \ found
  BY MarkTakes DEF TakeRun
<1>8. answer' = [kind |-> "run", asked |-> wanted, blocks |-> found, available |-> 0]
  BY DEF TakeRun, Return
<1> QED
  BY <1>2, <1>5, <1>6, <1>7, <1>8 DEF Pool!GrantRun

LEMMA NoRunMaps == IInv /\ NoRun => Pool!RefuseRun(wanted)
<1> SUFFICES ASSUME IInv, NoRun PROVE Pool!RefuseRun(wanted)
  OBVIOUS
<1>1. pc = "find_run" /\ i >= Total
  BY DEF NoRun
<1>2. \A s \in Real : s < i => \E b \in s..(s + wanted - 1) : b \notin Free
  BY <1>1 DEF IInv, Measuring
<1>3. \A s \in Real : s < i
  BY <1>1, GeometryAssumption DEF IInv, TypeOK, Real
<1>4. Pool!Runs(wanted) = {}
  BY <1>2, <1>3 DEF Pool!Runs
<1>5. Free' = Free /\ wanted > 0
  BY <1>1, FreeUnchanged DEF NoRun, IInv, Asking
<1> QED
  BY <1>4, <1>5 DEF NoRun, Return, Pool!RefuseRun

LEMMA EmptyRequestMaps ==
    ASSUME EmptyRequest("blocks") \/ EmptyRequest("run")
    PROVE  Pool!Grant(0) \/ Pool!GrantRun(0)
<1>1. Free' = Free
  BY FreeUnchanged DEF EmptyRequest
<1>2. CASE EmptyRequest("blocks")
  <2>1. answer' = [kind |-> "blocks", asked |-> 0, blocks |-> {}, available |-> 0]
    BY <1>2 DEF EmptyRequest, Silence
  <2> QED
    BY <1>1, <2>1, FS_EmptySet, SameCardinality DEF Pool!Grant
<1>3. CASE EmptyRequest("run")
  <2>1. answer' = [kind |-> "run", asked |-> 0, blocks |-> {}, available |-> 0]
    BY <1>3 DEF EmptyRequest, Silence
  <2>2. First \in Real /\ \A t \in Real : First <= t /\ t..(t + 0 - 1) = {}
    BY GeometryAssumption DEF Real
  <2>3. First \in Pool!Runs(0) /\ \A t \in Pool!Runs(0) : First <= t
    BY <2>2 DEF Pool!Runs
  <2> QED
    BY <1>1, <2>1, <2>2, <2>3 DEF Pool!GrantRun
<1> QED
  BY <1>2, <1>3

LEMMA StepMaps == IInv /\ [AllocatorNext]_allocatorVars => [Pool!Next]_(Pool!vars)
<1> SUFFICES ASSUME IInv, [AllocatorNext]_allocatorVars PROVE [Pool!Next]_(Pool!vars)
  OBVIOUS
<1>1. ASSUME UNCHANGED <<used, answer>> PROVE UNCHANGED Pool!vars
  BY <1>1, FreeUnchanged DEF Pool!vars
<1>2. CASE SkipUsed \/ BeginRun \/ ExtendRun \/ EndRun \/ ShortRun \/ UNCHANGED allocatorVars
  BY <1>1, <1>2 DEF SkipUsed, BeginRun, ExtendRun, EndRun, ShortRun, allocatorVars
<1>3. ASSUME pc # "idle" PROVE wanted \in Counts
  BY <1>3 DEF IInv, Asking
<1>4. CASE Commit
  BY <1>3, <1>4, CommitMaps DEF Commit, Pool!Next
<1>5. CASE TakeRun
  BY <1>3, <1>5, TakeRunMaps DEF TakeRun, Pool!Next
<1>6. CASE OutOfSpace
  BY <1>3, <1>6, OutOfSpaceMaps DEF OutOfSpace, Pool!Next
<1>7. CASE NoRun
  BY <1>3, <1>7, NoRunMaps DEF NoRun, Pool!Next
<1>8. CASE EmptyRequest("blocks") \/ EmptyRequest("run")
  BY <1>8, EmptyRequestMaps DEF EmptyRequest, Pool!Next
<1>9. ASSUME NEW n \in Counts, Allocate(n) \/ AllocateContiguous(n) PROVE Pool!Next
  <2>1. Free' = Free /\ answer' = Silence
    BY <1>9, FreeUnchanged DEF Allocate, AllocateContiguous, Begin
  <2> QED
    BY <2>1 DEF Pool!Ask, Pool!Next, Pool!Silence, Silence
<1>10. ASSUME NEW r, MarkRange(r) PROVE Pool!Next
  <2>1. Free' \in SUBSET Free /\ answer' = Silence
    BY <1>10, MarkTakes DEF MarkRange
  <2> QED
    BY <2>1 DEF Pool!Withdraw, Pool!Next, Pool!Silence, Silence
<1> QED
  BY <1>2, <1>4, <1>5, <1>6, <1>7, <1>8, <1>9, <1>10 DEF AllocatorNext, Scan, Call

\* The allocator is a pool of free blocks that grants the lowest n, or the first run
\* of n, and refuses only what it does not have.
THEOREM Implementation == AllocatorSpec => ImplementsFreeSpace
  BY Invariance, IInvInit, InitMaps, StepMaps, PTL DEF AllocatorSpec, ImplementsFreeSpace, Pool!Spec

-----------------------------------------------------------------------------
\* The destination of an artifact.

\* What holds of one run: it holds a source before it looks at it, what it
\* holds is then among what it reads, and it has read and cut nothing else.
KeptBy(r) ==
    /\ asked[r].source = "memory" => run[r].held = None
    /\ run[r].pc \in {"start", "opened"} => run[r].cut = None /\ run[r].took = {}
    /\ run[r].pc = "judging" => InPlace(r)
    /\ run[r].pc \in {"looked", "checked", "judging"} =>
          /\ run[r].cut = None
          /\ InPlace(r) /\ ~run[r].moved /\ run[r].held # None =>
                run[r].held \in run[r].reads
    /\ run[r].took \subseteq {run[r].held}
    /\ ~run[r].moved /\ run[r].held # None => run[r].cut # run[r].held

Kept == DOMAIN run = Runs /\ \A r \in Runs : KeptBy(r)

-----------------------------------------------------------------------------
\* The two ways a step changes a run.

\* What a step names changes, and the rest of the run, and every other run, stays.
LEMMA StepChanges ==
    ASSUME NEW r \in Runs, DOMAIN run = Runs, NEW changes, Step(r, changes)
    PROVE  /\ DOMAIN run' = Runs
           /\ \A q \in Runs \ {r} : run'[q] = run[q]
           /\ run'[r] = [f \in DOMAIN Fresh |->
                            IF f \in DOMAIN changes THEN changes[f] ELSE run[r][f]]
BY DEF Step

\* A run that ends holds, reads and has cut nothing any more.
LEMMA EndForgets ==
    ASSUME NEW r \in Runs, DOMAIN run = Runs, NEW how, End(r, how)
    PROVE  /\ DOMAIN run' = Runs
           /\ \A q \in Runs \ {r} : run'[q] = run[q]
           /\ run'[r] = [Fresh EXCEPT !.pc = how]
BY DEF End

\* A run that ended is kept, whatever ended it.
LEMMA EndedIsKept ==
    ASSUME NEW r \in Runs, NEW how \in {"done", "failed", "killed"},
           run'[r] = [Fresh EXCEPT !.pc = how]
    PROVE  KeptBy(r)'
BY DEF KeptBy, Fresh, None

\* A run nothing happens to is kept.
LEMMA UntouchedIsKept ==
    ASSUME NEW r \in Runs, KeptBy(r), run'[r] = run[r], UNCHANGED asked
    PROVE  KeptBy(r)'
BY DEF KeptBy, InPlace

\* A run's own steps keep it.
LEMMA OpenSourceKeeps ==
    ASSUME NEW r \in Runs, DOMAIN run = Runs, KeptBy(r), OpenSource(r)
    PROVE  DOMAIN run' = Runs /\ (\A q \in Runs \ {r} : run'[q] = run[q]) /\ KeptBy(r)'
<1>1. CASE asked[r].source = "memory"
  <2>1. Step(r, [pc |-> "opened"]) BY <1>1 DEF OpenSource
  <2> QED BY <1>1, <2>1 DEF OpenSource, Step, KeptBy, Fresh, Going, Rest, InPlace
<1>2. CASE asked[r].source # "memory"
  <2>1. Step(r, [pc |-> "opened", held |-> names["src"]]) BY <1>2 DEF OpenSource
  <2> QED BY <1>2, <2>1 DEF OpenSource, Step, KeptBy, Fresh, Going, Rest, InPlace, None
<1> QED BY <1>1, <1>2

LEMMA LookKeeps ==
    ASSUME NEW r \in Runs, DOMAIN run = Runs, KeptBy(r), Look(r)
    PROVE  DOMAIN run' = Runs /\ (\A q \in Runs \ {r} : run'[q] = run[q]) /\ KeptBy(r)'
<1> DEFINE reads == IF asked[r].source = "memory" \/ (asked[r].command = "format" /\ asked[r].atomic)
                    THEN {} ELSE {names["src"]} \ {None}
<1>0. UNCHANGED asked BY DEF Look, Rest
<1>1. CASE End(r, "failed")
  BY <1>1, EndForgets, EndedIsKept
<1>2. CASE Step(r, [pc |-> "looked", reads |-> reads, moved |-> names["src"] # run[r].held])
  <2>1. /\ run'[r].pc = "looked" /\ run'[r].reads = reads
        /\ run'[r].moved = (names["src"] # run[r].held)
        /\ run'[r].held = run[r].held /\ run'[r].cut = run[r].cut /\ run'[r].took = run[r].took
        /\ DOMAIN run' = Runs /\ \A q \in Runs \ {r} : run'[q] = run[q]
    <3> HIDE DEF reads
    <3> QED BY <1>2 DEF Step, Fresh
  <2>2. run[r].pc = "opened" BY DEF Look, Going
  <2>3. InPlace(r) /\ ~run'[r].moved /\ run[r].held # None => run[r].held \in reads
    BY <2>1 DEF KeptBy, InPlace
  <2>4. run[r].cut = None BY <2>2 DEF KeptBy
  <2> QED
    <3> HIDE DEF reads
    <3> QED BY <1>0, <2>1, <2>2, <2>3, <2>4 DEF KeptBy, InPlace
<1> QED BY <1>1, <1>2 DEF Look

LEMMA CheckKindKeeps ==
    ASSUME NEW r \in Runs, DOMAIN run = Runs, KeptBy(r), CheckKind(r)
    PROVE  DOMAIN run' = Runs /\ (\A q \in Runs \ {r} : run'[q] = run[q]) /\ KeptBy(r)'
<1>0. UNCHANGED asked BY DEF CheckKind, Rest
<1>1. CASE End(r, "failed")
  BY <1>1, EndForgets, EndedIsKept
<1>2. CASE Step(r, [pc |-> "checked"])
  BY <1>0, <1>2 DEF CheckKind, Going, Step, KeptBy, Fresh, InPlace
<1> QED BY <1>1, <1>2 DEF CheckKind

LEMMA OpenTempKeeps ==
    ASSUME NEW r \in Runs, DOMAIN run = Runs, KeptBy(r), OpenTemp(r)
    PROVE  DOMAIN run' = Runs /\ (\A q \in Runs \ {r} : run'[q] = run[q]) /\ KeptBy(r)'
<1>0. UNCHANGED asked BY DEF OpenTemp, Rest
<1>1. CASE End(r, "failed")
  BY <1>1, EndForgets, EndedIsKept
<1>2. CASE Step(r, [pc |-> "writing", file |-> r])
  BY <1>0, <1>2 DEF OpenTemp, Going, Step, KeptBy, Fresh, InPlace
<1> QED BY <1>1, <1>2 DEF OpenTemp

LEMMA OpenOutKeeps ==
    ASSUME NEW r \in Runs, DOMAIN run = Runs, KeptBy(r), OpenOut(r)
    PROVE  DOMAIN run' = Runs /\ (\A q \in Runs \ {r} : run'[q] = run[q]) /\ KeptBy(r)'
<1>0. UNCHANGED asked /\ InPlace(r) /\ run[r].pc = "checked" BY DEF OpenOut, Rest, Going
<1>1. PICK file : Step(r, [pc |-> "judging", file |-> file])
  BY DEF OpenOut
<1> QED BY <1>0, <1>1 DEF Step, KeptBy, Fresh, InPlace

LEMMA JudgeKeeps ==
    ASSUME NEW r \in Runs, DOMAIN run = Runs, KeptBy(r), Judge(r)
    PROVE  DOMAIN run' = Runs /\ (\A q \in Runs \ {r} : run'[q] = run[q]) /\ KeptBy(r)'
<1>0. UNCHANGED asked /\ run[r].pc = "judging" BY DEF Judge, Rest, Going
<1>1. CASE End(r, "failed")
  BY <1>1, EndForgets, EndedIsKept
<1>2. CASE Step(r, [pc |-> "writing"])
  BY <1>0, <1>2 DEF Step, KeptBy, Fresh, InPlace
<1>3. CASE run[r].file \notin run[r].reads /\ Step(r, [pc |-> "writing", cut |-> run[r].file])
  BY <1>0, <1>3 DEF Step, KeptBy, Fresh, InPlace
<1> QED BY <1>1, <1>2, <1>3 DEF Judge

LEMMA WalkKeeps ==
    ASSUME NEW r \in Runs, DOMAIN run = Runs, KeptBy(r), LookAtWalked(r) \/ OpenWalked(r)
    PROVE  DOMAIN run' = Runs /\ (\A q \in Runs \ {r} : run'[q] = run[q]) /\ KeptBy(r)'
<1>0. UNCHANGED asked /\ run[r].pc = "writing" BY DEF LookAtWalked, OpenWalked, Rest, Going
<1>1. CASE Step(r, [seen |-> TRUE])
  BY <1>0, <1>1 DEF Step, KeptBy, Fresh, InPlace
<1>2. CASE Step(r, [handle |-> names["src"]])
  BY <1>0, <1>2 DEF Step, KeptBy, Fresh, InPlace
<1> QED BY <1>1, <1>2 DEF LookAtWalked, OpenWalked

\* The handle read is of what is held: checked, or held from the start.
LEMMA TakenIsHeld ==
    ASSUME NEW r \in Runs, Checked(r)
    PROVE  Taken(r) \subseteq {run[r].held}
BY DEF Checked, Taken, Walks

LEMMA WritePieceKeeps ==
    ASSUME NEW r \in Runs, DOMAIN run = Runs, KeptBy(r), WritePiece(r)
    PROVE  DOMAIN run' = Runs /\ (\A q \in Runs \ {r} : run'[q] = run[q]) /\ KeptBy(r)'
<1>0. UNCHANGED asked /\ run[r].pc = "writing" /\ Taken(r) \subseteq {run[r].held}
  BY TakenIsHeld DEF WritePiece, Rest, Going
<1>1. PICK at \in {"writing", "written"} : \E left, good :
        Step(r, [pc |-> at, left |-> left, good |-> good, seen |-> FALSE,
                 handle |-> None, took |-> run[r].took \cup Taken(r)])
  BY DEF WritePiece
<1>2. /\ run'[r].pc = at /\ run'[r].took = run[r].took \cup Taken(r)
      /\ run'[r].held = run[r].held /\ run'[r].cut = run[r].cut
      /\ run'[r].moved = run[r].moved /\ run'[r].reads = run[r].reads
      /\ DOMAIN run' = Runs /\ \A q \in Runs \ {r} : run'[q] = run[q]
  BY <1>1 DEF Step, Fresh
<1> QED BY <1>0, <1>1, <1>2 DEF KeptBy, InPlace

LEMMA CommitKeeps ==
    ASSUME NEW r \in Runs, DOMAIN run = Runs, KeptBy(r), Sync(r) \/ Publish(r) \/ Finish(r)
    PROVE  DOMAIN run' = Runs /\ (\A q \in Runs \ {r} : run'[q] = run[q]) /\ KeptBy(r)'
<1>0. UNCHANGED asked /\ run[r].pc \in {"written", "synced", "published"}
  BY DEF Sync, Publish, Finish, Rest, Going
<1>1. CASE End(r, "done")
  BY <1>1, EndForgets, EndedIsKept
<1>2. CASE Step(r, [pc |-> "synced"]) \/ Step(r, [pc |-> "published"])
  BY <1>0, <1>2 DEF Step, KeptBy, Fresh, InPlace
<1> QED BY <1>1, <1>2 DEF Sync, Publish, Finish

LEMMA StopKeeps ==
    ASSUME NEW r \in Runs, DOMAIN run = Runs, KeptBy(r), Fail(r) \/ Kill(r)
    PROVE  DOMAIN run' = Runs /\ (\A q \in Runs \ {r} : run'[q] = run[q]) /\ KeptBy(r)'
<1>1. PICK how \in {"failed", "killed"} : End(r, how) BY DEF Fail, Kill
<1> QED BY <1>1, EndForgets, EndedIsKept

-----------------------------------------------------------------------------
\* The invariant holds before any run begins.
LEMMA KeptAtFirst == Init => Kept
BY DEF Init, Kept, KeptBy, Fresh, None

\* Every step keeps it.
LEMMA KeptByStep == Kept /\ [Next]_vars => Kept'
<1> SUFFICES ASSUME Kept, [Next]_vars PROVE Kept'
  OBVIOUS
<1>1. DOMAIN run = Runs /\ \A r \in Runs : KeptBy(r) BY DEF Kept
<1>2. CASE \E r \in Runs : Run(r)
  <2>1. PICK r \in Runs : Run(r) BY <1>2
  <2>2. UNCHANGED asked
    BY <2>1 DEF Run, OpenSource, Look, CheckKind, OpenTemp, OpenOut, Judge, LookAtWalked,
                OpenWalked, WritePiece, Sync, Publish, Finish, Fail, Kill, Rest
  <2>3. DOMAIN run' = Runs /\ (\A q \in Runs \ {r} : run'[q] = run[q]) /\ KeptBy(r)'
    BY <1>1, <2>1, OpenSourceKeeps, LookKeeps, CheckKindKeeps, OpenTempKeeps, OpenOutKeeps,
       JudgeKeeps, WalkKeeps, WritePieceKeeps, CommitKeeps, StopKeeps DEF Run
  <2>4. \A q \in Runs \ {r} : KeptBy(q)'
    BY <1>1, <2>2, <2>3, UntouchedIsKept
  <2> QED BY <2>3, <2>4 DEF Kept
<1>3. CASE SomeoneRenames \/ SomeoneTakesTemp \/ UNCHANGED vars
  <2>1. UNCHANGED <<run, asked>> BY <1>3 DEF SomeoneRenames, SomeoneTakesTemp, vars
  <2> QED BY <1>1, <2>1, UntouchedIsKept DEF Kept
<1>4. CASE PowerLoss
  <2>1. run' = [r \in Runs |-> [Fresh EXCEPT !.pc = "killed"]] BY <1>4 DEF PowerLoss
  <2>2. \A r \in Runs : run'[r] = [Fresh EXCEPT !.pc = "killed"] BY <2>1
  <2>3. \A r \in Runs : KeptBy(r)' BY <2>2, EndedIsKept
  <2> QED BY <2>1, <2>3 DEF Kept
<1> QED BY <1>2, <1>3, <1>4 DEF Next, Over

\* A source still under its name when the run looked is never cut, and all a run
\* writes is read from the file its source was: for every number of runs, whatever
\* is renamed in between (dest.rs, Reads::refuse; host.rs, Walked::open).
THEOREM KeepsItsSource == Spec => []SourceIsKept
<1>1. Kept => SourceIsKept
  BY DEF Kept, KeptBy, SourceIsKept, SourceIsNotCut, ReadsWhatWasWalked
<1> QED BY <1>1, KeptAtFirst, KeptByStep, PTL DEF Spec

-----------------------------------------------------------------------------
(***************************************************************************)
(* A run touches only its own. A temporary name leads to the file its run  *)
(* made only while that run owns it or was killed owning it, so a run that *)
(* ended left none; one somebody took first is opened by no run, so it is  *)
(* not removed by one.                                                     *)
(***************************************************************************)
BeforeWriting == {"start", "opened", "looked", "checked", "judging"}

\* What a run and its temporary name are to each other.
OwnBy(r) ==
    /\ run[r].pc \in BeforeWriting => run[r].left = Pieces
    /\ asked[r].atomic => run[r].file \in {None, r} /\ run[r].pc # "judging"
    /\ ~asked[r].atomic => run[r].pc \notin {"synced", "published"}
    /\ names[r] = r =>
          asked[r].atomic /\ run[r].pc \in {"writing", "written", "synced", "killed"}
    /\ r \in stale =>
          /\ names[r] = "old"
          /\ asked[r].atomic => run[r].pc \notin {"writing", "written", "synced", "published"}
    /\ asked[r].command = "format" /\
       (run[r].pc \in {"writing", "written", "synced", "published"} \/ run[r].left # Pieces) =>
          run[r].file # "device"

Own == /\ DOMAIN run = Runs /\ DOMAIN names = Names
       /\ \A r \in Runs : OwnBy(r)

\* The other runs' temporary names are left as they were.
Apart(r) == /\ DOMAIN run' = Runs /\ DOMAIN names' = Names
            /\ \A q \in Runs \ {r} : run'[q] = run[q] /\ names'[q] = names[q]

\* No run has the name of a destination, of a source or of a file from before.
LEMMA RunsAreNew ==
    ASSUME NEW r \in Runs
    PROVE  /\ r \in Names
           /\ r \notin {"out", "src", "archive", "old", "device", None, Link}
BY RunsAssumption DEF Names, Temp, None, Link

\* A renaming changes the names it names.
LEMMA RenameChanges ==
    ASSUME NEW changes, Rename(changes)
    PROVE  /\ DOMAIN names' = Names
           /\ \A n \in Names : names'[n] = IF n \in DOMAIN changes THEN changes[n] ELSE names[n]
BY DEF Rename

\* A run that ended without a temporary name of its own touches only its own.
LEMMA EndedOwns ==
    ASSUME NEW r \in Runs, OwnBy(r), NEW how \in {"done", "failed"},
           run'[r] = [Fresh EXCEPT !.pc = how], UNCHANGED <<asked, stale>>,
           names'[r] # r, r \in stale => names'[r] = "old"
    PROVE  OwnBy(r)'
<1>1. /\ run'[r].pc = how /\ run'[r].left = Pieces /\ run'[r].file = None
  BY DEF Fresh
<1>2. None # "device" BY DEF None
<1> QED BY <1>1, <1>2 DEF OwnBy, BeforeWriting

\* A run and a name nothing happens to stay as they are.
LEMMA UntouchedOwns ==
    ASSUME NEW r \in Runs, OwnBy(r), run'[r] = run[r], names'[r] = names[r],
           UNCHANGED <<asked, stale>>
    PROVE  OwnBy(r)'
BY DEF OwnBy

\* Before it opens anything a run has nothing of its own.
LEMMA EarlyStepsOwn ==
    ASSUME NEW r \in Runs, DOMAIN run = Runs, DOMAIN names = Names, OwnBy(r),
           OpenSource(r) \/ Look(r) \/ CheckKind(r)
    PROVE  Apart(r) /\ OwnBy(r)'
<1>0. /\ UNCHANGED <<names, asked, stale>>
      /\ run[r].pc \in {"start", "opened", "looked"}
  BY DEF OpenSource, Look, CheckKind, Going, Host, Rest
<1>1. CASE End(r, "failed")
  <2>1. names[r] # r BY <1>0 DEF OwnBy
  <2>2. r \in stale => names[r] = "old" BY DEF OwnBy
  <2> QED BY <1>0, <1>1, <2>1, <2>2, EndForgets, EndedOwns DEF Apart
<1>2. ASSUME NEW at \in {"opened", "looked", "checked"},
             run'[r].pc = at, run'[r].left = run[r].left, run'[r].file = run[r].file,
             DOMAIN run' = Runs, \A q \in Runs \ {r} : run'[q] = run[q]
      PROVE  Apart(r) /\ OwnBy(r)'
  BY <1>0, <1>2 DEF OwnBy, Apart, BeforeWriting
<1>3. CASE Step(r, [pc |-> "opened"])
  BY <1>2, <1>3 DEF Step, Fresh
<1>4. CASE Step(r, [pc |-> "opened", held |-> names["src"]])
  BY <1>2, <1>4 DEF Step, Fresh
<1>5. CASE \E reads, moved : Step(r, [pc |-> "looked", reads |-> reads, moved |-> moved])
  BY <1>2, <1>5 DEF Step, Fresh
<1>6. CASE Step(r, [pc |-> "checked"])
  BY <1>2, <1>6 DEF Step, Fresh
<1>7. Look(r) => End(r, "failed") \/ \E reads, moved : Step(r, [pc |-> "looked", reads |-> reads, moved |-> moved])
  BY DEF Look
<1> QED BY <1>1, <1>3, <1>4, <1>5, <1>6, <1>7 DEF OpenSource, CheckKind

\* The temporary file a run opens is one it made.
LEMMA OpenTempOwns ==
    ASSUME NEW r \in Runs, DOMAIN run = Runs, DOMAIN names = Names, OwnBy(r), OpenTemp(r)
    PROVE  Apart(r) /\ OwnBy(r)'
<1>0. UNCHANGED <<asked, stale>> /\ run[r].pc = "checked" /\ asked[r].atomic
  BY DEF OpenTemp, Going, Rest
<1>1. CASE End(r, "failed") /\ UNCHANGED names
  <2>1. names[r] # r BY <1>0 DEF OwnBy
  <2>2. r \in stale => names[r] = "old" BY DEF OwnBy
  <2> QED BY <1>0, <1>1, <2>1, <2>2, EndForgets, EndedOwns DEF Apart
<1>2. CASE /\ names[Temp(r)] = None
           /\ Rename([n \in {Temp(r)} |-> r]) /\ Step(r, [pc |-> "writing", file |-> r])
  <2>1. /\ DOMAIN names' = Names /\ names'[r] = r
        /\ \A q \in Runs \ {r} : names'[q] = names[q]
    BY <1>2, RunsAreNew DEF Rename, Temp
  <2>2. /\ run'[r].pc = "writing" /\ run'[r].file = r /\ run'[r].left = run[r].left
        /\ DOMAIN run' = Runs /\ \A q \in Runs \ {r} : run'[q] = run[q]
    BY <1>2 DEF Step, Fresh
  <2>3. r \notin stale BY <1>2 DEF OwnBy, Temp, None
  <2>4. r # "device" BY RunsAreNew
  <2> QED BY <1>0, <2>1, <2>2, <2>3, <2>4 DEF Apart, OwnBy, BeforeWriting
<1> QED BY <1>1, <1>2 DEF OpenTemp, Host

\* A destination opened in place leaves every temporary name alone.
LEMMA OpenOutOwns ==
    ASSUME NEW r \in Runs, DOMAIN run = Runs, DOMAIN names = Names, OwnBy(r), OpenOut(r)
    PROVE  Apart(r) /\ OwnBy(r)'
<1>0. UNCHANGED <<asked, stale>> /\ run[r].pc = "checked" /\ ~asked[r].atomic
  BY DEF OpenOut, Going, Rest, InPlace
<1>1. DOMAIN names' = Names /\ \A q \in Runs : names'[q] = names[q]
  <2>1. CASE Rename([n \in {Target("out")} |-> r])
    <3>1. \A q \in Runs : q \in Names /\ q # Target("out") BY RunsAreNew DEF Target
    <3> QED BY <2>1, <3>1, RenameChanges
  <2> QED BY <2>1 DEF OpenOut
<1>2. PICK file : Step(r, [pc |-> "judging", file |-> file]) BY DEF OpenOut
<1>3. /\ run'[r].pc = "judging" /\ run'[r].left = run[r].left
      /\ DOMAIN run' = Runs /\ \A q \in Runs \ {r} : run'[q] = run[q]
  BY <1>2 DEF Step, Fresh
<1> QED BY <1>0, <1>1, <1>3 DEF Apart, OwnBy, BeforeWriting

\* A format writes to no device, whatever was opened.
LEMMA JudgeOwns ==
    ASSUME NEW r \in Runs, DOMAIN run = Runs, DOMAIN names = Names, OwnBy(r), Judge(r)
    PROVE  Apart(r) /\ OwnBy(r)'
<1>0. UNCHANGED <<names, asked, stale>> /\ run[r].pc = "judging" /\ ~asked[r].atomic
  BY DEF Judge, Going, Rest, OwnBy
<1>1. CASE End(r, "failed")
  <2>1. names[r] # r BY <1>0 DEF OwnBy
  <2>2. r \in stale => names[r] = "old" BY DEF OwnBy
  <2> QED BY <1>0, <1>1, <2>1, <2>2, EndForgets, EndedOwns DEF Apart
<1>2. ASSUME asked[r].command = "format" => run[r].file # "device",
             run'[r].pc = "writing", run'[r].left = run[r].left, run'[r].file = run[r].file,
             DOMAIN run' = Runs, \A q \in Runs \ {r} : run'[q] = run[q]
      PROVE  Apart(r) /\ OwnBy(r)'
  BY <1>0, <1>2 DEF OwnBy, Apart, BeforeWriting
<1>3. CASE asked[r].command # "format" /\ Step(r, [pc |-> "writing"])
  BY <1>2, <1>3 DEF Step, Fresh
<1>4. CASE Regular(run[r].file) /\ Step(r, [pc |-> "writing", cut |-> run[r].file])
  BY <1>2, <1>4 DEF Step, Fresh, Regular
<1> QED BY <1>1, <1>3, <1>4 DEF Judge

\* Reading and writing leave names alone.
LEMMA WriteOwns ==
    ASSUME NEW r \in Runs, DOMAIN run = Runs, DOMAIN names = Names, OwnBy(r),
           LookAtWalked(r) \/ OpenWalked(r) \/ WritePiece(r)
    PROVE  Apart(r) /\ OwnBy(r)'
<1>0. UNCHANGED <<names, asked, stale>> /\ run[r].pc = "writing"
  BY DEF LookAtWalked, OpenWalked, WritePiece, Going, Host, Rest
<1>1. ASSUME NEW at \in {"writing", "written"},
             run'[r].pc = at, run'[r].file = run[r].file,
             DOMAIN run' = Runs, \A q \in Runs \ {r} : run'[q] = run[q]
      PROVE  Apart(r) /\ OwnBy(r)'
  BY <1>0, <1>1 DEF OwnBy, Apart, BeforeWriting
<1>2. CASE LookAtWalked(r)
  <2>1. Step(r, [seen |-> TRUE]) BY <1>2 DEF LookAtWalked
  <2>2. run'[r].pc = "writing" BY <1>0, <2>1 DEF Step, Fresh
  <2> QED BY <1>1, <2>1, <2>2 DEF Step, Fresh
<1>3. CASE OpenWalked(r)
  <2>1. Step(r, [handle |-> names["src"]]) BY <1>3 DEF OpenWalked
  <2>2. run'[r].pc = "writing" BY <1>0, <2>1 DEF Step, Fresh
  <2> QED BY <1>1, <2>1, <2>2 DEF Step, Fresh
<1>4. CASE WritePiece(r)
  <2>1. PICK at \in {"writing", "written"} : \E left, good :
          Step(r, [pc |-> at, left |-> left, good |-> good, seen |-> FALSE,
                   handle |-> None, took |-> run[r].took \cup Taken(r)])
    BY <1>4 DEF WritePiece
  <2>2. /\ run'[r].pc = at /\ run'[r].file = run[r].file
        /\ DOMAIN run' = Runs /\ \A q \in Runs \ {r} : run'[q] = run[q]
    BY <2>1 DEF Step, Fresh
  <2> QED BY <1>1, <2>1, <2>2
<1> QED BY <1>2, <1>3, <1>4

\* A finished file is flushed, and an atomic run goes on to publish it.
LEMMA SyncOwns ==
    ASSUME NEW r \in Runs, DOMAIN run = Runs, DOMAIN names = Names, OwnBy(r), Sync(r)
    PROVE  Apart(r) /\ OwnBy(r)'
<1>0. UNCHANGED <<names, asked, stale>> /\ run[r].pc = "written"
  BY DEF Sync, Going, Rest
<1>1. CASE InPlace(r) /\ End(r, "done")
  <2>1. names[r] # r BY <1>1 DEF OwnBy, InPlace
  <2>2. r \in stale => names[r] = "old" BY DEF OwnBy
  <2> QED BY <1>0, <1>1, <2>1, <2>2, EndForgets, EndedOwns DEF Apart
<1>2. CASE ~InPlace(r) /\ Step(r, [pc |-> "synced"])
  <2>1. /\ run'[r].pc = "synced" /\ run'[r].file = run[r].file
        /\ DOMAIN run' = Runs /\ \A q \in Runs \ {r} : run'[q] = run[q]
    BY <1>2 DEF Step, Fresh
  <2> QED BY <1>0, <1>2, <2>1 DEF Apart, OwnBy, BeforeWriting, InPlace
<1> QED BY <1>1, <1>2 DEF Sync

\* Publishing takes the temporary name away, and it was the run's own.
LEMMA PublishOwns ==
    ASSUME NEW r \in Runs, DOMAIN run = Runs, DOMAIN names = Names, OwnBy(r), Publish(r)
    PROVE  Apart(r) /\ OwnBy(r)'
<1>0. UNCHANGED <<asked, stale>> /\ run[r].pc = "synced" /\ asked[r].atomic /\ r \notin stale
  BY DEF Publish, Going, Rest, OwnBy
<1>1. Rename([n \in {"out", Temp(r)} |-> IF n = "out" THEN names[Temp(r)] ELSE None])
  BY DEF Publish
<1>2. names'[r] = None /\ DOMAIN names' = Names /\ \A q \in Runs \ {r} : names'[q] = names[q]
  <2>1. \A q \in Runs : q \in Names /\ q # "out" BY RunsAreNew
  <2> QED BY <1>1, <2>1, RenameChanges DEF Temp
<1>3. Step(r, [pc |-> "published"]) BY DEF Publish
<1>4. /\ run'[r].pc = "published" /\ run'[r].file = run[r].file
      /\ DOMAIN run' = Runs /\ \A q \in Runs \ {r} : run'[q] = run[q]
  BY <1>3 DEF Step, Fresh
<1>5. None # r BY RunsAreNew
<1> QED BY <1>0, <1>2, <1>4, <1>5 DEF Apart, OwnBy, BeforeWriting

\* A published run has no temporary name to remove.
LEMMA FinishOwns ==
    ASSUME NEW r \in Runs, DOMAIN run = Runs, DOMAIN names = Names, OwnBy(r), Finish(r)
    PROVE  Apart(r) /\ OwnBy(r)'
<1>0. /\ UNCHANGED <<asked, stale>> /\ run[r].pc = "published"
      /\ asked[r].atomic /\ r \notin stale
  BY DEF Finish, Going, Rest, OwnBy
<1>1. names'[r] = None /\ DOMAIN names' = Names /\ \A q \in Runs \ {r} : names'[q] = names[q]
  BY RunsAreNew DEF Finish, Temp
<1>2. End(r, "done") BY DEF Finish
<1>3. None # r BY RunsAreNew
<1> QED BY <1>0, <1>1, <1>2, <1>3, EndForgets, EndedOwns DEF Apart

\* A failed run removes the temporary name if it opened it; a killed one cannot.
LEMMA StopOwns ==
    ASSUME NEW r \in Runs, DOMAIN run = Runs, DOMAIN names = Names, OwnBy(r), Fail(r) \/ Kill(r)
    PROVE  Apart(r) /\ OwnBy(r)'
<1>0. UNCHANGED <<asked, stale>> /\ run[r].pc \notin {"done", "failed"}
  BY DEF Fail, Kill, Rest
<1>1. CASE Kill(r)
  <2>1. UNCHANGED names /\ End(r, "killed") BY <1>1 DEF Kill, Host
  <2>2. Apart(r) /\ run'[r] = [Fresh EXCEPT !.pc = "killed"]
    BY <2>1, EndForgets DEF Apart
  <2>3. names'[r] = names[r] BY <2>1
  <2>4. OwnBy(r)'
    <3>1. /\ run'[r].pc = "killed" /\ run'[r].left = Pieces /\ run'[r].file = None
      BY <2>2 DEF Fresh
    <3>2. None # "device" BY DEF None
    <3> QED BY <1>0, <2>3, <3>1, <3>2 DEF OwnBy, BeforeWriting
  <2> QED BY <2>2, <2>4
<1>2. CASE Fail(r) /\ Owns(r)
  <2>1. Rename([n \in {Temp(r)} |-> None]) /\ End(r, "failed") BY <1>2 DEF Fail
  <2>2. names'[r] = None /\ DOMAIN names' = Names /\ \A q \in Runs \ {r} : names'[q] = names[q]
    BY <2>1, RunsAreNew, RenameChanges DEF Temp
  <2>3. r \notin stale /\ None # r BY <1>2, RunsAreNew DEF Owns, OwnBy
  <2> QED BY <1>0, <2>1, <2>2, <2>3, EndForgets, EndedOwns DEF Apart
<1>3. CASE Fail(r) /\ ~Owns(r)
  <2>1. UNCHANGED names /\ End(r, "failed") BY <1>3 DEF Fail
  <2>2. run[r].pc # "killed" BY <1>3 DEF Fail
  <2>3. names[r] # r BY <1>0, <1>3, <2>2 DEF OwnBy, Owns
  <2>4. r \in stale => names[r] = "old" BY DEF OwnBy
  <2> QED BY <1>0, <2>1, <2>3, <2>4, EndForgets, EndedOwns DEF Apart
<1> QED BY <1>1, <1>2, <1>3

-----------------------------------------------------------------------------
\* No run has made anything yet.
LEMMA OwnAtFirst == Init => Own
<1> SUFFICES ASSUME Init PROVE Own
  OBVIOUS
<1>1. \A r \in Runs : /\ run[r] = Fresh /\ names[r] = None /\ None # r
  BY RunsAreNew DEF Init, Temp
<1>2. ASSUME NEW r \in Runs PROVE OwnBy(r)
  <2>1. run[r].pc = "start" /\ run[r].left = Pieces /\ run[r].file = None
    BY <1>1 DEF Fresh
  <2> QED BY <1>1, <2>1 DEF Init, OwnBy, BeforeWriting
<1> QED BY <1>2 DEF Init, Own

\* Every step leaves each run what is its own.
LEMMA OwnByStep == Own /\ [Next]_vars => Own'
<1> SUFFICES ASSUME Own, [Next]_vars PROVE Own'
  OBVIOUS
<1>1. DOMAIN run = Runs /\ DOMAIN names = Names /\ \A r \in Runs : OwnBy(r) BY DEF Own
<1>2. CASE \E r \in Runs : Run(r)
  <2>1. PICK r \in Runs : Run(r) BY <1>2
  <2>2. UNCHANGED <<asked, stale>>
    BY <2>1 DEF Run, OpenSource, Look, CheckKind, OpenTemp, OpenOut, Judge, LookAtWalked,
                OpenWalked, WritePiece, Sync, Publish, Finish, Fail, Kill, Rest
  <2>3. Apart(r) /\ OwnBy(r)'
    BY <1>1, <2>1, EarlyStepsOwn, OpenTempOwns, OpenOutOwns, JudgeOwns, WriteOwns, SyncOwns,
       PublishOwns, FinishOwns, StopOwns DEF Run
  <2>4. \A q \in Runs \ {r} : OwnBy(q)'
    BY <1>1, <2>2, <2>3, UntouchedOwns DEF Apart
  <2> QED BY <2>3, <2>4 DEF Own, Apart
<1>3. CASE UNCHANGED vars
  BY <1>1, <1>3, UntouchedOwns DEF Own, vars
<1>4. CASE SomeoneRenames
  <2>1. PICK n \in {"out", "src"}, v \in {None, Link} \cup Others :
        Rename([m \in {n} |-> v])
    BY <1>4 DEF SomeoneRenames
  <2>2. DOMAIN names' = Names /\ \A q \in Runs : names'[q] = names[q]
    <3>1. \A q \in Runs : q \in Names /\ q # n BY <2>1, RunsAreNew
    <3> QED BY <2>1, <3>1, RenameChanges
  <2>3. UNCHANGED <<run, asked, stale>> BY <1>4 DEF SomeoneRenames
  <2> QED BY <1>1, <2>2, <2>3, UntouchedOwns DEF Own
<1>5. CASE SomeoneTakesTemp
  <2>1. PICK r \in Runs : /\ run[r].pc \in {"start", "opened", "looked", "checked"}
                          /\ Rename([n \in {Temp(r)} |-> "old"])
                          /\ stale' = stale \cup {r}
    BY <1>5 DEF SomeoneTakesTemp
  <2>2. /\ DOMAIN names' = Names /\ names'[r] = "old"
        /\ \A q \in Runs \ {r} : names'[q] = names[q]
    BY <2>1, RunsAreNew, RenameChanges DEF Temp
  <2>3. UNCHANGED <<run, asked>> BY <1>5 DEF SomeoneTakesTemp
  <2>4. \A q \in Runs \ {r} : OwnBy(q)' BY <1>1, <2>1, <2>2, <2>3 DEF OwnBy
  <2>5. OwnBy(r)'
    <3>1. r # "old" BY RunsAreNew
    <3> QED BY <1>1, <2>1, <2>2, <2>3, <3>1 DEF OwnBy
  <2> QED BY <1>1, <2>2, <2>3, <2>4, <2>5 DEF Own
<1>6. CASE PowerLoss
  <2>1. run' = [r \in Runs |-> [Fresh EXCEPT !.pc = "killed"]] /\ stale' = {}
    BY <1>6 DEF PowerLoss
  <2>2. DOMAIN names' = Names /\ \A r \in Runs : names'[r] = None
    <3>1. PICK seen \in past : names' = [n \in Names |-> IF n = "out" THEN seen[1]
                                                   ELSE IF n = "src" THEN seen[2] ELSE None]
      BY <1>6 DEF PowerLoss
    <3> QED BY <3>1, RunsAreNew
  <2>3. ASSUME NEW r \in Runs PROVE OwnBy(r)'
    <3>1. run'[r].pc = "killed" /\ run'[r].left = Pieces /\ run'[r].file = None
      BY <2>1 DEF Fresh
    <3>2. None # r BY RunsAreNew
    <3> QED BY <2>1, <2>2, <3>1, <3>2 DEF OwnBy, BeforeWriting
  <2> QED BY <2>1, <2>2, <2>3 DEF Own
<1> QED BY <1>2, <1>3, <1>4, <1>5, <1>6 DEF Next, Over

\* A run touches nothing it did not make: an ended run left no temporary name to its
\* file, one somebody took first is still theirs, an atomic run writes only the file it
\* created and a format writes to no device (dest.rs, open, commit and drop).
THEOREM TouchesNothingElse == Spec => []TouchesOnlyItsOwn
<1>1. Own => TouchesOnlyItsOwn
  <2> SUFFICES ASSUME Own, NEW r \in Runs
               PROVE  /\ run[r].pc \in {"done", "failed"} => names[Temp(r)] # r
                      /\ r \in stale => names[Temp(r)] = "old"
                      /\ asked[r].atomic => run[r].file \in {None, r}
                      /\ asked[r].command = "format" /\ run[r].left < Pieces =>
                            run[r].file # "device"
    BY DEF TouchesOnlyItsOwn, NothingLeftBehind, WritesItsOwn
  <2>1. OwnBy(r) BY DEF Own
  <2>2. run[r].left < Pieces => run[r].left # Pieces BY PiecesAssumption
  <2> QED BY <2>1, <2>2 DEF OwnBy, Temp
<1> QED BY <1>1, OwnAtFirst, OwnByStep, PTL DEF Spec

-----------------------------------------------------------------------------
(***************************************************************************)
(* Where every run is atomic the destination is old or whole. What its     *)
(* name leads to, now or as a power loss may leave it, is durable: a file  *)
(* from before, which no run writes to, or one a run made, finished and    *)
(* flushed before it was renamed, and writes to no more.                   *)
(***************************************************************************)
AllAtomic == \A r \in Runs : asked[r].atomic

Sound(inode) ==
    /\ inode \in flushed
    /\ \/ inode \in Others /\ content[inode] = inode
       \/ inode \in Runs /\ content[inode] = "image" /\ run[inode].pc \in {"published", "done", "killed"}

LeadsWell(seen) ==
    /\ seen[1] \in {None, Link} \/ Sound(seen[1])
    /\ seen[2] \in Others \cup {None}

WholeBy(r) ==
    /\ run[r].good
    /\ run[r].pc \in {"opened", "looked", "checked", "writing"} /\ asked[r].source # "memory" =>
          run[r].held \in Others
    /\ names[r] \in {None, r, "old"}
    /\ names[r] = "old" => r \in stale
    /\ run[r].pc \in {"writing", "written", "synced"} => run[r].file = r
    /\ run[r].pc \in {"written", "synced"} => content[r] = "image"
    /\ run[r].pc = "synced" => r \in flushed

Files == /\ DOMAIN content = Inodes
         /\ \A inode \in Others : inode \in flushed /\ content[inode] = inode
Leads == LeadsWell(Seen(names)) /\ \A seen \in past : LeadsWell(seen)
Whole == Files /\ Leads /\ \A r \in Runs : WholeBy(r)

\* Where what was sound stays so, every name that led well leads well.
LEMMA StillLeads ==
    ASSUME NEW seen, LeadsWell(seen), \A inode : Sound(inode) => Sound(inode)'
    PROVE  /\ seen[1] \in {None, Link} \/ Sound(seen[1])'
           /\ seen[2] \in Others \cup {None}
BY DEF LeadsWell

\* The names' places in a view of them.
LEMMA SeenParts == Seen(names)[1] = names["out"] /\ Seen(names)[2] = names["src"]
BY DEF Seen

\* A step that leaves the host alone and writes nothing.
LEMMA QuietIsWhole ==
    ASSUME Whole, Own, AllAtomic, NEW r \in Runs, OpenSource(r) \/ Look(r) \/ CheckKind(r)
             \/ LookAtWalked(r) \/ OpenWalked(r) \/ Kill(r)
    PROVE  Files' /\ Leads' /\ WholeBy(r)'
<1>0. UNCHANGED <<names, content, flushed, past, asked, stale>> /\ DOMAIN run = Runs
  BY DEF OpenSource, Look, CheckKind, LookAtWalked, OpenWalked, Kill, Host, Rest, Own
<1>1. WholeBy(r) /\ names["src"] \in Others \cup {None}
  BY SeenParts DEF Whole, Leads, LeadsWell
<1>2. ASSUME NEW how \in {"failed", "killed"}, End(r, how)
      PROVE  WholeBy(r)' /\ run'[r].pc = how /\ \A q \in Runs \ {r} : run'[q] = run[q]
  <2>1. run'[r] = [Fresh EXCEPT !.pc = how] /\ \A q \in Runs \ {r} : run'[q] = run[q]
    BY <1>0, <1>2, EndForgets
  <2>2. run'[r].pc = how /\ run'[r].good BY <2>1 DEF Fresh
  <2> QED BY <1>0, <1>1, <2>1, <2>2 DEF WholeBy
<1>3. ASSUME NEW at \in {"opened", "looked", "checked", "writing"},
             run'[r].pc = at, run'[r].good = run[r].good, run'[r].file = run[r].file,
             asked[r].source # "memory" => run'[r].held \in Others,
             at = "writing" => run[r].pc = "writing"
      PROVE  WholeBy(r)'
  BY <1>0, <1>1, <1>3 DEF WholeBy
<1>4. WholeBy(r)' /\ (\A q \in Runs \ {r} : run'[q] = run[q])
      /\ (run[r].pc \in {"published", "done", "killed"} => run'[r].pc = "killed")
  <2>1. CASE OpenSource(r) /\ asked[r].source = "memory"
    <3>1. Step(r, [pc |-> "opened"]) BY <2>1 DEF OpenSource
    <3>2. run'[r].pc = "opened" /\ run'[r].good = run[r].good /\ run'[r].file = run[r].file
          /\ (\A q \in Runs \ {r} : run'[q] = run[q])
      BY <1>0, <3>1 DEF Step, Fresh
    <3> QED BY <1>3, <2>1, <3>2 DEF OpenSource, Going
  <2>2. CASE OpenSource(r) /\ asked[r].source # "memory"
    <3>1. Step(r, [pc |-> "opened", held |-> names["src"]]) /\ names["src"] # None
      BY <2>2 DEF OpenSource
    <3>2. run'[r].pc = "opened" /\ run'[r].good = run[r].good /\ run'[r].file = run[r].file
          /\ run'[r].held = names["src"] /\ (\A q \in Runs \ {r} : run'[q] = run[q])
      BY <1>0, <3>1 DEF Step, Fresh
    <3> QED BY <1>1, <1>3, <2>2, <3>1, <3>2 DEF OpenSource, Going
  <2>3. CASE Look(r)
    <3>1. run[r].pc = "opened" BY <2>3 DEF Look, Going
    <3>2. CASE End(r, "failed") BY <1>2, <3>1, <3>2
    <3>3. ASSUME NEW reads, NEW moved, Step(r, [pc |-> "looked", reads |-> reads, moved |-> moved])
          PROVE  run'[r].pc = "looked" /\ run'[r].good = run[r].good /\ run'[r].file = run[r].file
                 /\ run'[r].held = run[r].held /\ (\A q \in Runs \ {r} : run'[q] = run[q])
      BY <1>0, <3>3 DEF Step, Fresh
    <3>4. asked[r].source # "memory" => run[r].held \in Others BY <1>1, <3>1 DEF WholeBy
    <3>5. End(r, "failed") \/ \E reads, moved : Step(r, [pc |-> "looked", reads |-> reads, moved |-> moved])
      BY <2>3 DEF Look
    <3> QED BY <1>3, <3>1, <3>2, <3>3, <3>4, <3>5
  <2>4. CASE CheckKind(r)
    <3>1. run[r].pc = "looked" BY <2>4 DEF CheckKind, Going
    <3>2. CASE End(r, "failed") BY <1>2, <3>1, <3>2
    <3>3. CASE Step(r, [pc |-> "checked"])
      <4>1. run'[r].pc = "checked" /\ run'[r].good = run[r].good /\ run'[r].file = run[r].file
            /\ run'[r].held = run[r].held /\ (\A q \in Runs \ {r} : run'[q] = run[q])
        BY <1>0, <3>3 DEF Step, Fresh
      <4>2. asked[r].source # "memory" => run[r].held \in Others BY <1>1, <3>1 DEF WholeBy
      <4> QED BY <1>3, <3>1, <4>1, <4>2
    <3> QED BY <2>4, <3>2, <3>3 DEF CheckKind
  <2>5. CASE LookAtWalked(r) \/ OpenWalked(r)
    <3>1. run[r].pc = "writing" BY <2>5 DEF LookAtWalked, OpenWalked, Going
    <3>2. Step(r, [seen |-> TRUE]) \/ Step(r, [handle |-> names["src"]])
      BY <2>5 DEF LookAtWalked, OpenWalked
    <3>3. run'[r].pc = "writing" /\ run'[r].good = run[r].good /\ run'[r].file = run[r].file
          /\ run'[r].held = run[r].held /\ (\A q \in Runs \ {r} : run'[q] = run[q])
      BY <1>0, <3>1, <3>2 DEF Step, Fresh
    <3>4. asked[r].source # "memory" => run[r].held \in Others BY <1>1, <3>1 DEF WholeBy
    <3> QED BY <1>3, <3>1, <3>3, <3>4
  <2>6. CASE Kill(r)
    BY <1>2, <2>6 DEF Kill
  <2> QED BY <2>1, <2>2, <2>3, <2>4, <2>5, <2>6
<1>5. \A inode : Sound(inode) => Sound(inode)'
  BY <1>0, <1>4 DEF Sound
<1>6. Leads'
  BY <1>0, <1>5, StillLeads DEF Whole, Leads, LeadsWell, Seen
<1> QED BY <1>0, <1>4, <1>6 DEF Whole, Files

\* A run's temporary file is new, and no name but that one leads to it.
LEMMA OpenTempIsWhole ==
    ASSUME Whole, Own, AllAtomic, NEW r \in Runs, OpenTemp(r)
    PROVE  Files' /\ Leads' /\ WholeBy(r)'
<1>0. /\ UNCHANGED <<content, flushed, asked, stale>> /\ DOMAIN run = Runs
      /\ run[r].pc = "checked" /\ WholeBy(r)
  BY DEF OpenTemp, Host, Rest, Own, Going, Whole
<1>1. CASE End(r, "failed") /\ UNCHANGED <<names, past>>
  <2>1. run'[r] = [Fresh EXCEPT !.pc = "failed"] /\ \A q \in Runs \ {r} : run'[q] = run[q]
    BY <1>0, <1>1, EndForgets
  <2>2. run'[r].pc = "failed" /\ run'[r].good BY <2>1 DEF Fresh
  <2>3. \A inode : Sound(inode) => Sound(inode)' BY <1>0, <2>1 DEF Sound
  <2>4. Leads' BY <1>1, <2>3, StillLeads DEF Whole, Leads, LeadsWell, Seen
  <2> QED BY <1>0, <1>1, <2>2, <2>4 DEF Whole, Files, WholeBy
<1>2. CASE Rename([n \in {Temp(r)} |-> r]) /\ Step(r, [pc |-> "writing", file |-> r])
  <2>1. /\ names'[r] = r /\ names'["out"] = names["out"] /\ names'["src"] = names["src"]
        /\ past' = past \cup {Seen(names')}
    BY <1>2, RunsAreNew DEF Rename, Temp, Names
  <2>2. /\ run'[r].pc = "writing" /\ run'[r].file = r /\ run'[r].good = run[r].good
        /\ run'[r].held = run[r].held /\ \A q \in Runs \ {r} : run'[q] = run[q]
    BY <1>0, <1>2 DEF Step, Fresh
  <2>3. \A inode : Sound(inode) => Sound(inode)' BY <1>0, <2>2 DEF Sound
  <2>4. Seen(names') = Seen(names) BY <2>1 DEF Seen
  <2>5. Leads' BY <2>1, <2>3, <2>4, StillLeads DEF Whole, Leads, LeadsWell
  <2>6. r # "old" BY RunsAreNew
  <2> QED BY <1>0, <2>1, <2>2, <2>5, <2>6 DEF Whole, Files, WholeBy
<1> QED BY <1>1, <1>2 DEF OpenTemp, Host

\* What a run takes to write is a file from before, which nothing cuts.
LEMMA ReadsAreGood ==
    ASSUME Whole, NEW r \in Runs, WritePiece(r)
    PROVE  ReadsWell(r)
<1>1. run[r].pc = "writing" /\ WholeBy(r) BY DEF WritePiece, Going, Whole
<1>2. asked[r].source # "memory" => run[r].held \in Others BY <1>1 DEF WholeBy
<1>3. \A inode \in Taken(r) : inode \in Others
  BY <1>2 DEF WritePiece, Checked, Taken, Walks
<1>4. \A inode \in Others : content[inode] \notin {"cut", "part"} BY DEF Whole, Files, Others
<1> QED BY <1>3, <1>4 DEF ReadsWell

\* A piece is written to the run's own file, which no name but its temporary one leads to.
LEMMA WritePieceIsWhole ==
    ASSUME Whole, Own, AllAtomic, NEW r \in Runs, WritePiece(r)
    PROVE  Files' /\ Leads' /\ WholeBy(r)' /\ \A q \in Runs \ {r} : content'[q] = content[q]
<1>0. /\ UNCHANGED <<names, past, asked, stale>> /\ DOMAIN run = Runs
      /\ run[r].pc = "writing" /\ WholeBy(r) /\ run[r].file = r
      /\ flushed' = flushed \ {r} /\ r \in Inodes /\ r \notin Others
  BY RunsAreNew DEF WritePiece, Rest, Own, Going, Whole, WholeBy, Inodes, Others
<1>1. run[r].good /\ ReadsWell(r) BY <1>0, ReadsAreGood DEF WholeBy
<1>2. PICK at \in {"writing", "written"} :
        /\ \E left :
             Step(r, [pc |-> at, left |-> left, good |-> run[r].good /\ ReadsWell(r),
                      seen |-> FALSE, handle |-> None, took |-> run[r].took \cup Taken(r)])
        /\ at = "written" => content'[r] = "image"
        /\ \A inode \in Inodes \ {r} : content'[inode] = content[inode]
        /\ DOMAIN content' = Inodes
  <2>1. CASE run[r].left = 1
    BY <1>0, <1>1, <2>1 DEF WritePiece, Whole, Files
  <2>2. CASE run[r].left # 1
    BY <1>0, <1>1, <2>2 DEF WritePiece, Whole, Files
  <2> QED BY <2>1, <2>2
<1>3. /\ run'[r].pc = at /\ run'[r].good = (run[r].good /\ ReadsWell(r))
      /\ run'[r].file = run[r].file /\ run'[r].held = run[r].held
      /\ \A q \in Runs \ {r} : run'[q] = run[q]
  BY <1>0, <1>2 DEF Step, Fresh
<1>4. ASSUME NEW inode, Sound(inode) PROVE Sound(inode)'
  <2>1. inode # r /\ inode \in Inodes BY <1>0, <1>4 DEF Sound, Inodes
  <2>2. content'[inode] = content[inode] /\ inode \in flushed' BY <1>0, <1>2, <1>4, <2>1 DEF Sound
  <2>3. inode \in Runs => run'[inode] = run[inode] BY <1>3, <2>1
  <2> QED BY <1>4, <2>2, <2>3 DEF Sound
<1>5. Leads' BY <1>0, <1>4, StillLeads DEF Whole, Leads, LeadsWell, Seen
<1>6. Files' BY <1>0, <1>2 DEF Whole, Files, Inodes
<1>7. WholeBy(r)' BY <1>0, <1>1, <1>2, <1>3 DEF WholeBy
<1> QED BY <1>2, <1>5, <1>6, <1>7 DEF Inodes

\* An atomic run flushes what it wrote before it renames it.
LEMMA SyncIsWhole ==
    ASSUME Whole, Own, AllAtomic, NEW r \in Runs, Sync(r)
    PROVE  Files' /\ Leads' /\ WholeBy(r)' /\ flushed \subseteq flushed'
<1>0. /\ UNCHANGED <<names, content, past, asked, stale>> /\ DOMAIN run = Runs
      /\ run[r].pc = "written" /\ WholeBy(r) /\ ~InPlace(r) /\ run[r].file = r
  BY DEF Sync, Rest, Own, Going, Whole, WholeBy, AllAtomic, InPlace
<1>1. flushed' = flushed \cup {r} /\ Step(r, [pc |-> "synced"])
  BY <1>0 DEF Sync
<1>2. /\ run'[r].pc = "synced" /\ run'[r].good = run[r].good /\ run'[r].file = run[r].file
      /\ \A q \in Runs \ {r} : run'[q] = run[q]
  BY <1>0, <1>1 DEF Step, Fresh
<1>3. \A inode : Sound(inode) => Sound(inode)' BY <1>0, <1>1, <1>2 DEF Sound
<1>4. Leads' BY <1>0, <1>3, StillLeads DEF Whole, Leads, LeadsWell, Seen
<1> QED BY <1>0, <1>1, <1>2, <1>4 DEF Whole, Files, WholeBy

\* What is renamed over the destination is the run's own file, whole and durable.
LEMMA PublishIsWhole ==
    ASSUME Whole, Own, AllAtomic, NEW r \in Runs, Publish(r)
    PROVE  Files' /\ Leads' /\ WholeBy(r)'
<1>0. /\ UNCHANGED <<content, flushed, asked, stale>> /\ DOMAIN run = Runs
      /\ run[r].pc = "synced" /\ WholeBy(r) /\ OwnBy(r) /\ names[r] # None
  BY DEF Publish, Rest, Own, Going, Whole, Temp
<1>1. names[r] = r BY <1>0 DEF WholeBy, OwnBy, AllAtomic
<1>2. Rename([n \in {"out", Temp(r)} |-> IF n = "out" THEN names[Temp(r)] ELSE None])
  BY DEF Publish
<1>3. /\ names'["out"] = r /\ names'["src"] = names["src"] /\ names'[r] = None
      /\ past' = past \cup {Seen(names')}
  <2>1. r # "out" /\ r # "src" /\ r \in Names BY RunsAreNew
  <2>2. "out" \in Names /\ "src" \in Names BY DEF Names
  <2>3. \A n \in Names : names'[n] = IF n = "out" THEN r ELSE IF n = r THEN None ELSE names[n]
    BY <1>1, <1>2, RenameChanges DEF Temp
  <2>4. past' = past \cup {Seen(names')} BY <1>2 DEF Rename
  <2> QED BY <2>1, <2>2, <2>3, <2>4
<1>4. Step(r, [pc |-> "published"]) BY DEF Publish
<1>5. /\ run'[r].pc = "published" /\ run'[r].good = run[r].good
      /\ \A q \in Runs \ {r} : run'[q] = run[q]
  BY <1>0, <1>4 DEF Step, Fresh
<1>6. \A inode : Sound(inode) => Sound(inode)' BY <1>0, <1>5 DEF Sound
<1>7. Sound(r)' BY <1>0, <1>5 DEF Sound, WholeBy
<1>8. Leads'
  <2>1. Seen(names')[1] = r /\ Seen(names')[2] = names["src"] BY <1>3 DEF Seen
  <2>2. names["src"] \in Others \cup {None} BY SeenParts DEF Whole, Leads, LeadsWell
  <2>3. LeadsWell(Seen(names))' BY <1>7, <2>1, <2>2 DEF LeadsWell
  <2>4. \A seen \in past : LeadsWell(seen)'
    BY <1>6, StillLeads DEF Whole, Leads, LeadsWell
  <2> QED BY <1>3, <2>3, <2>4 DEF Leads
<1>9. None # "old" BY DEF None
<1> QED BY <1>0, <1>3, <1>5, <1>8, <1>9 DEF Whole, Files, WholeBy

\* A run that ends well, or fails, changes no name but its temporary one.
LEMMA EndIsWhole ==
    ASSUME Whole, Own, AllAtomic, NEW r \in Runs, Finish(r) \/ Fail(r)
    PROVE  Files' /\ Leads' /\ WholeBy(r)'
<1>0. /\ UNCHANGED <<content, flushed, asked, stale>> /\ DOMAIN run = Runs
      /\ DOMAIN names = Names /\ WholeBy(r)
  BY DEF Finish, Fail, Rest, Own, Whole
<1>1. PICK how \in {"done", "failed"} :
        End(r, how) /\ (run[r].pc = "published" => how = "done")
        /\ (run[r].pc # "published" => run[r].pc \notin {"done", "killed"})
  BY DEF Finish, Fail, Going
<1>2. run'[r] = [Fresh EXCEPT !.pc = how] /\ \A q \in Runs \ {r} : run'[q] = run[q]
  BY <1>0, <1>1, EndForgets
<1>3. run'[r].pc = how /\ run'[r].good BY <1>2 DEF Fresh
<1>4. \A inode : Sound(inode) => Sound(inode)' BY <1>0, <1>1, <1>2, <1>3 DEF Sound
<1>5. /\ names'["out"] = names["out"] /\ names'["src"] = names["src"]
      /\ names'[r] \in {names[r], None}
      /\ past' \subseteq past \cup {Seen(names')}
  <2>1. r # "out" /\ r # "src" /\ r \in Names /\ "out" \in Names /\ "src" \in Names
    BY RunsAreNew DEF Names
  <2>2. CASE Finish(r) BY <1>0, <2>1, <2>2 DEF Finish, Temp
  <2>3. CASE Fail(r) /\ Owns(r)
    <3>1. Rename([n \in {Temp(r)} |-> None]) BY <2>3 DEF Fail
    <3>2. \A n \in Names : names'[n] = IF n = r THEN None ELSE names[n]
      BY <3>1, RenameChanges DEF Temp
    <3> QED BY <2>1, <3>1, <3>2 DEF Rename
  <2>4. CASE Fail(r) /\ ~Owns(r) BY <2>4 DEF Fail
  <2> QED BY <2>2, <2>3, <2>4
<1>6. Seen(names') = Seen(names) BY <1>5 DEF Seen
<1>7. Leads' BY <1>4, <1>5, <1>6, StillLeads DEF Whole, Leads, LeadsWell
<1>8. None # "old" BY DEF None
<1> QED BY <1>0, <1>3, <1>5, <1>7, <1>8 DEF Whole, Files, WholeBy

\* A run nothing happens to, whose file is left alone.
LEMMA UntouchedIsWhole ==
    ASSUME NEW r \in Runs, WholeBy(r), run'[r] = run[r], names'[r] = names[r],
           content'[r] = content[r], r \in flushed => r \in flushed',
           UNCHANGED <<asked, stale>>
    PROVE  WholeBy(r)'
BY DEF WholeBy

\* A run's step leaves the others' files alone.
LEMMA OthersAreWhole ==
    ASSUME Whole, Own, AllAtomic, NEW r \in Runs, Run(r), Apart(r),
           NEW q \in Runs \ {r}
    PROVE  WholeBy(q)'
<1>0. /\ UNCHANGED <<asked, stale>> /\ run'[q] = run[q] /\ names'[q] = names[q] /\ WholeBy(q)
  BY DEF Run, OpenSource, Look, CheckKind, OpenTemp, OpenOut, Judge, LookAtWalked, OpenWalked,
         WritePiece, Sync, Publish, Finish, Fail, Kill, Rest, Apart, Whole
<1>1. ~OpenOut(r) BY DEF OpenOut, InPlace, AllAtomic
<1>2. ~Judge(r) BY DEF Judge, Going, Own, OwnBy, AllAtomic
<1>3. CASE WritePiece(r)
  <2>1. content'[q] = content[q] BY <1>3, WritePieceIsWhole
  <2>2. flushed' = flushed \ {r}
    BY <1>3 DEF WritePiece, Going, Whole, WholeBy
  <2> QED BY <1>0, <2>1, <2>2, UntouchedIsWhole
<1>4. CASE Sync(r)
  <2>1. flushed \subseteq flushed' /\ UNCHANGED content
    BY <1>4, SyncIsWhole DEF Sync
  <2> QED BY <1>0, <2>1, UntouchedIsWhole
<1>5. CASE ~WritePiece(r) /\ ~Sync(r)
  <2>1. UNCHANGED <<content, flushed>>
    BY <1>1, <1>2, <1>5 DEF Run, OpenSource, Look, CheckKind, OpenTemp, LookAtWalked, OpenWalked,
                            Publish, Finish, Fail, Kill, Host
  <2> QED BY <1>0, <2>1, UntouchedIsWhole
<1> QED BY <1>3, <1>4, <1>5

\* Another process links or renames only what was there before.
LEMMA RenamedIsWhole ==
    ASSUME Whole, Own, AllAtomic, SomeoneRenames
    PROVE  Whole'
<1>0. UNCHANGED <<content, flushed, asked, run, stale>> BY DEF SomeoneRenames
<1>1. PICK n \in {"out", "src"}, v \in {None, Link} \cup Others :
        (n = "src" => v # Link) /\ Rename([m \in {n} |-> v])
  BY DEF SomeoneRenames
<1>2. /\ \A m \in Names : names'[m] = IF m = n THEN v ELSE names[m]
      /\ past' = past \cup {Seen(names')}
  BY <1>1, RenameChanges DEF Rename
<1>3. \A inode : Sound(inode) => Sound(inode)' BY <1>0 DEF Sound
<1>4. \A inode \in Others : Sound(inode)' BY <1>0 DEF Whole, Files, Sound
<1>5. LeadsWell(Seen(names))'
  <2>1. PICK out, src : out = names'["out"] /\ src = names'["src"] OBVIOUS
  <2>2. /\ out \in {names["out"], v} /\ src \in {names["src"], v}
        /\ src # names["src"] => v # Link
    BY <1>1, <1>2, <2>1 DEF Names
  <2>3. names["out"] \in {None, Link} \/ Sound(names["out"])
    BY SeenParts DEF Whole, Leads, LeadsWell
  <2>4. out \in {None, Link} \/ Sound(out)'
    <3>1. CASE out = v BY <1>1, <1>4, <3>1
    <3>2. CASE out = names["out"] /\ Sound(out) BY <1>3, <3>2
    <3> QED BY <2>2, <2>3, <3>1, <3>2
  <2>5. src \in Others \cup {None}
    BY <1>1, <2>2, SeenParts DEF Whole, Leads, LeadsWell
  <2>6. Seen(names')[1] = out /\ Seen(names')[2] = src BY <2>1 DEF Seen
  <2> QED BY <2>4, <2>5, <2>6 DEF LeadsWell
<1>6. Leads'
  <2>1. \A seen \in past : LeadsWell(seen)' BY <1>3, StillLeads DEF Whole, Leads, LeadsWell
  <2> QED BY <1>2, <1>5, <2>1 DEF Leads
<1>7. \A r \in Runs : WholeBy(r)'
  <2>1. \A r \in Runs : names'[r] = names[r] BY <1>1, <1>2, RunsAreNew
  <2> QED BY <1>0, <2>1, UntouchedIsWhole DEF Whole
<1> QED BY <1>0, <1>6, <1>7 DEF Whole, Files

\* A temporary name somebody took is not one a run writes through.
LEMMA TakenIsWhole ==
    ASSUME Whole, Own, AllAtomic, SomeoneTakesTemp
    PROVE  Whole'
<1>0. UNCHANGED <<content, flushed, asked, run>> BY DEF SomeoneTakesTemp
<1>1. PICK r \in Runs : Rename([n \in {Temp(r)} |-> "old"]) /\ stale' = stale \cup {r}
  BY DEF SomeoneTakesTemp
<1>2. /\ \A m \in Names : names'[m] = IF m = r THEN "old" ELSE names[m]
      /\ past' = past \cup {Seen(names')}
  BY <1>1, RenameChanges DEF Rename, Temp
<1>3. \A inode : Sound(inode) => Sound(inode)' BY <1>0 DEF Sound
<1>4. names'["out"] = names["out"] /\ names'["src"] = names["src"]
  BY <1>2, RunsAreNew DEF Names
<1>5. Leads'
  <2>1. Seen(names') = Seen(names) BY <1>4 DEF Seen
  <2> QED BY <1>2, <1>3, <2>1, StillLeads DEF Whole, Leads, LeadsWell
<1>6. ASSUME NEW q \in Runs PROVE WholeBy(q)'
  <2>1. names'[q] = IF q = r THEN "old" ELSE names[q] BY <1>2, RunsAreNew
  <2>2. WholeBy(q) BY DEF Whole
  <2> QED BY <1>0, <1>1, <2>1, <2>2 DEF WholeBy
<1> QED BY <1>0, <1>5, <1>6 DEF Whole, Files

\* Power is lost: the names lead where they once led, and what they led to was durable.
LEMMA LossIsWhole ==
    ASSUME Whole, Own, AllAtomic, PowerLoss
    PROVE  Whole'
<1>1. PICK seen \in past : names' = [n \in Names |-> IF n = "out" THEN seen[1]
                                               ELSE IF n = "src" THEN seen[2] ELSE None]
  BY DEF PowerLoss
<1>2. PICK lost \in SUBSET (Inodes \ flushed) :
        content' = [inode \in Inodes |-> IF inode \in lost THEN "cut" ELSE content[inode]]
  BY DEF PowerLoss
<1>3. /\ run' = [r \in Runs |-> [Fresh EXCEPT !.pc = "killed"]]
      /\ past' = {Seen(names')} /\ flushed' = Inodes /\ stale' = {} /\ UNCHANGED asked
  BY DEF PowerLoss
<1>4. \A r \in Runs : run'[r].pc = "killed" /\ run'[r].good BY <1>3 DEF Fresh
<1>5. ASSUME NEW inode, Sound(inode) PROVE Sound(inode)'
  <2>1. inode \in Inodes /\ inode \in flushed BY <1>5 DEF Sound, Inodes
  <2>2. content'[inode] = content[inode] /\ inode \in flushed' BY <1>2, <1>3, <2>1
  <2> QED BY <1>4, <1>5, <2>2 DEF Sound
<1>6. LeadsWell(seen) BY DEF Whole, Leads
<1>7. Leads'
  <2>1. names'["out"] = seen[1] /\ names'["src"] = seen[2] BY <1>1 DEF Names
  <2>2. Seen(names')[1] = seen[1] /\ Seen(names')[2] = seen[2] BY <2>1 DEF Seen
  <2>3. LeadsWell(Seen(names))' BY <1>5, <1>6, <2>2 DEF LeadsWell
  <2> QED BY <1>3, <2>3 DEF Leads
<1>8. Files' BY <1>2, <1>3 DEF Whole, Files, Inodes
<1>9. ASSUME NEW r \in Runs PROVE WholeBy(r)'
  <2>1. names'[r] = None BY <1>1, RunsAreNew
  <2>2. None # "old" BY DEF None
  <2> QED BY <1>4, <2>1, <2>2 DEF WholeBy
<1> QED BY <1>7, <1>8, <1>9 DEF Whole

\* At first every name leads to a file from before, and every run is to begin.
LEMMA WholeAtFirst == Init => Whole
<1> SUFFICES ASSUME Init PROVE Whole
  OBVIOUS
<1>1. Files BY DEF Init, Files, Inodes, Others
<1>2. \A inode \in Others : Sound(inode) BY <1>1 DEF Files, Sound
<1>3. LeadsWell(Seen(names))
  <2>1. names["out"] \in {None, Link} \cup Others /\ names["src"] \in Others
    BY DEF Init, Names, Others
  <2> QED BY <1>2, <2>1, SeenParts DEF LeadsWell
<1>4. Leads BY <1>3 DEF Init, Leads
<1>5. ASSUME NEW r \in Runs PROVE WholeBy(r)
  <2>1. run[r].pc = "start" /\ run[r].good BY DEF Init, Fresh
  <2>2. names[r] = None /\ None # "old" BY DEF Init, Temp, None
  <2> QED BY <2>1, <2>2 DEF WholeBy
<1> QED BY <1>1, <1>4, <1>5 DEF Whole

\* What is asked never changes, and where all is atomic every step stays whole.
LEMMA WholeByStep == Own /\ (AllAtomic => Whole) /\ [Next]_vars => (AllAtomic => Whole)'
<1> SUFFICES ASSUME Own, AllAtomic => Whole, [Next]_vars, AllAtomic' PROVE Whole'
  OBVIOUS
<1>1. UNCHANGED asked
  BY DEF Next, Over, Run, OpenSource, Look, CheckKind, OpenTemp, OpenOut, Judge, LookAtWalked,
         OpenWalked, WritePiece, Sync, Publish, Finish, Fail, Kill, Rest, SomeoneRenames,
         SomeoneTakesTemp, PowerLoss, vars
<1>2. AllAtomic /\ Whole BY <1>1 DEF AllAtomic
<1>3. CASE \E r \in Runs : Run(r)
  <2>1. PICK r \in Runs : Run(r) BY <1>3
  <2>2. DOMAIN run = Runs /\ DOMAIN names = Names /\ OwnBy(r) BY DEF Own
  <2>3. Apart(r)
    BY <2>1, <2>2, EarlyStepsOwn, OpenTempOwns, OpenOutOwns, JudgeOwns, WriteOwns, SyncOwns,
       PublishOwns, FinishOwns, StopOwns DEF Run
  <2>4. ~OpenOut(r) BY <1>2 DEF OpenOut, InPlace, AllAtomic
  <2>5. ~Judge(r) BY <1>2, <2>2 DEF Judge, Going, OwnBy, AllAtomic
  <2>6. Files' /\ Leads' /\ WholeBy(r)'
    BY <1>2, <2>1, <2>4, <2>5, QuietIsWhole, OpenTempIsWhole, WritePieceIsWhole, SyncIsWhole,
       PublishIsWhole, EndIsWhole DEF Run
  <2>7. \A q \in Runs \ {r} : WholeBy(q)' BY <1>2, <2>1, <2>3, OthersAreWhole
  <2> QED BY <2>6, <2>7 DEF Whole
<1>4. CASE UNCHANGED vars
  BY <1>2, <1>4 DEF vars, Whole, Files, Leads, LeadsWell, Seen, Sound, WholeBy
<1> QED BY <1>2, <1>3, <1>4, RenamedIsWhole, TakenIsWhole, LossIsWhole DEF Next, Over

\* Where every run is atomic the destination leads to a file from before or to one a run
\* wrote whole: for any number of runs and pieces, whoever renames, fails, is killed or
\* loses power (dest.rs, commit: flushed, then renamed).
THEOREM OldOrWhole == Spec => []OldOrNew
<1>1. (AllAtomic => Whole) => OldOrNew
  <2> SUFFICES ASSUME Whole, At("out") # None
               PROVE  content[At("out")] \notin {"cut", "part", "hollow"}
    BY DEF OldOrNew, AllAtomic
  <2>1. /\ names["out"] \in {None, Link} \/ Sound(names["out"])
        /\ names["src"] \in Others \cup {None}
    BY SeenParts DEF Whole, Leads, LeadsWell
  <2>2. Link # None BY DEF Link, None
  <2>3. \A inode \in Others : Sound(inode) BY DEF Whole, Files, Sound
  <2>4. Sound(At("out")) BY <2>1, <2>2, <2>3 DEF At, Target
  <2> QED BY <2>4 DEF Sound, Others
<1> QED BY <1>1, WholeAtFirst, WholeByStep, OwnAtFirst, OwnByStep, PTL DEF Spec
=============================================================================
