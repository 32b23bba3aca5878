--------------------------- MODULE BlockAllocator ---------------------------
(***************************************************************************)
(* The ext block allocator (alloc.rs): a bitmap with one bit for each      *)
(* block from the first data block to the end of the last group's bitmap,  *)
(* and a cursor below which `allocate` no longer looks. The scans are      *)
(* modelled a block at a time.                                             *)
(***************************************************************************)
EXTENDS Integers, Sequences, FiniteSets

CONSTANTS
    First,      \* first_data_block
    Total,      \* total_blocks: one past the last block
    Described,  \* one past the last block the bitmaps describe
    Counts      \* the sizes of the requests made

ASSUME GeometryAssumption ==
    /\ First \in Nat /\ Total \in Nat /\ Described \in Nat
    /\ First < Total /\ Total <= Described
ASSUME CountsAssumption == Counts \subseteq Nat

Real == First..(Total - 1)
Bits == First..(Described - 1)

VARIABLES
    used, cursor,               \* the allocator
    pc, wanted, remaining,      \* the call in progress and what it still lacks
    i, start, ranges,           \* its scan: position, start of the run, runs gathered
    answer                      \* what the last call returned

allocatorVars == <<used, cursor, pc, wanted, remaining, i, start, ranges, answer>>
locals == <<wanted, remaining, i, start, ranges>>

BlockRange == [start : Nat, len : Nat]
BlocksOf(r) == r.start..(r.start + r.len - 1)
Covered(rs) == UNION {BlocksOf(rs[k]) : k \in DOMAIN rs}
Silence == [kind |-> "none", asked |-> 0, blocks |-> {}, available |-> 0]

\* A block no bit describes reads as used.
IsUsed(b) == b \notin Bits \/ b \in used
Free == {b \in Real : ~IsUsed(b)}

\* The bits of a set of blocks are set; a block with no bit is skipped.
MarkUsed(S) == used' = used \cup (S \cap Bits)

\* The padding after the last block is used from the start, and so is the metadata.
AllocatorInit ==
    /\ \E metadata \in SUBSET Real : used = metadata \cup (Total..(Described - 1))
    /\ cursor = First
    /\ pc = "idle"
    /\ wanted = 0 /\ remaining = 0
    /\ i = First /\ start = First /\ ranges = << >>
    /\ answer = Silence

Return(kind, blocks, available) ==
    /\ answer' = [kind |-> kind, asked |-> wanted, blocks |-> blocks, available |-> available]
    /\ pc' = "idle"
    /\ wanted' = 0 /\ remaining' = 0
    /\ i' = First /\ start' = First /\ ranges' = << >>

-----------------------------------------------------------------------------

\* Nothing is asked of the bitmap for a request of no blocks.
EmptyRequest(kind) ==
    /\ pc = "idle" /\ 0 \in Counts
    /\ answer' = [Silence EXCEPT !.kind = kind]
    /\ UNCHANGED <<used, cursor, pc, locals>>

Begin(n, scan, from) ==
    /\ pc = "idle" /\ n > 0
    /\ pc' = scan
    /\ wanted' = n /\ remaining' = n
    /\ i' = from
    /\ answer' = Silence
    /\ UNCHANGED <<used, cursor, start, ranges>>

Allocate(n) == Begin(n, "find", cursor)
AllocateContiguous(n) == Begin(n, "find_run", First)

MarkRange(r) ==
    /\ pc = "idle"
    /\ MarkUsed(BlocksOf(r))
    /\ answer' = Silence
    /\ UNCHANGED <<cursor, pc, locals>>

SkipUsed ==
    /\ pc \in {"find", "find_run"}
    /\ i < Total /\ IsUsed(i)
    /\ i' = i + 1
    /\ UNCHANGED <<used, cursor, pc, wanted, remaining, start, ranges, answer>>

BeginRun ==
    /\ pc \in {"find", "find_run"}
    /\ i < Total /\ ~IsUsed(i)
    /\ start' = i
    /\ pc' = IF pc = "find" THEN "extend" ELSE "extend_run"
    /\ UNCHANGED <<used, cursor, wanted, remaining, i, ranges, answer>>

OutOfSpace ==
    /\ pc = "find" /\ i >= Total
    /\ Return("out_of_space", {}, wanted - remaining)
    /\ UNCHANGED <<used, cursor>>

\* Mutant: the run may go one block past what is missing.
RunGoesOnLonger ==
    i < Total /\ ~IsUsed(i) /\ (pc = "extend" => i - start <= remaining)

\* `allocate` stops a run at what is still missing; the search for one run measures
\* all of it.
RunGoesOn == i < Total /\ ~IsUsed(i) /\ (pc = "extend" => i - start < remaining)

ExtendRun ==
    /\ pc \in {"extend", "extend_run"}
    /\ RunGoesOn
    /\ i' = i + 1
    /\ UNCHANGED <<used, cursor, pc, wanted, remaining, start, ranges, answer>>

Gathered == Append(ranges, [start |-> start, len |-> i - start])

\* The run ended and more is needed.
EndRun ==
    /\ pc = "extend" /\ ~RunGoesOn
    /\ i - start < remaining
    /\ ranges' = Gathered
    /\ remaining' = remaining - (i - start)
    /\ pc' = "find"
    /\ UNCHANGED <<used, cursor, wanted, i, start, answer>>

\* Mutant: the cursor is left one block further.
CommitPastNext ==
    /\ pc = "extend" /\ ~RunGoesOn
    /\ i - start >= remaining
    /\ MarkUsed(Covered(Gathered))
    /\ cursor' = i + 1
    /\ Return("blocks", Covered(Gathered), 0)

\* Everything asked for is gathered: only now is any of it marked.
Commit ==
    /\ pc = "extend" /\ ~RunGoesOn
    /\ i - start >= remaining
    /\ MarkUsed(Covered(Gathered))
    /\ cursor' = i
    /\ Return("blocks", Covered(Gathered), 0)

TakeRun ==
    /\ pc = "extend_run" /\ ~RunGoesOn
    /\ i - start >= wanted
    /\ MarkUsed(start..(start + wanted - 1))
    /\ Return("run", start..(start + wanted - 1), 0)
    /\ UNCHANGED cursor

\* Mutant: the search starts over at the run too short.
ShortRunStays ==
    /\ pc = "extend_run" /\ ~RunGoesOn
    /\ i - start < wanted
    /\ pc' = "find_run"
    /\ i' = start
    /\ UNCHANGED <<used, cursor, wanted, remaining, start, ranges, answer>>

\* The search goes on from the block that ended a run too short.
ShortRun ==
    /\ pc = "extend_run" /\ ~RunGoesOn
    /\ i - start < wanted
    /\ pc' = "find_run"
    /\ UNCHANGED <<used, cursor, locals, answer>>

NoRun ==
    /\ pc = "find_run" /\ i >= Total
    /\ Return("no_run", {}, 0)
    /\ UNCHANGED <<used, cursor>>

Scan == \/ SkipUsed \/ BeginRun \/ ExtendRun \/ EndRun \/ ShortRun
        \/ Commit \/ TakeRun \/ OutOfSpace \/ NoRun

Call == \/ \E n \in Counts : Allocate(n) \/ AllocateContiguous(n)
        \/ EmptyRequest("blocks") \/ EmptyRequest("run")
        \/ \E s \in 0..Described, n \in Counts \ {0} : MarkRange([start |-> s, len |-> n])

AllocatorNext == Scan \/ Call

AllocatorSpec == AllocatorInit /\ [][AllocatorNext]_allocatorVars
FairSpec == AllocatorSpec /\ WF_allocatorVars(Scan)

-----------------------------------------------------------------------------

TypeOK ==
    /\ used \in SUBSET Bits
    /\ cursor \in First..Total
    /\ pc \in {"idle", "find", "extend", "find_run", "extend_run"}
    /\ wanted \in Nat
    /\ remaining \in Nat
    /\ i \in First..Total
    /\ start \in First..Total
    /\ ranges \in Seq(BlockRange)
    /\ answer \in [kind : {"none", "blocks", "run", "out_of_space", "no_run"}, asked : Nat,
                   blocks : SUBSET Real, available : Nat]

\* `allocate` never looks below the cursor, so nothing there may be free.
NothingFreeBelow == \A b \in Real : b < cursor => b \in used

\* AllocError::OutOfSpace, "fewer than count blocks are free": a shortage is real and
\* what it reports is what is free, though the scan saw only the blocks from the cursor.
ShortageIsReal ==
    answer.kind = "out_of_space" =>
        answer.available = Cardinality(Free) /\ answer.available < answer.asked

\* Seen as a set of free blocks, the allocator is FreeSpace.
Pool == INSTANCE FreeSpace WITH Blocks <- Real, free <- Free
ImplementsFreeSpace == Pool!Spec

\* Every call returns.
Returns == pc # "idle" ~> pc = "idle"
=============================================================================
