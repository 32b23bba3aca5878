---------------------------- MODULE ExfatStages ----------------------------
(***************************************************************************)
(* Writing a planned exFAT volume over whatever a destination held:        *)
(* allocation, the five stages of pieces and `write_to`, in                *)
(* exfat/model.rs and exfat/materialize.rs.                                *)
(*                                                                         *)
(* The destination keeps writes in a cache until it is flushed, and a      *)
(* power loss keeps any of them and loses the rest. A sector is written    *)
(* whole or not at all.                                                    *)
(***************************************************************************)
EXTENDS ExfatLayout, Sequences

CONSTANTS
    Trees,              \* what is placed: directories and files in the order allocated, root first
    BootSectors,        \* BOOT_REGION_SECTORS
    TailBytes,          \* TAIL_BYTES
    TableBatchEntries,  \* TABLE_BATCH_ENTRIES
    BitmapBatchBytes    \* BITMAP_BATCH_BYTES

ASSUME StagesAssumption ==
    /\ {BootSectors, TailBytes, TableBatchEntries, BitmapBatchBytes} \subseteq Positive
    /\ ReservedSectors = 2 * BootSectors
    /\ \A r \in Requests : /\ TailBytes % r.sector = 0 /\ BitmapBatchBytes % r.sector = 0
                           /\ (TableBatchEntries * EntryBytes) % r.sector = 0
ASSUME TreesAssumption ==
    /\ Trees \subseteq Seq([kind : {"directory", "file"}, bytes : Nat, declared : BOOLEAN]) \ {<< >>}
    /\ \A t \in Trees : t[1].kind = "directory"

VARIABLES
    contents,
    disk, cache,    \* what each sector holds, and the writes not yet durable
    stage, todo,    \* the stage being written, and its pieces still to come
    status

stagesVars == <<layoutVars, contents, disk, cache, stage, todo, status>>

at == layout.at
S == request.sector
Per == SectorsPerCluster(request)
SectorsOf(bytes) == DivCeil(bytes, S)
AllSectors == SectorsOf(request.volume)

Old == <<"old", 0>>
Zero == <<"zero", 0>>

-----------------------------------------------------------------------------
\* Clusters: allocate_clusters.

Items == DOMAIN contents

Need(item) ==
    IF item.kind = "file" THEN DivCeil(item.bytes, request.cluster)
    ELSE IF item.bytes = 0 THEN 1 ELSE DivCeil(item.bytes, request.cluster)

\* One ascending pass from the root's first cluster, without gaps.
FirstIn(l, k) ==
    LET first[n \in 1..(Len(contents) + 1)] ==
            IF n = 1 THEN l.first_cluster_of_root ELSE first[n - 1] + Need(contents[n - 1])
    IN  first[k]
UsedIn(l) == FirstIn(l, Len(contents) + 1) - FirstCluster

FirstOf(k) == FirstIn(at, k)
UsedClusters == UsedIn(at)

ClusterStart(c) == at.cluster_heap_offset + (c - FirstCluster) * Per

-----------------------------------------------------------------------------
\* Pieces, each a run of sectors and what is written there.

Piece(from, to, what) == [from |-> from, to |-> to, what |-> what]
Sectors(p) == p.from..(p.to - 1)
IsPiece(p) == p.to > p.from
Nonempty(p) == IF IsPiece(p) THEN <<p>> ELSE << >>

FreeFrom == at.cluster_heap_offset + UsedClusters * Per
HeapEnd == at.cluster_heap_offset + at.cluster_count * Per
BeforeTail == IF at.volume_length * S <= TailBytes THEN 0 ELSE at.volume_length - TailBytes \div S

\* Mutant: the clusters in use are not spared.
TailFromEnd == IF HeapEnd <= BeforeTail THEN HeapEnd ELSE BeforeTail

TailFrom ==
    LET end == IF HeapEnd <= BeforeTail THEN HeapEnd ELSE BeforeTail
    IN  IF FreeFrom >= end THEN FreeFrom ELSE end

InvalidateRuns ==
    Nonempty(Piece(0, at.cluster_heap_offset, Zero)) \o Nonempty(Piece(TailFrom, AllSectors, Zero))

\* A run of sectors cut into batches.
Batches(from, to, batch, what) ==
    [k \in 1..DivCeil(to - from, batch) |->
        Piece(from + (k - 1) * batch, IF from + k * batch < to THEN from + k * batch ELSE to, what)]

\* The chains of the three residents are all the table holds.
LastChained == at.first_cluster_of_root + Need(contents[1]) - 1
TableRuns ==
    Batches(at.fat_offset, at.fat_offset + SectorsOf((LastChained + 1) * EntryBytes),
            (TableBatchEntries * EntryBytes) \div S, <<"table", 0>>)

BitmapRuns ==
    LET from == ClusterStart(at.bitmap_cluster)
        set == from + SectorsOf(DivCeil(UsedClusters, 8))
        whole == from + SectorsOf(at.bitmap_bytes)
    IN  Batches(from, set, BitmapBatchBytes \div S, <<"bitmap", 0>>)
        \o Nonempty(Piece(set, whole, Zero))

UpcaseRuns ==
    LET from == ClusterStart(at.upcase_cluster)
        table == from + SectorsOf(UpcaseBytes)
    IN  <<Piece(from, table, <<"upcase", 0>>)>>
        \o Nonempty(Piece(table, from + DivCeil(UpcaseBytes, request.cluster) * Per, Zero))

\* A directory is written to the end of its clusters, a file to the end of its bytes.
ItemRun(k) ==
    LET from == ClusterStart(FirstOf(k))
        length == IF contents[k].kind = "file" THEN SectorsOf(contents[k].bytes) ELSE Need(contents[k]) * Per
    IN  Piece(from, from + length, <<"item", k>>)

ItemRuns ==
    LET runs[k \in 0..Len(contents)] == IF k = 0 THEN << >> ELSE runs[k - 1] \o Nonempty(ItemRun(k))
    IN  runs[Len(contents)]

BodyRuns == TableRuns \o BitmapRuns \o UpcaseRuns \o ItemRuns

\* Sectors of a boot region at `offset`, the one piece of them told apart sector by sector.
BootRuns(offset, from, to) == [k \in 1..(to - from) |-> Piece(offset + k - 1, offset + k, <<"boot", from + k - 1>>)]

StageRuns(n) ==
    CASE n = 1 -> InvalidateRuns
      [] n = 2 -> BodyRuns
      [] n = 3 -> BootRuns(BootSectors, 0, BootSectors)
      [] n = 4 -> BootRuns(1, 1, BootSectors)
      [] n = 5 -> BootRuns(0, 0, 1)
LastStage == 5

-----------------------------------------------------------------------------
\* The destination.

Overlaid(under, writes) == [s \in DOMAIN under |-> IF s \in DOMAIN writes THEN writes[s] ELSE under[s]]
And(writes, sectors, what) ==
    [s \in DOMAIN writes \cup sectors |-> IF s \in sectors THEN what ELSE writes[s]]
NoWrites == [s \in {} |-> Old]

StagesInit ==
    /\ LayoutInit
    /\ contents \in Trees
    /\ disk = [s \in 0..(AllSectors - 1) |-> Old]
    /\ cache = NoWrites
    /\ stage = 0 /\ todo = << >> /\ status = "asked"

\* FormatPlan::new: a layout, and a cluster for everything in the tree.
PlanFormat ==
    /\ status = "asked"
    /\ \/ /\ Plan
          /\ LET l == LayoutOf(request)
             IN  status' = IF UsedIn(l) <= l.cluster_count THEN "planned" ELSE "refused"
       \/ Refuse /\ status' = "refused"
    /\ UNCHANGED <<contents, disk, cache, stage, todo>>

Declared == \E k \in Items : contents[k].kind = "file" /\ contents[k].declared /\ contents[k].bytes > 0

\* write_to refuses a file whose bytes it does not have before it touches the destination.
RefuseDeclared ==
    /\ status = "planned" /\ Declared
    /\ status' = "refused"
    /\ UNCHANGED <<layoutVars, contents, disk, cache, stage, todo>>

\* The destination is made as long as the volume: a zero in its last byte.
Extend ==
    /\ status = "planned" /\ ~Declared
    /\ status' = "writing" /\ stage' = 1 /\ todo' = StageRuns(1)
    /\ cache' = And(cache, {AllSectors - 1}, <<"cut", 0>>)
    /\ UNCHANGED <<layoutVars, contents, disk>>

WritePiece ==
    /\ status = "writing" /\ todo # << >>
    /\ cache' = And(cache, Sectors(Head(todo)), Head(todo).what)
    /\ todo' = Tail(todo)
    /\ UNCHANGED <<layoutVars, contents, disk, stage, status>>

\* A write fails, or a file to be placed cannot be read, part way through a piece.
WriteFails ==
    /\ status = "writing" /\ todo # << >>
    /\ \E to \in Sectors(Head(todo)) :
          cache' = And(cache, Head(todo).from..(to - 1), Head(todo).what)
    /\ status' = "failed"
    /\ UNCHANGED <<layoutVars, contents, disk, stage, todo>>

NextStage ==
    IF stage < LastStage
    THEN stage' = stage + 1 /\ todo' = StageRuns(stage + 1) /\ UNCHANGED status
    ELSE status' = "done" /\ UNCHANGED <<stage, todo>>

\* Mutant: the stages follow one another without a flush.
StageUnflushed ==
    /\ status = "writing" /\ todo = << >>
    /\ NextStage
    /\ UNCHANGED <<layoutVars, contents, disk, cache>>

Flush ==
    /\ status = "writing" /\ todo = << >>
    /\ disk' = Overlaid(disk, cache) /\ cache' = NoWrites
    /\ NextStage
    /\ UNCHANGED <<layoutVars, contents>>

FlushFails ==
    /\ status = "writing" /\ todo = << >>
    /\ status' = "failed"
    /\ UNCHANGED <<layoutVars, contents, disk, cache, stage, todo>>

\* Bound: of the writes not flushed a power loss keeps all but two, or loses all but two.
AtMostTwo(writes) == {{}} \cup {{s, t} : s, t \in writes}
PowerLoss ==
    /\ status \in {"writing", "failed"}
    /\ \E few \in AtMostTwo(DOMAIN cache) :
          \E kept \in {few, DOMAIN cache \ few} :
             disk' = Overlaid(disk, [s \in kept |-> cache[s]])
    /\ cache' = NoWrites
    /\ status' = "lost"
    /\ UNCHANGED <<layoutVars, contents, stage, todo>>

Write == PlanFormat \/ RefuseDeclared \/ Extend \/ WritePiece \/ WriteFails \/ Flush \/ FlushFails \/ PowerLoss

Stopped == status \in {"refused", "done", "lost"} /\ UNCHANGED stagesVars

StagesNext == Write \/ Stopped

StagesSpec == StagesInit /\ [][StagesNext]_stagesVars

-----------------------------------------------------------------------------
\* What a reader of the finished volume consults, and what it must find there.

InRun(s, first, length) == ClusterStart(first) <= s /\ s < ClusterStart(first) + length

Wanted(s) ==
    IF s < 2 * BootSectors THEN {<<"boot", s % BootSectors>>}
    ELSE IF s < at.cluster_heap_offset
         THEN {IF at.fat_offset <= s /\ (s - at.fat_offset) * S < (LastChained + 1) * EntryBytes
               THEN <<"table", 0>> ELSE Zero}
    ELSE IF InRun(s, at.bitmap_cluster, SectorsOf(at.bitmap_bytes))
         THEN {IF (s - ClusterStart(at.bitmap_cluster)) * S * 8 < UsedClusters THEN <<"bitmap", 0>> ELSE Zero}
    ELSE IF InRun(s, at.upcase_cluster, SectorsOf(UpcaseBytes)) THEN {<<"upcase", 0>>}
    ELSE {<<"item", k>> : k \in {i \in Items :
            InRun(s, FirstOf(i), IF contents[i].kind = "file" THEN SectorsOf(contents[i].bytes)
                                 ELSE Need(contents[i]) * Per)}}

Whole == \A s \in DOMAIN disk : \A what \in Wanted(s) : disk[s] = what

\* "Applied that way, an interruption once the first stage is complete leaves either nothing
\* a driver mounts or the whole volume": whatever a power loss keeps, nothing before the heap
\* and no free cluster at the end is as it was, a main boot sector is only ever the last of
\* the volume it describes, and a run that finishes leaves it.
NothingOrWhole ==
    /\ stage > 1 =>
         /\ \A s \in DOMAIN disk :
               s < at.cluster_heap_offset \/ (s >= BeforeTail /\ s >= FreeFrom) => disk[s] # Old
         /\ disk[0] = <<"boot", 0>> => Whole
    /\ status = "done" => disk[0] = <<"boot", 0>>
    /\ status = "refused" => \A s \in DOMAIN disk : disk[s] = Old

\* "Within a stage the pieces never share a sector and may go down in any order", and each
\* covers something of the volume.
PiecesStandApart ==
    stage > 0 =>
        LET runs == StageRuns(stage)
        IN  \A i, j \in DOMAIN runs :
               /\ IsPiece(runs[i]) /\ runs[i].from >= 0 /\ runs[i].to <= AllSectors
               /\ i < j => Sectors(runs[i]) \cap Sectors(runs[j]) = {}

\* "a signature another format keeps before the heap or in the volume's last mebibyte, are
\* gone before anything new is written."
EndIsGone ==
    stage > 1 => \A s \in DOMAIN disk : s >= BeforeTail => disk[s] # Old
=============================================================================
