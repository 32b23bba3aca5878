------------------------------ MODULE FatScan ------------------------------
(***************************************************************************)
(* The scan of a FAT volume (fat/read.rs, Reader::scan): the copies of the *)
(* table are compared, the tree is walked with every chain claimed cluster *)
(* by cluster, and the clusters allocated and claimed by nothing are       *)
(* counted, where the walk finished.                                       *)
(*                                                                         *)
(* What a directory's cluster holds is decided when it is first read: the  *)
(* image may hold anything there.  Names within a directory differ, its    *)
(* dot entries are right for the parent it is first reached from, and no   *)
(* end marker stands before its last slot; the source may fail while a     *)
(* directory is read.  An entry is a file or a directory with the cluster  *)
(* it starts at (0 for none) and, of a file, its length in clusters.       *)
(***************************************************************************)
EXTENDS FatVolume, TLC

CONSTANTS
    Volumes,    \* volumes to scan: fats, mirrored, named, root and root region
    ReadVolumes,\* volumes to read files of
    Slots,      \* what the slots of one cluster of a directory may hold
    Limits      \* caps on findings and on names

\* A volume has a copy of its table, each with an entry for every number there is.
IsVolume(v) ==
    /\ v.fats \in Seq([Indices -> Nat]) /\ v.fats # << >>
    /\ v.mirrored \in BOOLEAN /\ v.named \in Nat

ASSUME VolumesAssumption == \A v \in Volumes \cup ReadVolumes : IsVolume(v)

VARIABLES
    stage,      \* reading, tables, tree, usage, done
    limits,
    contents,   \* what each directory cluster read so far holds
    queue,      \* nodes to visit, the next one last
    claimed,    \* reached: clusters some chain has claimed
    visited,    \* directories descended into
    names,      \* entries met
    walked,     \* whether the walk finished: whether reached is an answer
    findings,   \* kinds found, how many are held, and whether any was dropped
    lostClusters        \* clusters reported allocated and reached by nothing

scanning == <<stage, limits, contents, queue, claimed, visited, names, walked,
              findings, lostClusters>>
scanVars == <<volume, cursor, answer, scanning>>

\* The root: a chain, or (start 0) the fixed region before the clusters.
Root == [kind |-> "dir", start |-> volume.root, size |-> 0]

-----------------------------------------------------------------------------
\* The report, which holds a bounded number of findings.

None == [kinds |-> {}, held |-> 0, truncated |-> FALSE]

Push(found, kind) ==
    IF found.held >= limits.findings
    THEN [found EXCEPT !.truncated = TRUE]
    ELSE [found EXCEPT !.kinds = @ \cup {kind}, !.held = @ + 1]

PushAll(found, kinds) == FoldLeft(Push, found, kinds)

IsFull(found) == found.truncated \/ found.held >= limits.findings

-----------------------------------------------------------------------------
\* Claiming a chain.

\* Mutant: a cluster already claimed is stepped over.
ClaimOver(node) ==
    LET trace == Trace(node.start) IN
    IF node.start = 0 THEN [took |-> {}, end |-> "none", count |-> 0]
    ELSE [took  |-> ToSet(trace) \cap Cluster, end |-> TraceEnd(node.start),
          count |-> Len(trace)]

\* claim_chain: the clusters a node's chain adds, up to one already claimed.
Claim(node) ==
    LET trace == Trace(node.start)
        first == SelectInSeq(trace, LAMBDA c : c \in claimed)
        count == IF first = 0 THEN Len(trace) ELSE first - 1
    IN  IF node.start = 0 THEN [took |-> {}, end |-> "none", count |-> 0]
        ELSE [took  |-> ToSet(SubSeq(trace, 1, count)) \cap Cluster,
              end   |-> IF first # 0 \/ TraceEnd(node.start) = "looped"
                        THEN "crossed"
                        ELSE IF count > Clusters THEN "too_long"
                        ELSE TraceEnd(node.start),
              count |-> count]

ClaimFaults(claim) ==
    IF claim.end \in {"none", "whole"} THEN <<>> ELSE <<claim.end>>

-----------------------------------------------------------------------------
\* Reading a directory.

\* The clusters a directory's storage is read from, in order.
DirClusters(node) == IF node.start \in Cluster THEN Trace(node.start) ELSE <<>>

\* Its entries, by regions of storage, once what each cluster holds is known.
Regions(node, held) ==
    IF node.start = 0 THEN <<volume.region>>
    ELSE [i \in DOMAIN DirClusters(node) |-> held[DirClusters(node)[i]]]

\* Lengths no cluster stands behind.
EntryFaults(entries) ==
    LET odd(e) == e.kind = "file" /\ e.start = 0 /\ e.size # 0
    IN  [i \in DOMAIN SelectSeq(entries, odd) |-> "unallocated"]

\* parse_dir, where the source answers for the first upto regions only.
Parsed(node, held, upto) ==
    LET regions == Regions(node, held)
        entries == FlattenSeq(SubSeq(regions, 1, upto))
        met     == IF Len(entries) > limits.names
                   THEN SubSeq(entries, 1, limits.names + 1) ELSE entries
    IN  [faults  |-> EntryFaults(met),
         entries |-> entries,
         end     |-> IF Len(entries) > limits.names THEN "too_large"
                     ELSE IF upto < Len(regions) THEN "source"
                     ELSE IF node.start = 0 THEN "whole"
                     ELSE IF node.start \notin Cluster THEN "broken"
                     ELSE TraceEnd(node.start)]

\* The nodes still to visit with a directory's entries among them: every file,
\* and each directory not yet descended into.  A number that is no cluster's is
\* in no set of clusters, however often it is added.
Enqueued(entries) ==
    FoldLeft(LAMBDA sofar, e :
                 CASE e.kind = "file" ->
                        [sofar EXCEPT !.queue = Append(@, e)]
                   [] e.kind = "dir" /\ e.start # 0 /\ e.start \notin sofar.visited ->
                        [queue   |-> Append(sofar.queue, e),
                         visited |-> sofar.visited \cup ({e.start} \cap Cluster)]
                   [] OTHER -> sofar,
             [queue |-> Front(queue), visited |-> visited], entries)

-----------------------------------------------------------------------------
\* The scan.

ScanInit ==
    /\ \/ stage = "reading" /\ volume \in ReadVolumes /\ limits = CHOOSE l \in Limits : TRUE
       \/ stage = "tables" /\ volume \in Volumes /\ limits \in Limits
    /\ cursor = NoCursor
    /\ answer = [start |-> 0, index |-> 0, got |-> Broken]
    /\ contents = << >>
    /\ queue = <<Root>>
    /\ claimed = {}
    /\ visited = {volume.root} \cap Cluster
    /\ names = 0
    /\ walked = FALSE
    /\ findings = None
    /\ lostClusters = {}

\* A caller that reads, and does not scan.
ReadFile ==
    /\ stage = "reading"
    /\ \E start \in Indices, index \in 0..(Clusters + 1) : ReadInto(start, index)
    /\ UNCHANGED scanning

\* scan_tables.
ScanTables ==
    /\ stage = "tables"
    /\ findings' = PushAll(findings,
                        IF volume.mirrored THEN TableFaults
                        ELSE IF volume.named >= Len(volume.fats)
                             THEN <<"unmirrored", "no_such_copy">>
                             ELSE <<"unmirrored">>)
    /\ stage' = "tree"
    /\ UNCHANGED <<volume, cursor, answer, limits, contents, queue, claimed,
                   visited, names, walked, lostClusters>>

\* scan_tree gives up: what it did not reach is not evidence of anything.
StopShort(found) ==
    /\ findings' = found
    /\ stage' = "usage"
    /\ UNCHANGED <<queue, claimed, visited, names, walked>>

ScanFull ==
    /\ stage = "tree" /\ queue # <<>> /\ IsFull(findings)
    /\ StopShort([findings EXCEPT !.truncated = TRUE])
    /\ UNCHANGED <<volume, cursor, answer, limits, contents, lostClusters>>

\* A directory's entries join the nodes to visit, if it was read whole.
TakeEntries(node, parsed, found) ==
    CASE parsed.end = "too_large" -> StopShort(Push(found, "too_large"))
      [] parsed.end = "whole" /\ names + Len(parsed.entries) > limits.names ->
            StopShort(Push(found, "too_large"))
      [] parsed.end = "whole" /\ names + Len(parsed.entries) <= limits.names ->
            /\ names' = names + Len(parsed.entries)
            /\ queue' = Enqueued(parsed.entries).queue
            /\ visited' = Enqueued(parsed.entries).visited
            /\ claimed' = claimed \cup Claim(node).took
            /\ findings' = found
            /\ UNCHANGED <<stage, walked>>
      [] OTHER ->
            /\ findings' = Push(found, parsed.end)
            /\ queue' = Front(queue)
            /\ claimed' = claimed \cup Claim(node).took
            /\ UNCHANGED <<stage, visited, names, walked>>

\* One directory: its chain is claimed, then its entries are read.
ScanDirectory ==
    /\ stage = "tree" /\ queue # <<>> /\ ~IsFull(findings)
    /\ Last(queue).kind = "dir"
    /\ LET node    == Last(queue)
           unknown == ToSet(DirClusters(node)) \ DOMAIN contents
       IN  \E found \in [unknown -> Slots] :
             \E upto \in 0..Len(Regions(node, contents @@ found)) :
               LET parsed == Parsed(node, contents @@ found, upto) IN
               /\ contents' = contents @@ found
               /\ TakeEntries(node, parsed,
                      PushAll(findings, ClaimFaults(Claim(node)) \o parsed.faults))
    /\ UNCHANGED <<volume, cursor, answer, limits, lostClusters>>

\* One file: its chain is claimed, and held against its length.
ScanFile ==
    /\ stage = "tree" /\ queue # <<>> /\ ~IsFull(findings)
    /\ Last(queue).kind = "file"
    /\ LET node  == Last(queue)
           claim == Claim(node)
       IN  /\ findings' = PushAll(findings, ClaimFaults(claim) \o
                  (IF claim.end = "whole" /\ claim.count # node.size
                   THEN <<"length">> ELSE <<>>))
           /\ claimed' = claimed \cup claim.took
    /\ queue' = Front(queue)
    /\ UNCHANGED <<volume, cursor, answer, stage, limits, contents, visited,
                   names, walked, lostClusters>>

\* The walk is over; it answers unless the source failed it somewhere.
ScanWalked ==
    /\ stage = "tree" /\ queue = <<>>
    /\ stage' = "usage"
    /\ walked' = ("source" \notin findings.kinds)
    /\ UNCHANGED <<volume, cursor, answer, limits, contents, queue, claimed,
                   visited, names, findings, lostClusters>>

\* Mutant: an unfinished walk's clusters are counted against.
LostToAnyWalk == {c \in Cluster : ActiveFat[c] \notin {FREE, BAD} /\ c \notin claimed}

\* The clusters allocated that no chain reached, of a walk that finished.
Lost == {c \in Cluster : walked /\ ActiveFat[c] \notin {FREE, BAD} /\ c \notin claimed}

\* scan_usage.
ScanUsage ==
    /\ stage = "usage"
    /\ lostClusters' = IF IsFull(findings) THEN {} ELSE Lost
    /\ findings' = IF Lost = {} THEN findings ELSE Push(findings, "lost")
    /\ stage' = "done"
    /\ UNCHANGED <<volume, cursor, answer, limits, contents, queue, claimed,
                   visited, names, walked>>

ScanNext == ReadFile \/ ScanTables \/ ScanFull \/ ScanDirectory \/ ScanFile
        \/ ScanWalked \/ ScanUsage

ScanSpec == ScanInit /\ [][ScanNext]_scanVars

-----------------------------------------------------------------------------
\* What the volume holds, by its tree and its tables.

\* The entries of the directory at start, where it is read whole.
EntriesOf(start) ==
    LET node == [kind |-> "dir", start |-> start, size |-> 0]
    IN  IF start = 0 THEN volume.region
        ELSE FlattenSeq(Regions(node, contents))

ReadWhole(start) ==
    start = 0 \/ (/\ start \in Cluster /\ TraceEnd(start) = "whole"
                  /\ ToSet(Trace(start)) \subseteq DOMAIN contents)

\* The directories below the root, by where they start.
Directories ==
    LET below[n \in 0..Clusters] ==
          IF n = 0 THEN {volume.root}
          ELSE below[n - 1] \cup
               {e.start : e \in {f \in UNION {ToSet(EntriesOf(d)) :
                                     d \in {w \in below[n - 1] : ReadWhole(w)}} :
                                   f.kind = "dir" /\ f.start # 0}}
    IN  below[Clusters]

\* The places of the tree: an entry of a directory, by its position.
EntryPlaces == UNION {{[dir |-> d, at |-> i] : i \in DOMAIN EntriesOf(d)} :
                    d \in {w \in Directories : ReadWhole(w)}}

EntryAt(place) == EntriesOf(place.dir)[place.at]

Occupies(place) ==
    IF EntryAt(place).start = 0 THEN {}
    ELSE ToSet(Trace(EntryAt(place).start)) \cap Cluster

RootOccupies == IF volume.root = 0 THEN {} ELSE ToSet(Trace(volume.root))

Occupied == RootOccupies \cup UNION {Occupies(p) : p \in EntryPlaces}

\* What the tree names is there to be read.
TreeIsReadable ==
    /\ \A d \in Directories : ReadWhole(d)
    /\ \A p \in EntryPlaces : EntryAt(p).start \in Cluster \cup {0}

\* The clusters a scan reports lost are those the table allocates and no file
\* or directory of the tree stands on, however chains cross, loop or break on
\* the way; and a walk cut short, by a cap or by its source, reports none.  A
\* directory that cannot be read whole makes the walk's answer a partial one,
\* which the report does not say, and is left out (read.rs:3226-3231).
LostIsWhatIsUnreached ==
    stage = "done" =>
        /\ ~walked => lostClusters = {}
        /\ lostClusters # {} /\ TreeIsReadable =>
              lostClusters = {c \in Cluster : ActiveFat[c] \notin {FREE, BAD}} \ Occupied

\* A scan that found nothing found a sound volume: the copies of its table are
\* equal, every directory is whole, every file has the clusters its length
\* needs, no cluster stands under two entries and none is allocated to no one.
\* Two entries leading to one directory are not found, and
\* a number past the last cluster is followed through the table's padding.
CleanMeansSound ==
    stage = "done" /\ findings = None =>
        /\ volume.mirrored
        /\ \A k \in DOMAIN volume.fats : AgreeOn(k, Indices)
        /\ \A d \in Directories : ReadWhole(d)
        /\ \A p \in EntryPlaces : LET e == EntryAt(p) IN
              e.kind = "file" /\ e.start \in Cluster \cup {0} =>
                Cardinality(Occupies(p)) = e.size
        /\ \A p, q \in EntryPlaces :
              /\ p # q /\ Occupies(p) \cap Occupies(q) # {} =>
                    EntryAt(p).kind = "dir" /\ EntryAt(q).kind = "dir"
              /\ Occupies(p) \cap RootOccupies # {} => EntryAt(p).kind = "dir"
        /\ {c \in Cluster : ActiveFat[c] \notin {FREE, BAD}} = Occupied

\* A scan's report is true, of what is lost and of what is sound.
ReportIsTrue == LostIsWhatIsUnreached /\ CleanMeansSound
=============================================================================
