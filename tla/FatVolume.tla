----------------------------- MODULE FatVolume -----------------------------
(***************************************************************************)
(* A FAT volume as its reader sees it (fat/read.rs): the copies of the     *)
(* file allocation table, the chains they hold, and the read of a file     *)
(* cluster by cluster through the cursor the reader keeps.                 *)
(*                                                                         *)
(* Clusters number from 2, and a table has a few entries past the last of  *)
(* them, which fill its last sector.  A table entry is free, bad, an end   *)
(* of chain, reserved, or the number of a cluster.                         *)
(***************************************************************************)
EXTENDS Naturals, Sequences, SequencesExt

CONSTANTS
    Clusters,   \* how many clusters the volume has
    Padding     \* how many entries a table has past its clusters'

ASSUME ClustersAssumption == Clusters \in Nat \ {0} /\ Padding \in Nat

Cluster == 2..(Clusters + 1)
Indices == 2..(Clusters + Padding + 1)

FREE == 0
BAD  == Clusters + Padding + 2
EOC  == BAD + 1

\* What a step along a chain may answer in place of a cluster.
Ended  == 0
Broken == 1

VARIABLES
    volume,     \* fats, mirrored, named: the copies and which are live
    cursor,     \* chain_cursor: the chain last read, how far, and where
    answer      \* the last cluster a read asked for, and what it was given

NoCursor == [start |-> 0, index |-> 0, cluster |-> 0]

\* Mutant: the first copy is read whatever the volume says of mirroring.
AlwaysFirst == volume.fats[1]

\* The copy every chain is resolved through.
ActiveFat ==
    IF ~volume.mirrored /\ volume.named < Len(volume.fats)
    THEN volume.fats[volume.named + 1]
    ELSE volume.fats[1]

\* The cluster after c, in the table fat.
NextIn(fat, c) ==
    CASE c \notin Indices     -> Broken
      [] c \in Indices /\ fat[c] >= EOC -> Ended
      [] c \in Indices /\ fat[c] \in Cluster -> fat[c]
      [] OTHER -> Broken

NextCluster(c) == NextIn(ActiveFat, c)

-----------------------------------------------------------------------------
\* Following a chain.

\* The clusters of the chain from start, up to where it ends, breaks or loops.
Trace(start) ==
    LET path[n \in 0..Clusters] ==
          IF n = 0 THEN <<start>>
          ELSE LET p == path[n - 1]
                   next == NextCluster(Last(p))
               IN  IF next \in Cluster /\ ~Contains(p, next)
                   THEN Append(p, next) ELSE p
    IN  path[Clusters]

\* How the chain from start goes on after its trace.
TraceEnd(start) ==
    CASE NextCluster(Last(Trace(start))) = Ended  -> "whole"
      [] NextCluster(Last(Trace(start))) = Broken -> "broken"
      [] OTHER -> "looped"

-----------------------------------------------------------------------------
\* Reading.

\* Mutant: the cursor of one chain is resumed for another.
ResumeAny(start, index) ==
    IF cursor # NoCursor /\ cursor.index <= index
    THEN cursor
    ELSE [start |-> start, index |-> 0, cluster |-> start]

\* Where a read of the chain from start may resume on its way to index.
Resume(start, index) ==
    IF cursor.start = start /\ cursor.index <= index
    THEN cursor
    ELSE [start |-> start, index |-> 0, cluster |-> start]

\* The cluster so many steps along from a position, or how the way ended.  A
\* position past the number of clusters is in a loop.
ClusterAfter(position, steps) ==
    LET reached[n \in 0..steps] ==
          IF n = 0 THEN position.cluster
          ELSE IF reached[n - 1] \in {Ended, Broken} THEN reached[n - 1]
          ELSE LET next == NextCluster(reached[n - 1])
               IN  IF next \in Cluster /\ position.index + n > Clusters
                   THEN Broken ELSE next
    IN  reached[steps]

\* cluster_at: the cluster at index of the chain from start.
ClusterAt(start, index) ==
    IF start \notin Cluster THEN Broken
    ELSE LET from == Resume(start, index)
         IN  ClusterAfter(from, index - from.index)

\* read_into, one cluster of it, of a file whose entry names start.
ReadInto(start, index) ==
    LET got == ClusterAt(start, index) IN
    /\ answer' = [start |-> start, index |-> index, got |-> got]
    /\ cursor' = IF got \in Cluster
                 THEN [start |-> start, index |-> index, cluster |-> got]
                 ELSE cursor
    /\ UNCHANGED volume

-----------------------------------------------------------------------------
\* What the copies hold.

AgreeOn(copy, indices) ==
    \A c \in indices : volume.fats[copy][c] = volume.fats[1][c]

\* Mutant: the last copy is not compared.
FaultsButLast ==
    FlattenSeq([k \in 1..(Len(volume.fats) - 1) |->
        IF k + 1 = Len(volume.fats) THEN <<>>
        ELSE IF ~AgreeOn(k + 1, Cluster) THEN <<"mismatch">>
        ELSE IF ~AgreeOn(k + 1, Indices) THEN <<"padding">> ELSE <<>>])

\* table_faults: a finding for each copy that is not the first one's equal.
TableFaults ==
    FlattenSeq([k \in 1..(Len(volume.fats) - 1) |->
        IF ~AgreeOn(k + 1, Cluster) THEN <<"mismatch">>
        ELSE IF ~AgreeOn(k + 1, Indices) THEN <<"padding">> ELSE <<>>])

\* A chain read by the table alone: so many steps from start.
Along(fat, start, index) ==
    LET at[n \in 0..index] ==
          IF n = 0 THEN (IF start \in Cluster THEN start ELSE Broken)
          ELSE IF at[n - 1] \in Cluster
               THEN NextIn(fat, at[n - 1]) ELSE at[n - 1]
    IN  IF index > Clusters /\ at[index] \in Cluster THEN Broken ELSE at[index]

\* A table the volume vouches for: the one copy that is live, or each of the
\* copies of a volume that keeps them equal.
Vouched(copy) ==
    IF volume.mirrored
    THEN \A k \in DOMAIN volume.fats : AgreeOn(k, Indices)
    ELSE volume.named + 1 = copy

\* A read of a file, in whatever order its clusters and other files' are asked
\* for and whatever the reads before it left in the cursor, is given the
\* clusters of the chain in a table the volume vouches for: a cursor of another
\* chain, of another copy or from past a failure never shows
\* (read.rs, cluster_at and active_fat).
ReadsTheLiveChain ==
    \A copy \in DOMAIN volume.fats :
        Vouched(copy) =>
            answer.got = Along(volume.fats[copy], answer.start, answer.index)
=============================================================================
