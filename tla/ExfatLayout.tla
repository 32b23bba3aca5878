---------------------------- MODULE ExfatLayout ----------------------------
(***************************************************************************)
(* Where the regions of an exFAT volume go: `plan_layout` in              *)
(* exfat/geometry.rs. The allocation table is sized from a bound on the    *)
(* clusters before the heap behind it is placed, so nothing but the        *)
(* arithmetic keeps the table long enough for the clusters there turn out  *)
(* to be.                                                                  *)
(*                                                                         *)
(* Lengths and alignments are in bytes. That a cluster, a boundary and a   *)
(* sector are powers of two is checked before any of this, and all that    *)
(* is left of it here is that the boundary is whole sectors.               *)
(***************************************************************************)
EXTENDS Integers

CONSTANTS
    Requests,           \* what is planned: [volume, sector, cluster, align]
    ReservedSectors,    \* RESERVED_SECTORS, the two boot regions
    MinSectors,         \* MIN_VOLUME_SECTORS
    MaxClusters,        \* MAX_CLUSTER_COUNT
    MaxWord,            \* the largest 32-bit value
    UpcaseBytes         \* RECOMMENDED_UPCASE_BYTES

Positive == Nat \ {0}

ASSUME RequestsAssumption ==
    /\ Requests \subseteq [volume : Nat, sector : Positive, cluster : Positive, align : Positive]
    /\ \A r \in Requests : r.align % r.sector = 0 /\ r.cluster % r.sector = 0
ASSUME LimitsAssumption ==
    /\ ReservedSectors \in Positive /\ MinSectors \in Positive /\ UpcaseBytes \in Positive
    /\ MaxClusters \in Nat /\ MaxWord \in Nat

VARIABLES request, layout

layoutVars == <<request, layout>>

DivCeil(n, d) == (n + d - 1) \div d
RoundUp(n, to) == DivCeil(n, to) * to

EntryBytes == 4
FirstCluster == 2
TableTail == 9

VolumeLength(r) == r.volume \div r.sector
VolumeBytes(r) == VolumeLength(r) * r.sector

FatAt(r) == RoundUp(ReservedSectors * r.sector, r.align)

\* Mutant: the bound is not rounded up.
BoundLow(r) == (VolumeBytes(r) - (FatAt(r) + TableTail)) \div (r.cluster + EntryBytes)

\* Each cluster charged for its own table entry.
ClusterBound(r) ==
    (VolumeBytes(r) - (FatAt(r) + TableTail)) \div (r.cluster + EntryBytes) + 1

FatBytes(r) == RoundUp((ClusterBound(r) + FirstCluster) * EntryBytes, r.sector)
HeapAt(r) == RoundUp(FatAt(r) + FatBytes(r), r.align)
Clusters(r) == (VolumeBytes(r) - HeapAt(r)) \div r.cluster

BitmapBytes(r) == DivCeil(Clusters(r), 8)
BitmapClusters(r) == DivCeil(BitmapBytes(r), r.cluster)
UpcaseClusters(r) == DivCeil(UpcaseBytes, r.cluster)

Refusal(r) ==
    IF VolumeLength(r) < MinSectors THEN "volume too small"
    ELSE IF VolumeBytes(r) < FatAt(r) + TableTail THEN "no cluster heap"
    ELSE IF FatBytes(r) \div r.sector > MaxWord THEN "too many clusters"
    ELSE IF HeapAt(r) >= VolumeBytes(r) THEN "no cluster heap"
    ELSE IF Clusters(r) > MaxClusters THEN "too many clusters"
    ELSE IF BitmapClusters(r) + UpcaseClusters(r) + 1 > Clusters(r) THEN "heap too small"
    ELSE "none"

\* Offsets are recorded in sectors, cluster numbers from 2.
LayoutOf(r) ==
    [volume_length |-> VolumeLength(r),
     fat_offset |-> FatAt(r) \div r.sector,
     fat_length |-> FatBytes(r) \div r.sector,
     cluster_heap_offset |-> HeapAt(r) \div r.sector,
     cluster_count |-> Clusters(r),
     bitmap_cluster |-> FirstCluster,
     bitmap_bytes |-> BitmapBytes(r),
     upcase_cluster |-> FirstCluster + BitmapClusters(r),
     first_cluster_of_root |-> FirstCluster + BitmapClusters(r) + UpcaseClusters(r)]

Unplanned == [status |-> "unplanned"]
Planned(r) == [status |-> "planned", at |-> LayoutOf(r)]

LayoutInit == request \in Requests /\ layout = Unplanned

\* plan_layout
Plan ==
    /\ layout = Unplanned
    /\ Refusal(request) = "none"
    /\ layout' = Planned(request) /\ UNCHANGED request

Refuse ==
    /\ layout = Unplanned
    /\ Refusal(request) # "none"
    /\ layout' = [status |-> Refusal(request)] /\ UNCHANGED request

LayoutNext == Plan \/ Refuse

LayoutSpec == LayoutInit /\ [][LayoutNext]_layoutVars

-----------------------------------------------------------------------------

SectorsPerCluster(r) == r.cluster \div r.sector

\* What a layout must be for the volume to hold what it describes: the table behind the boot
\* regions and whole before the heap, an entry for every cluster, the heap inside the volume,
\* a bitmap bit for every cluster, and the three residents in the heap.
Sound(r, at) ==
    /\ ReservedSectors <= at.fat_offset
    /\ at.fat_offset + at.fat_length <= at.cluster_heap_offset
    /\ (at.cluster_count + FirstCluster) * EntryBytes <= at.fat_length * r.sector
    /\ at.cluster_heap_offset + at.cluster_count * SectorsPerCluster(r) <= at.volume_length
    /\ at.cluster_count <= 8 * at.bitmap_bytes
    /\ at.bitmap_bytes <= (at.upcase_cluster - at.bitmap_cluster) * r.cluster
    /\ UpcaseBytes <= (at.first_cluster_of_root - at.upcase_cluster) * r.cluster
    /\ at.first_cluster_of_root < at.cluster_count + FirstCluster

\* "It is never low, so the table sized from it is never short": every layout planned is
\* sound, whatever is asked for.
LayoutIsSound == layout.status = "planned" => Sound(request, layout.at)
=============================================================================
