# Verification of ferrosys

TLA+ models of ferrosys, a library (`crates/ferrosys`) and a command-line program
(`crates/ferrosys-cli`) that build and read filesystem images (ext2/3/4, FAT,
exFAT, btrfs, APFS) without mounting them. Each module is translated from the
source, TLC checks it on small instances, and TLAPS proves the theorems listed
below for every value of the constants. Paths in this file are under
`crates/ferrosys/src/` unless they say otherwise.

- [The system](#the-system)
- [Modules](#modules)
- [Runs, bounds and what they show](#runs-bounds-and-what-they-show)
- [Fairness](#fairness)
- [What is proved](#what-is-proved)
- [What the documentation says otherwise](#what-the-documentation-says-otherwise)
- [What is only model-checked, and what is not modelled](#what-is-only-model-checked-and-what-is-not-modelled)
- [Plan](#plan)

## The system

ferrosys is a sequential library over `Read`, `Write` and `Seek`. Nothing in it
runs concurrently with itself. What is hard comes from outside: an image is
bytes nobody vouches for (a cyclic graph of directories, a log that never ends),
a destination may lose power or fail in the middle of a rewrite, an image that
is opened may itself be the remains of a crash, and the host's file system is
shared with other processes.

| Component | State it keeps | Operations | What is hard | What makes it correct |
|---|---|---|---|---|
| Depth-first walk (`walk.rs`, `Walk` for each family's reader) | frontier, visited keys, names seen | seed, pop, yield, descend | cyclic and shared directories; memory bound chosen by the image | bounded frontier, each directory once, exact cap, ends |
| Path resolution (`resolve.rs`, `Resolve`) | pending components, current node, directories descended through, links followed | ascend, look up, follow a link, descend | `..` after links, cycles of links, entries that name the root | answers what the path means, ends |
| Journal recovery (`replay.rs`, `read.rs`) | plan (copies, revocations), overlay, table cache, superblock | open, scan, apply, install, fall back | logs cut anywhere by a crash, reused blocks, wrapped sequences, damaged copies, crafted logs | presents the last commit, refuses no sound log, a failure leaves nothing behind |
| Ext block allocator (`alloc.rs`) | bitmap, cursor | mark, allocate, allocate_contiguous | a cursor the other operations do not move; failure part of the way | a pool that never hands out a block twice nor reports a false shortage |
| Identity rewrite (`identity.rs`) | the superblock copies and the journal's, patched in memory | plan, write, sync | stopped at any write, by an error or by a power loss that reorders writes; run again | a second run reaches the bytes of one uninterrupted run |
| Fit search (`sizing.rs`; `fit.rs`, `fat/fit.rs`, `apfs/fit.rs` use it) | bracket, carried value, shared tree (FAT) | climb, narrow, bisect, next band, settle | fit is not monotone in size; the last probe is not the winner | the size returned fits, is what is carried, and nothing just below it fits |
| Directory sink (`host/sink.rs`) | open handles, deferred directories, first names, report | make, fill, link, finish a directory, skip | metadata calls undo one another; the host refuses some | faithful or reported |
| exFAT writer (`exfat/geometry.rs`, `exfat/model.rs`, `exfat/materialize.rs`) | layout, five stages of writes | plan, allocate, write a stage, flush | a power loss between or inside stages, over an old volume | nothing mountable or the whole volume |
| Destination (`ferrosys-cli/src/dest.rs`, `format.rs`, `extract.rs`) | what the run reads, the handle, the temporary name | judge, open, write, sync, rename, clean up | two runs, other processes, power loss, names that change under a run | old or new; never cuts its own source |
| APFS opening (`apfs/container.rs`, the scan in `apfs/fs.rs`) | descriptor ring, block zero, object map, volume superblock | find the checkpoint, check that it is whole, read through the object map, grade what was passed over | a crash leaves a container superblock before its mapping blocks; blocks freed and given out again verify too | opens the last whole transaction, serves it as of then, tells a crash from a loss |
| FAT reader (`fat/read.rs`, `fat/table.rs`) | a chain cursor, claimed clusters, the findings | follow a chain, read a range, scan tables, tree and usage | copies of the table that disagree, chains that cross, loop or break, caps | what is reported lost is lost, a clean scan is of a sound volume, reads follow the live copy |
| btrfs volume and scan (`btrfs/volume.rs`, `btree.rs`, `fs.rs`, `scan.rs`) | the superblock taken, the state of each copy, a cache of tree blocks, blocks read past | choose a superblock, fetch a block through its copies, descend a tree, scan every tree | superblocks a crash left generations apart; stale blocks at addresses given out again, told apart by generation alone | serves one transaction, reads past damage, refuses strictly what a scan reports |
| Block cache (`cache.rs`) | slots by recency | get, insert | a value older than the overlay or the transaction asked for | modelled, within the journal's reader and the btrfs volume |
| ext writer, ext reader proper (`materialize.rs`, `geometry.rs`, `read.rs`, ...) | tree, layout, tables | place, write, look up, scan | placement over the allocator | not modelled beyond the components above |
| FAT, btrfs, APFS writers; APFS trees; exFAT reader | layout, trees | plan, write; open, walk | - | not modelled, see below |
| Sources and archives (`tree.rs`, `source.rs`, `host.rs`, `archive/`, `image_source.rs`) | layers, handles, tar cursor | add, walk, read a range | a tree that changes while it is read | only the check a walked file gets (in Destination) |
| Stream adaptors (`io.rs`) | offset | read, write, seek | boundaries | not modelled |
| Records, checksums, decoders, reports, command line | none | pure functions and rendering | - | not modelled, they have no order of steps to check |

How the parts interact. The command line opens a **destination**, builds a
source tree and calls a family's writer, which **sizes** the volume, plans a
layout over the **allocator** and hands the stages to the destination's handle.
A reader opens an image (the ext one **recovers the journal** first and then reads
through the overlay); **walk** and **resolve** drive any reader through a trait
whose methods are the calls between them; the **directory sink** consumes what a
walk yields. The **identity rewrite** is a separate operation on a finished
image. Readers and sinks meet only through these calls, and no memory is shared
between two of these components, which is why most modules are composed with an
environment (the host, the disk, a crashing writer) rather than with one
another. The exception is the walk, which hands the reader back to its visitor:
ReadTree composes it with the resolution of paths.

## Modules

In what follows "external" means code outside the repository (the kernel's
jbd2, the host's file system, the disk), modelled from how the source uses it.
Definitions marked `Mutant:` in the modules are not part of a specification:
each is a plausible bug, kept beside the definition it would replace to show
that a property can tell the two apart.

**ImageGraph**: the images the next four modules read: what each directory names
and where each link leads.

**TreeWalk**: `drive` in `walk.rs` with the ext reader's half of the `Walk`
trait. An action is one pass of the loop: `Refuse` a pass that returns an error,
`Visit` one that yields a name without descending, `Descend` one that pushes a
directory's names, with `Seed` before and `ReadFails` anywhere. An image is a
graph (`entries`): any directory may name any node, the root included. `seen >= cap`
is asked first in the loop and can never be what refuses (`BoundedFrontier`
shows it), so it is a branch of `Refusal` rather than an action.

**PathResolve**, **PathMeaning**: `drive` in `resolve.rs` with the ext reader's
half of `Resolve`. Actions are the exits and continuations of one pass:
`NotADirectory`, `Ascend`, `Absent`, `LinkRefused`, `Expand`, `Enter`, `Reach`,
and `LookupFails` for a read that fails.
`pending`, `node`, `descended` and `hops` are the locals of the same names. A
link's target is the components it is split into and whether it is too long,
empty, relative or absolute. PathMeaning is the abstract meaning: a recursive function on
the path and on the targets it passes, with no queue and no stack;
`ResolvesToItsMeaning` compares the two.

**ReadTree** composes TreeWalk and PathResolve: `drive` in `walk.rs` hands its
visitor the reader "so it can stat, read, and resolve while the walk is in
progress", and the visitor resolves the path it was just handed (`Ask`) while the
walk waits. Paths asked for with no walk under way are the other initial states.

**LogReplay**: how the ext reader opens a filesystem that was not unmounted:
`Open` (the journal's inode, `check_tail`, an empty log), `ScanDescriptor`,
`ScanRevoke`, `ScanCommit`, `ScanEnds` (the loop of `scan`), `Apply` (revocations
first, then the newest applicable copy of each block), `Install` and
`TakeSuperblock` (`recover` and `replay_journal`), `ReadTable` (the cached reads that
happen before and after), and the faults of each, which all end in `Fault`. A
block of the log is what the scan can tell of it. `View` is what `read_at` gives through
the overlay. **BlockCache** is `cache.rs`, the sequence of what is held from the least
to the most recently used; LogReplay's table cache is one. Two modules give
LogReplay an environment, and one run checks both:

- **JournalRecovery** composes it with an external jbd2 writer on a disk that loses
  power: `Begin`, `Write`, `Commit`, `WriteDirectly` (a freed block is
  reused without the journal), `Checkpoint`, `AdvanceTail`, `MarkEmpty`, `Crash`;
  then `Damage`, one block going bad. `store` is what was committed.
- **CraftedLog** starts it on arbitrary logs; JournalRecovery extends it.

**FreeSpace**, **BlockAllocator**: what the allocator promises (a set that is
only taken from, the lowest blocks granted, a refusal only when true), and
`alloc.rs` scanning a bit at a time behind a cursor, marks taking bits anywhere.
`ImplementsFreeSpace` is the refinement, with the pool's free set mapped to the
clear bits.

**IdentityRewrite**: `plan_rewrite`, `decide_checksum_seed`, `patch`,
`patch_journal`, `verify_checksum` and the loop that writes. `image` is what the
run and later runs read, `disk` what is durable. `Plan` or `Refuse`, then
`WriteNext` a copy at a time, `Finish`; the environment's `WriteFails`,
`Writeback` of any place, and `PowerLoss`, after which any write not yet written
back may be there or not and one may be torn; `Again` is the same change run
again, which is what the source tells its caller to do. A checksum is a word
injective in what it covers.

**SizeBracket**, **FatSizeSearch**: `bracket` as a state machine (`Climb...`,
`Narrow...`, `Bisect...`) over a probe it knows nothing of, and `fat/fit.rs` on top of it:
bands searched one after another, every probe allocating into one tree, and
`Settle`. FatSizeSearch extends SizeBracket and adds its steps to those of the
search.

**DirectorySink**: `write_tree` and what it calls in `host/sink.rs`. The tree is
what a walk hands over, the host is external: it may refuse calls, and its
`chown` clears mode bits and attributes as Linux does. A directory's handle is on `open`
while its entries arrive; finished directories wait in `held` where a later link may still
need to search them.

**ExfatLayout**, **ExfatStages**: `plan_layout` as operators over a request; and
allocation, the five stages of pieces and `write_to` over a disk with a cache:
`WritePiece` writes one, `Flush` ends a stage, and `WriteFails`, `FlushFails` and
`PowerLoss` stop it anywhere. `Wanted` says what each sector of the finished volume
must hold, from what a reader consults, and `Whole` that they all do.

**Destination**: `Reads::refuse`, `Destination::open`, `commit` and `drop`, in
the order `format` and `extract --to-tar` call them, for two runs. The host is external: names lead to inodes
or to a symbolic link; `SomeoneRenames` changes names under the
runs, `Kill` and `PowerLoss` stop them. A source is held open, in memory, or a file a
walk of the host found, which `Walked::open` opens by name for each window read of it
(`LookAtWalked`, `OpenWalked`, `Checked`); a power loss keeps a prefix of the
directory operations and, of bytes that were not flushed, anything.

**ApfsOpen**, **ApfsContainer**: opening an APFS container. ApfsOpen is operators over
a descriptor ring, objects and block zero: `Candidates` are the container
superblocks `find_checkpoint` accepts, `Whole` its test of the mapping blocks,
`Opened` the answer of `open_with` under a policy, `Grade` and `Findings` what the
scan says of what was passed over. ApfsContainer composes it with an external
driver: `Begin` writes a transaction's objects, `Write` its checkpoint's blocks
in any order, `Finish`, `Unmount`, `LosePower`, `Mount`; then `Damage` of a block or
`Double`, a second checkpoint at one transaction. The driver is as container.rs
describes it: it copies on write, has its objects on the disk before the
checkpoint that names them, frees a block only once a transaction that does not
use it is the live one, and never uses a transaction number twice. The ring may
hold another container's blocks.

**FatVolume**, **FatScan**: the FAT reader. FatVolume is following chains as
operators: the active table, `NextCluster`, the cursor that reads of files share
(`ClusterAt`, `Resume`) and the comparison of the copies. FatScan is the scan in the
order of the code, `ScanTables`, a step for each entry of the tree (`ScanDirectory`,
`ScanFile`, `TakeEntries`), `ScanUsage`, over any table, tree and cap, and reads of
any file in any order in between. A volume is its tables and its entries; a
directory's entries lie in the slots its chain reaches, so crossed chains share
them.

**BtrfsVolume**, **BtrfsCommits**: the btrfs reader, and the volumes a driver leaves.
BtrfsVolume is the opening (`Chosen`, the newest copy of the superblock and of those the
earliest; `Judged`, what each other copy then is; `MirrorDisagreement`, what a strict
open refuses, and `MirrorAnomaly`, what a scan reports, which are two pieces of
code), the fetch of a tree block (`Held`, `Good`, `Fetches`, `Through`), `ReadRoots`
and `Descend`, the descent of one tree a block at a time. Each image is read
twice, strictly and then leniently, and `answers` keeps what each reading took, was
refused, read through a later copy and reported. BtrfsCommits is the external
driver: `Begin` writes a transaction's blocks to free addresses, `WriteSuper` a copy
of the superblock at a time, `LoseBlocks` and `Stop` are power lost in between,
`Mount` goes on from the newest copy; an acknowledged write may be lost, and
`SpoilSuper` and `SpoilBlock` damage what is at rest.

## Runs, bounds and what they show

Every bound below is a CONSTANT of the `.cfg` named, or a definition of the MC
module.

| Run | Bounds | Distinct states | Shows |
|---|---|---|---|
| `read_tree` | walks: 3 directories, a link and up to 2 names each, every graph, caps 0, 3, 5, path depth 2, strict or lenient, a resolution of each name handed out; paths: 2 directories, a file, 2 links, 10 pairs of targets, all paths of up to 2 components and five of 3, 2 hops | 1.8 million | `BoundedFrontier`, `WalksTheTree`, `RefusesExactly`, `ResolvesToItsMeaning`, `DescentIsAWayDown`, `WalkedPathsResolve`, `ReadsEnd` |
| `journal` | 3 blocks, a ring of 6 log blocks, 3 transactions, sequences mod 8 starting at 7, checksums on, a cache of 2; and crafted logs of that ring, of every sequence of whole records, 3 starts | 4.5 million | `CrashLosesNothing`, `CachesFollowOverlay`, `NothingHalfServed`, `ScanBounded`, `ReplaysInOrder`, `OpeningEnds` |
| `allocator` | 8 blocks and 2 bits of padding, every set of metadata, requests of 0, 1, 2, 3, 5 | 41 thousand | `NothingFreeBelow`, `ImplementsFreeSpace`, `Returns` |
| `identity` | a primary, a backup, a log; 3 kinds of primary, 5 of backup, 4 of log; every change; 2 stops | 217 thousand | `RerunFinishes`, `ChecksumsStayValid`, `PrimaryLeads`, `NoLaundering`, `Settles` |
| `fat_sizing` | all 15625 probes of 6 sizes, 5 floors, bands meeting at 4 or not | 777 thousand | `AnswerIsAnEdge`, `FindsTheSmallest`, `SettlesOnTheLeast` |
| `sink` | four shapes of tree, every filling, 2 deferred directories, 1 named skip, 2 refusals | 834 thousand | `FaithfulOrReported`, `FirstNamesReachable` |
| `exfat_stages` | volumes of 6 to 170 sectors, 5 trees, every remainder of a small volume | 177 thousand | `LayoutIsSound`, `NothingOrWhole`, `PiecesStandApart` |
| `exfat_end` | as above | - | violation of `EndIsGone` |
| `destination` | two runs, every pair of requests (atomic or not, a source held, walked or in memory), 2 pieces, one change by another process | 674 thousand | `OldOrNew`, `SourceIsKept`, `TouchesOnlyItsOwn` |
| `apfs` | a ring of 5 blocks, 4 addresses, 4 transactions, checkpoints of 2 or 3 blocks, another container's ring under it or not, one fault | 2.5 million | `CrashOpensACommit`, `ServesItsTransaction`, `CrashAndLossToldApart` |
| `fat_scan` | every table of 3 clusters and an entry of padding, two entries in the root, one in each cluster; pairs of tables apart in one entry; reads of files in any order; caps of 1 or 8 on findings and names | 3.0 million | `ReportIsTrue`, `ReadsTheLiveChain` |
| `btrfs` | a root tree and a tree of two blocks, 5 addresses, 2 copies, 3 superblock locations of which the device has room for 2, a cache of 1 block, 3 transactions, 2 faults | 1.8 million | `ServesTheChosen`, `ReadsTheNewestPastDamage`, `StrictIsCleanScan` |

A few properties are conjunctions of parts that are stated on their own in the
module: `WalksTheTree` (order, completeness), `RefusesExactly` (cap, repeated
directories), `ReadsEnd`, `CrashLosesNothing`, `NothingHalfServed`, `RerunFinishes`,
`AnswerIsAnEdge`, `SettlesOnTheLeast`, `SourceIsKept`, `TouchesOnlyItsOwn`, `ReportIsTrue`,
`CrashAndLossToldApart`, `ReadsTheNewestPastDamage`.

Why these are enough:

- *read_tree*: three directories make every shape that matters: a cycle to the root,
  to an ancestor, to itself, and a directory named twice from one or from two
  others. The caps lie below, at and above the number of names, and depth 2 is
  passed by a cycle followed once too often. The images paths are asked of let
  `..` after a link land in the root, in the link's directory and in a directory that
  names the root. With 2 hops, chains of one and two links end and every cycle
  is refused.
- *journal*: three transactions on a six-block ring go round it, so that a
  transaction straddles its end, old records lie after the tail with an old
  sequence, and the sequence wraps through zero. One block may be freed in one
  transaction and reused in the next, the situation revoke records are for.
  Of the crafted logs, those of one repeated sequence are the shortest way for a log
  to go round for ever. They start at three places of the ring, one of them outside it, and
  a block that stops a scan is put at several. Two cached blocks of three make both a
  hit and an eviction happen before and after the overlay.
- *identity*: what one backup does, every backup does, since no step treats two of
  them together; the log is the third kind of place. Two stops let a run meet
  what a stopped re-run left.
- *fat_sizing*: from floor 1 the climb tries 1, 2, 4 and 6, so a window may lie
  strictly between two tries, at the ceiling, or at either side of the seam.
- *sink*: each shape isolates one hazard: a name after a directory that was left
  out, two directories waiting, a sibling after a nested directory, and `lost+found`.
- *exfat_stages*: a power loss is taken at its four extremes (all but up to two
  of the unflushed writes kept, or none but up to two). Every pair of writes appears
  in both orders, and the property speaks of pairs: a boot sector and one sector
  of what it describes. The small volumes include full ones, where the runs to zero overlap.
- *destination*: more changes from other processes were tried (two, four minutes)
  with the same result. The two runs are interchangeable (the requests are all pairs),
  so permuting them is a symmetry, and no liveness is checked there.
- *apfs*: five ring blocks are fewer than two checkpoints of three, so a checkpoint
  overwrites the last but one while it is written and the last in no order. Four
  addresses hold two transactions' objects, so each later one reuses blocks freed
  before it.
- *fat_scan*: with three clusters a chain can end, loop on itself, loop past its
  head, cross another, or run into a free or bad entry; the entry of padding is
  where a number past the last cluster leads. A read after a failed one and
  reads of two chains in turn are what one cursor can get wrong.
- *btrfs*: two addresses are free at a time, so a block freed by one transaction lies
  under the next but one; with three transactions a number is used twice after a
  power loss. Two faults lose both copies of a block, a copy of the superblock and
  the write of the other, or a write and the place that would stand in for it.
  Addresses are interchangeable and no liveness is checked, so permuting them is a symmetry. Six
  addresses with a second tree and one fault were tried, with the same result.

Deadlock is checked everywhere but in `identity` and `fat_scan`, which end for
good: after `refused` or a finished and durable change, or after the report,
nothing more happens. The other
modules stutter explicitly in their final states.

## Fairness

The code is single threaded and its loops run until they return, so where a
liveness property is stated the fairness is weak fairness of the code's own
steps and of nothing else: `ReadStep` of a walk and its resolutions, the
allocator's scan steps (not the arrival of requests), and the steps of an
identity run with its re-run. The environment owes nothing (no read has to fail,
no power to be lost, no visitor to ask) but for one thing: the host writes its page cache back, so that a place of the
identity rewrite is some day durable. The identity specification bounds the number of
stops (`MaxStops`), which is the assumption "run until it is not interrupted" of
`Settles`. That the opening of any log ends is `OpeningEnds`, an action property: every
step leaves less of a natural number to do, which needs no fairness and can be
proved. The other specifications (the sink, exFAT, FAT sizing, the destination,
the scans and the drivers) have no liveness property and state no fairness.

## What is proved

All proofs are checked by TLAPS, for every value of the constants that the named
assumptions allow.

| Module | Theorem | Says | By |
|---|---|---|---|
| ReadTreeProofs | `WalkTypeCorrect`, `FrontierIsBounded` | names yielded and held never pass the cap | `BoundedFrontier` is inductive with the types: a directory is only pushed after its names are counted with those held |
| | `EachDirectoryOnce` | a directory is descended into under one name | `visited` is exactly the set of descended nodes, and `Descend` requires a node outside it |
| | `WalkTellsTheTree` | `WalksTheTree`: names come in depth-first order, and a walk that ends well has told every name of every directory it reached | `Told`: what was yielded, with the frontier read from its top, is in order; every name of a directory descended into was yielded or is on the frontier, and everything yielded or held is one; two names are never held under one path |
| | `WalkRefusesExactly` | `RefusesExactly`: the cap refuses exactly the images with more names, a strict walk ends well over trees only | `Judged`: names seen plus names held are as many as the visited directories have names, and those directories are all reachable. Counting the names of a finite set of directories gives both directions |
| | `ResolveTypeCorrect`, `WayDown` | what was descended through is a way from the root to the current node | an ascent takes the last step off, an absolute link starts again, a relative one leaves the way alone |
| | `WalksWhileResolving`, `ReadTypes`, `ReadsWayDown` | the invariants of a walk and of a resolution hold with resolutions in the middle of walks | every step of ReadTree is a step or a stutter of TreeWalk, and a resolution begins again at the root |
| | `ResolutionIsTheMeaning` | `ResolvesToItsMeaning`: `drive` answers what the path means and refuses what means nothing for that reason | the meaning exists: of questions without one the simplest (most links followed, then fewest components) would have one. What is left (`Now`) means what was asked; a link expanded keeps that because components after others mean what they mean from where the others lead (`MeaningOnward`) |
| | `WalkedPathsAreTheirs` | `WalkedPathsResolve`: a path the walk hands its visitor resolves to the node the walk is at | `EnteredByItsNames`: each directory was entered under names that lead to it from the root, so each name handed over leads to its node; `GoingDown`: the resolution stands where the names taken so far lead, and meets a link at the end only |
| JournalRecoveryProofs | `TypeCorrect`, `ScanIsBounded` | a scan never visits more blocks than the ring has, whatever the log says | `Visits` counts what the budget test bounds before every read |
| | `OpeningTerminates` | `OpeningEnds`: no log holds the reader for ever | `Remaining`, the phases ahead and what is left of the one under way, falls at every step; bounding it needs `ScanIsBounded` |
| | `ReplayIsInOrder` | `ReplaysInOrder`: the plan is what replaying the transactions one by one would leave | `Stands(i)`, the entries that stand after i transactions: laying down the last of them for each block is `Written` of what stood before; the fold is followed by least counterexample |
| | `WholeOrNotAtAll`, `CachesAreFresh` | `NothingHalfServed`, `CachesFollowOverlay` | `JournalInv`: what each phase leaves in plan, overlay, outcome, superblock and cache, and that the blocks under an installed overlay no longer change |
| | `CrashesLoseNothing` | `CrashLosesNothing`: wherever the writer stops, what is opened is everything it committed and no more. Assumes `0 < First` and `MaxLen <= SeqMod` | `Lossless`: short of damage the log tells a string of transactions (`Tells(t, lo, hi)`), see below |
| WriterProofs | `TypeCorrect`, `CursorIsSound` | nothing below the cursor is free | while a scan runs, what it passed is used or gathered |
| | `ShortagesAreReal`, `Implementation` | a refusal reports what is free; the allocator implements FreeSpace | `Gathering`: the ranges gathered are exactly the free blocks between the cursor and the scan; `Measuring`: the run measured is free and no earlier one is long enough |
| IdentityRewriteProofs | `TypeCorrect`, `RerunsFinish` | `RerunFinishes`: a change stopped and run again ends at the bytes of one uninterrupted run, and is accepted again | every place is a copy torn from the first image and the target, a copy that checks out is one of the two (a checksum is injective in its fields), and planning from any such image gives the same target |
| | `SeedsStayValid`, `PrimaryFirst`, `NothingIsLaundered` | the checksum seed in force stays the one used; the primary leads; no damaged copy comes to check out | the same mixture, with the order `WriteNext` keeps for `PrimaryFirst`; `NothingIsLaundered` is an action property |
| SizingProofs | `TypeCorrect`, `AnswersAreEdges` | `AnswerIsAnEdge`, for every probe, monotone or not | the bracket: `lo` was refused (or is below the floor) and `hi` fits and is what is carried |
| | `WindowFound` | the smallest of an interval of fits is found | where the probe is monotone, every fit lies above `lo` and below what refused from above |
| | `BandsAreBracketed`, `SettlesOnTheSmallest` | the same of each FAT band; `SettlesOnTheLeast`: the shared tree ends allocated for the size returned, the least that fits in any band | a band starts where the last ended, so that the sizes passed over were refused or belong to a band that was searched |
| | `EveryPlanIsSound` | every plan is sound, for all sizes | the cluster bound is never low: rounding only moves the heap up, so the clusters that remain are no more than were counted |
| | `InterruptedOrWhole`, `PiecesMayGoInAnyOrder` | `NothingOrWhole`, `PiecesStandApart`, for any geometry, any tree that fits, and any part of a stage kept | `StagesInv`: what is due of each sector before a stage (`Due`) is on the disk (`OnDisk`), the cache holds this stage's pieces only (`InCache`), and those laid are in it (`Laid`). `StageFits`: the runs of a stage ascend, and none touches a sector already due; `StageLays`: what is due after a stage is laid by it or was due before it |
| ApfsContainerProofs | `TypeCorrect`, `ServedAsOfItsTransaction` | whatever checkpoint opens, its volume is that of its transaction or none | `Named` and `Kept`: what a container superblock in the ring names holds, at its address, an object of its own transaction or of a later one, and a reader takes no later one; the driver's copy on write keeps it, and a fault only takes objects away |
| | `CrashesOpenACommit`, `CrashesAndLossesApart` | `CrashOpensACommit`, `CrashAndLossToldApart` | `Left`: which ring blocks hold the last checkpoint, which the one under way, and that nothing in the ring is of a later transaction. Both checkpoints fit in the ring, so that the second never covers the first |
| DirectorySinkProofs | `ExtractsFaithfully`, `FirstNamesAreReachable` | `FaithfulOrReported`, `FirstNamesReachable`, for every tree, opt-in and refusal | `SinkInv`: what was handed over comes before what is left (`InOrder`), the open directories are nested in one another (`Stacked`), nothing already left is written under again (`NothingBehind`), every name handed over is made, reported or waits (`Accounted`), a node has one inode and the first of its names (`NamedOnce`), and each inode's metadata is as far as its calls have come (`Dressed`) |
| ReaderProofs | `ServesItsTransaction` | `ServesTheChosen`, for any tree, device, cache and number of transactions, crashes and faults | `Told`: of all that is on the disk only a tree's own blocks pass for them, for the live tree, the one being committed and each a superblock names; a number used twice and a lost write together would break it, which `ToldApart` excludes. The cache holds only what was on the disk, and a reader's stack only pointers of the tree |
| | `StrictnessIsCleanliness` | `StrictIsCleanScan`, the same way for any tree, device and faults | `SideBySide`: while it met no damage a reading stands where first copies lead (`ComesBy`) and caches first copies only, and what one reading met is there for the other; there is one such course, and it does not both arrive and stumble (`OneCourse`) |
| | `ReadsTheNewest` | `ReadsTheNewestPastDamage`, the same way | `Current`: no superblock is of a later transaction than the live one but for the one being committed; `Unhurt`: without faults both are wholly on the disk; `ReadsOn`: while a reading goes through an undamaged tree (`Walking`) no block is met twice, and the blocks taken lead only to what was taken or is left, so that when nothing is left the least set holding the top and all that is below it (`Under`) was handed over |
| | `ReadsFollowTheChain` | `ReadsTheLiveChain`, for any table, number of clusters and padding | `ReadsFollow`: the cursor stands at its place of its own chain in the live table, whichever file it was left by, and the answer is of the chain asked for; a place is followed by one step of the chain, so resuming anywhere before the place asked for comes to the same cluster |
| WriterProofs (Destination) | `KeepsItsSource` | a run never cuts its source and reads nothing else | `Kept`: what each point of a run knows of the file it holds (looked at, judged, opened) |
| | `TouchesNothingElse` | a run removes and writes only what it made or opened as its destination | `Own`: at each point of a run, whose file its temporary name leads to |
| | `OldOrWhole` | an atomic destination leads to an old file or a whole flushed one | `Whole`: every inode a run made is its own to write until it is flushed and is not changed again; the destination leads to sound inodes now and in every view of the directory a power loss may go back to (`past`) |

Every inductive invariant was first checked by TLC on the instance of its run; that of
`ReadsTheNewest` also on a root tree that leads to two trees which share a leaf.

Assumptions are the ASSUMEs of the modules: constants are naturals, the root is a
directory, probes are functions on the sizes, a run's name is no other file's, and so on. TLC
evaluates them in every run. Those that say something of the system:

- an image has finitely many directories (`FiniteAssumption`), so its names can be counted;
- superblocks with different fields have different checksums (`CrcAssumption`): that a record
  which checks out is the one that was written is what the code takes a checksum for;
- bands meet at a size (`ThresholdsAssumption`);
- a tree to extract is a tree: a name is in a directory of it, which comes before it, and a directory has one name (`TreesAssumption`);
- a FAT volume has a copy of its table, each copy with an entry for every number
  (`VolumesAssumption`);
- an exFAT tree begins with its root, a directory (`TreesAssumption` of ExfatStages), and the
  last mebibyte and the batches are whole sectors (`StagesAssumption`);
- the writer frees blocks of the filesystem, which are finitely many (`WriterAssumption`);
- the ring starts after block 0 and is no longer than there are sequence numbers (hypotheses of
  `CrashesLoseNothing`): block 0 of a journal is its superblock, where `s_start` = 0 means an
  empty log, and `s_maxlen` is 32 bits wide as the sequence numbers are;
- of a btrfs volume, the root tree leads to every other tree and a block has one place in a tree,
  though two trees may share blocks as snapshots do (`PlacesAssumption`): a tree with a block in
  two places is refused by the reader as damaged, which is not what a driver writes;
- the ring holds the first checkpoint, and another container's transactions are later than any
  the driver reaches (`FirstFits`, `ForeignIsLater`): an older stranger would not be taken for the
  newest, so this is the harder case.

Recursive definitions are followed without the induction theorems: a property that fails
somewhere fails first at a least place (`LeastNat`, from the well-foundedness of the
naturals), and the step before it gives the contradiction. That the recursion of PathMeaning
defines a function at all is proved the same way, over pairs of links left and components left:
answers that agree with all they ask for agree with each other, so together they are one.

`CrashesLoseNothing` needs the most. The log alone does not say what was committed: old
transactions lie beside new ones, partly overwritten, under sequence numbers that wrap. The
invariant therefore tells it as the string `t` of every transaction the writer began, of which
`lo` is the oldest still in the log and `hi` the one being written, or the next. Positions count
on for ever, and the ring is where they come round. Its parts are `Strung` (each transaction
follows the one before, and those in the log fit in the ring), `LogHolds` (the committed ones are
whole, and any other header of the ring is of a transaction that began and lies where that one
put it, since the head last passed), `Values` (the last copy in the log that nothing later frees
is the newest content of its block, and where there is none the home is), `WriterIs` until the
crash and `ReaderIs` after it. The step that matters is where the scan stops: a header that
carries the sequence looked for, where the string ends, would be of a transaction as many
sequence numbers back as there are, and one that old has been overwritten, because a ring of at
most `SeqMod` blocks holds fewer transactions. TLC checked the invariant on the run's instance,
with `t`, `lo` and `hi` kept as history variables, before it was proved.

## What the documentation says otherwise

One statement of the source's documentation is refuted by a run:

- `exfat_end`: the first stage of an exFAT write (`exfat/materialize.rs:905-908`)
  is documented to leave no old signature in the volume's last mebibyte. Where
  the tree's clusters reach into it they keep what they held until a later stage
  writes them.

Others were met while translating and have no run, because nothing depends on
them: `resolve.rs:152` says the stack of a resolution is empty exactly when the node is
the root, which an entry naming the root makes false (`..` then reads a
node instead of doing nothing, and lands in the same place); `fit.rs:58-60` says
a hint that is too high only makes the search bisect downward, where the search
never looks below its floor; `fat/fit.rs:172` calls a refusal no size changes
the whole answer, where the next band is still searched; and the comment of
`exfat/geometry.rs:491-494` says the slack of the table is a sector at most, which
alignment can exceed.

`bracket` (`sizing.rs:122-131`) is documented to find the smallest size that fits
whether or not fit is monotone. It finds one whose predecessor does not fit, which is
what `AnswersAreEdges` proves; that it is the smallest holds where the sizes that
fit are an interval (`WindowFound`).

Of the FAT reader: `scan` is said to collect "every deviation from what this
crate's writer emits" (`fat/read.rs:3018-3019`), yet a second entry that leads to a
directory is passed over without a finding, which a strict walk refuses as a
repeated directory; `CleanMeansSound` therefore lets directories share clusters. A
directory whose chain breaks has its entries dropped, and their clusters are then
reported lost although the comment at `fat/read.rs:3226-3231` says a partial walk
reports none; `LostIsWhatIsUnreached` is stated for trees that can be read. A start cluster
past the last one but within the table's padding is followed by `claim_chain`,
where `cluster_at` refuses it, so a clean scan may have met one.

Of the btrfs reader: `cache.rs:62-64` says a caller inserts only after a miss, so
that no key is held twice, where `Volume::fetch` (`btrfs/volume.rs:563-585`) also inserts
after a hit of another generation; `btrfs/volume.rs:526` says a lenient read
fails only where every copy does, where an I/O error on a copy is returned at once;
and a source shorter than its device is a finding of the scan that a strict open
refuses only where a superblock falls in the missing part.

`ferrosys-cli/src/dest.rs` says no name reaches a file the run reads without the refusal seeing
it. That holds while the source's own name stays: if another process replaces
the source's name between the run's open and its look, the run no longer knows
what it reads by name. `SourceIsNotCut` is stated for the runs this did not
happen to (`moved`).

## What is only model-checked, and what is not modelled

Only model-checked, because the prover does not reach it: liveness (`ReadsEnd`,
`Returns`, `Settles`). Only model-checked so far: what a FAT scan reports
(`ReportIsTrue`).

Abstractions and limits of what is modelled:

- Data: a block is a version, a name a position or a model value, a checksum a
  value injective in what it covers. Byte layouts are not modelled.
- The disk keeps flushed bytes, writes a sector whole or not at all (IdentityRewrite allows a torn
  one), and a flush is durable when it returns.
- Destination: the temporary name is removed by name, so that another process
  which takes that very name while the run is going would lose its file; no such
  process is modelled during a run, only before it.
- FAT: an image's names are distinct, `..` leads where the first parent is, no end marker
  stands before the last slot, the reserved sectors are clean, and what a
  cluster holds is decided when it is first read. How the volume is opened and
  names are converted is left out.
- APFS: one volume, object maps of one node, and the space manager only by
  whether its limits are a driver's.
- btrfs: two generations can be alike only by number: where a transaction number was used
  twice after a power loss and a write of its second use was lost, the block left there by the first
  verifies and no reader can tell. `ServesTheChosen` and `ReadsTheNewestPastDamage` are stated
  outside that case (`ToldApart`), and for a superblock the driver wrote (`Genuine`).
  Keys, the chunk map and tree, the log tree, the UUID tree, file data and device
  length are left out; a location of the superblock is bad without saying how.
- TreeWalk and PathResolve have the ext reader's half of their traits; how a
  directory is searched (htree, case folding) is the map of its entries.
- The DirectorySink takes a tree in walk order, which is TreeWalk's `WalksTheTree`;
  the two are not composed. A host that refuses a mode once an owner was given is
  among its refusals, other processes in the extracted tree are not.
- The inclusion property the tests of `cache.rs` check (a larger cache hits wherever
  a smaller one does) is left out: no correctness of a reader rests on it.
- Options, reports' wording, sizes of fields and integer widths are left out, but
  for exFAT's layout, whose arithmetic is the property, and the journal's sequence, which wraps.

Not modelled at all, and why: PROJECT.json lists each part. The
records, checksums, decoders, conversions and rendering are pure functions with
no steps. The writers of FAT, btrfs, APFS and ext lay a volume out once, in a
single pass; what is hard in them is the sizing and the allocation, which are
modelled. The exFAT reader, the archives, the layering of sources and the stream
adaptors have state and are left for later.

One hazard has no property: a directory given to another owner before later
links are made in it is searched as another user's (`host/sink.rs`), which needs a
process without the right to override modes.

## Plan

Order: what loses or misreads a user's data first.

1. Done: the walk and the resolution of paths, composed; journal recovery, its
   writer and crafted logs, over the block cache; the allocator and FreeSpace; the
   identity rewrite; the fit search and the FAT bands; the sink; exFAT's layout and
   stages; the destination, with walked sources; APFS opening; the FAT scan; the btrfs
   volume.
2. Next modules:
   - `HostSource`: the walk of a host directory whose names change, composed with
     Destination.
   - `ExtPlacement`: the ext writer over FreeSpace, so that it is checked against
     what the allocator promises rather than what it does.
   - `BtrfsChunks`: the bootstrap array and the chunk tree, under BtrfsVolume.
3. Next theorem: `ReportIsTrue` of the FAT scan.
