---------------------------- MODULE Destination -----------------------------
(***************************************************************************)
(* Writing an artifact to a path: dest.rs of the command-line tool, and    *)
(* the two commands around it, `format` (format.rs) and `extract --to-tar` *)
(* (extract.rs). A run reads a source file while it writes; with --atomic  *)
(* it writes a sibling temporary file and renames it over the destination. *)
(*                                                                         *)
(* The host is outside this repository: names that lead to inodes, or to   *)
(* another name by a symbolic link. Other processes rename and link while  *)
(* the runs go on, and a power loss keeps a prefix of what was done to     *)
(* names and anything of bytes that were not flushed.                      *)
(***************************************************************************)
EXTENDS Integers, FiniteSets

CONSTANTS
    Runs,           \* runs of the tool with one destination and one source between them
    Requests,       \* what a run may be asked: [command, atomic, source]
    Pieces,         \* pieces an artifact is written in
    MaxForeign      \* bound on what other processes do to names

ASSUME PiecesAssumption == Pieces \in Nat \ {0} /\ MaxForeign \in Nat
ASSUME RequestsAssumption ==
    Requests \subseteq [command : {"format", "extract"}, atomic : BOOLEAN,
                        source : {"held", "walked", "memory"}]

\* A run's temporary name is nobody else's, and a run is no file from before.
ASSUME RunsAssumption ==
    Runs \cap {"out", "src", "archive", "old", "device", "none", "link to src"} = {}

VARIABLES
    names,      \* the host's names
    content,    \* what an inode holds
    flushed,    \* inodes whose bytes are durable
    past,       \* where the names have led since the directory was last synced
    asked, run, \* each run's request, and how far it has come
    stale,      \* history: runs whose temporary name somebody took first
    foreign,    \* what other processes have done so far
    powered

vars == <<names, content, flushed, past, asked, run, stale, foreign, powered>>

None == "none"
Link == "link to src"
Temp(r) == r     \* named for the process
Names == {"out", "src"} \cup {Temp(r) : r \in Runs}
Others == {"archive", "old", "device"}  \* inodes from before; a run makes the one named for it
Inodes == Others \cup Runs

Seen(ns) == <<ns["out"], ns["src"]>>
Target(n) == IF names[n] = Link THEN "src" ELSE n
At(n) == names[Target(n)]

Fresh == [pc |-> "start", held |-> None, reads |-> {}, file |-> None, left |-> Pieces,
          good |-> TRUE, cut |-> None, moved |-> FALSE,
          seen |-> FALSE, handle |-> None, took |-> {}]

Init ==
    /\ names \in [Names -> {None, "archive", "old", "device", Link}]
    /\ names["src"] = "archive" /\ \A r \in Runs : names[Temp(r)] = None
    /\ content = [i \in Inodes |-> IF i \in Others THEN i ELSE "cut"]
    /\ flushed = Others
    /\ past = {Seen(names)}
    /\ asked \in [Runs -> Requests]
    /\ run = [r \in Runs |-> Fresh]
    /\ stale = {} /\ foreign = 0 /\ powered = TRUE

-----------------------------------------------------------------------------

Going(r, pc) == powered /\ run[r].pc = pc
Step(r, changes) ==
    run' = [run EXCEPT ![r] = [f \in DOMAIN Fresh |-> IF f \in DOMAIN changes THEN changes[f] ELSE @[f]]]
End(r, how) == run' = [run EXCEPT ![r] = [Fresh EXCEPT !.pc = how]]
Rename(changes) ==
    /\ names' = [n \in Names |-> IF n \in DOMAIN changes THEN changes[n] ELSE names[n]]
    /\ past' = past \cup {Seen(names')}
Host == <<names, content, flushed, past>>
Rest == <<asked, stale, foreign, powered>>

InPlace(r) == ~asked[r].atomic
Regular(i) == i # "device"

\* The archive or the image is opened; a walk records what each name leads to.
OpenSource(r) ==
    /\ Going(r, "start")
    /\ IF asked[r].source = "memory" THEN Step(r, [pc |-> "opened"])
       ELSE names["src"] # None /\ Step(r, [pc |-> "opened", held |-> names["src"]])
    /\ UNCHANGED <<Host, Rest>>

\* Reads::of, Reads::file. The source's name is looked up again, and a name that leads
\* nowhere is no file the destination could be.
Look(r) ==
    /\ Going(r, "opened")
    /\ LET reads == IF asked[r].source = "memory" \/ (asked[r].command = "format" /\ asked[r].atomic)
                    THEN {} ELSE {names["src"]} \ {None}
           refused == IF asked[r].command = "format" THEN At("out") \in reads ELSE reads = {}
       IN  IF refused THEN End(r, "failed")
           ELSE Step(r, [pc |-> "looked", reads |-> reads, moved |-> names["src"] # run[r].held])
    /\ UNCHANGED <<Host, Rest>>

\* A format opens no device at all.
CheckKind(r) ==
    /\ Going(r, "looked")
    /\ IF asked[r].command = "format" /\ ~Regular(At("out")) THEN End(r, "failed")
       ELSE Step(r, [pc |-> "checked"])
    /\ UNCHANGED <<Host, Rest>>

\* Mutant: the temporary file is opened whoever made it.
OpenAnyTemp(r) ==
    /\ Going(r, "checked") /\ asked[r].atomic
    /\ IF names[Temp(r)] # None
       THEN Step(r, [pc |-> "writing", file |-> names[Temp(r)]]) /\ UNCHANGED <<Host, Rest>>
       ELSE /\ Rename([n \in {Temp(r)} |-> r])
            /\ Step(r, [pc |-> "writing", file |-> r])
            /\ UNCHANGED <<content, flushed, Rest>>

\* create_new
OpenTemp(r) ==
    /\ Going(r, "checked") /\ asked[r].atomic
    /\ IF names[Temp(r)] # None
       THEN End(r, "failed") /\ UNCHANGED <<Host, Rest>>
       ELSE /\ Rename([n \in {Temp(r)} |-> r])
            /\ Step(r, [pc |-> "writing", file |-> r])
            /\ UNCHANGED <<content, flushed, Rest>>

\* In place: opened or created, through links, and not cut yet.
OpenOut(r) ==
    /\ Going(r, "checked") /\ InPlace(r)
    /\ IF At("out") = None
       THEN /\ Rename([n \in {Target("out")} |-> r])
            /\ Step(r, [pc |-> "judging", file |-> r])
       ELSE Step(r, [pc |-> "judging", file |-> At("out")]) /\ UNCHANGED <<names, past>>
    /\ UNCHANGED <<content, flushed, Rest>>

\* Mutant: what was judged by name before the open is not judged again.
JudgeNothing(r) ==
    /\ Going(r, "judging")
    /\ LET file == run[r].file
       IN  /\ content' = [content EXCEPT ![file] = IF Regular(file) THEN "cut" ELSE @]
           /\ flushed' = IF Regular(file) THEN flushed \ {file} ELSE flushed
           /\ IF asked[r].command = "format" /\ ~Regular(file) THEN End(r, "failed")
              ELSE Step(r, [pc |-> "writing", cut |-> IF Regular(file) THEN file ELSE None])
    /\ UNCHANGED <<names, past, Rest>>

\* The handle is judged, and what it leads to is cut if it has a length.
Judge(r) ==
    /\ Going(r, "judging")
    /\ LET file == run[r].file
       IN  IF file \in run[r].reads THEN End(r, "failed") /\ UNCHANGED <<content, flushed>>
           ELSE IF ~Regular(file)
           THEN /\ IF asked[r].command = "format" THEN End(r, "failed") ELSE Step(r, [pc |-> "writing"])
                /\ UNCHANGED <<content, flushed>>
           ELSE /\ content' = [content EXCEPT ![file] = "cut"]
                /\ flushed' = flushed \ {file}
                /\ Step(r, [pc |-> "writing", cut |-> file])
    /\ UNCHANGED <<names, past, Rest>>

\* A file is read as it is placed: through the handle held from the start, or, of a walked
\* tree, opened again for each read by the name it was walked under. The node is looked at
\* before it is opened, and no link is followed.
Walks(r) == asked[r].source = "walked"

LookAtWalked(r) ==
    /\ Going(r, "writing") /\ Walks(r) /\ ~run[r].seen
    /\ names["src"] = run[r].held
    /\ Step(r, [seen |-> TRUE])
    /\ UNCHANGED <<Host, Rest>>

OpenWalked(r) ==
    /\ Going(r, "writing") /\ run[r].seen /\ run[r].handle = None
    /\ names["src"] \in Inodes
    /\ Step(r, [handle |-> names["src"]])
    /\ UNCHANGED <<Host, Rest>>

\* Mutant: what was looked at by name is not checked through the handle.
CheckNothing(r) == Walks(r) => run[r].handle # None

\* Walked::check, through the handle that reads.
Checked(r) == Walks(r) => run[r].handle = run[r].held

Taken(r) ==
    CASE Walks(r) -> {run[r].handle}
      [] asked[r].source = "held" -> {run[r].held}
      [] OTHER -> {}

ReadsWell(r) == \A i \in Taken(r) : content[i] \notin {"cut", "part"}

WritePiece(r) ==
    /\ Going(r, "writing") /\ Checked(r)
    /\ LET last == run[r].left = 1
           good == run[r].good /\ ReadsWell(r)
       IN  /\ content' = [content EXCEPT ![run[r].file] =
                             IF ~last THEN "part" ELSE IF good THEN "image" ELSE "hollow"]
           /\ flushed' = flushed \ {run[r].file}
           /\ Step(r, [pc |-> IF last THEN "written" ELSE "writing", left |-> run[r].left - 1, good |-> good,
                       seen |-> FALSE, handle |-> None, took |-> run[r].took \cup Taken(r)])
    /\ UNCHANGED <<names, past, Rest>>

\* Mutant: renamed before the bytes are durable.
SyncNothing(r) ==
    /\ Going(r, "written")
    /\ IF InPlace(r) THEN End(r, "done") ELSE Step(r, [pc |-> "synced"])
    /\ UNCHANGED <<Host, Rest>>

\* commit
Sync(r) ==
    /\ Going(r, "written")
    /\ IF InPlace(r) THEN End(r, "done") /\ UNCHANGED flushed
       ELSE flushed' = flushed \cup {run[r].file} /\ Step(r, [pc |-> "synced"])
    /\ UNCHANGED <<names, content, past, Rest>>

Publish(r) ==
    /\ Going(r, "synced") /\ names[Temp(r)] # None
    /\ Rename([n \in {"out", Temp(r)} |-> IF n = "out" THEN names[Temp(r)] ELSE None])
    /\ Step(r, [pc |-> "published"])
    /\ UNCHANGED <<content, flushed, Rest>>

\* The directory is synced if it can be, and the temporary name is gone already.
Finish(r) ==
    /\ Going(r, "published")
    /\ names' = [names EXCEPT ![Temp(r)] = None]
    /\ past' \in {{Seen(names')}, past}
    /\ End(r, "done")
    /\ UNCHANGED <<content, flushed, Rest>>

Owns(r) == asked[r].atomic /\ run[r].pc \in {"writing", "written", "synced"}

\* Mutant: a failed run leaves its temporary file.
FailKeepingTemp(r) ==
    /\ powered /\ run[r].pc \notin {"done", "failed", "killed", "published"}
    /\ End(r, "failed")
    /\ UNCHANGED <<Host, Rest>>

\* Any call may fail; from the open on, Destination's drop removes the temporary name.
Fail(r) ==
    /\ powered /\ run[r].pc \notin {"done", "failed", "killed", "published"}
    /\ IF Owns(r) THEN Rename([n \in {Temp(r)} |-> None]) ELSE UNCHANGED <<names, past>>
    /\ End(r, "failed")
    /\ UNCHANGED <<content, flushed, Rest>>

\* The run is killed, and nothing is dropped.
Kill(r) ==
    /\ powered /\ run[r].pc \notin {"done", "failed", "killed"}
    /\ End(r, "killed")
    /\ UNCHANGED <<Host, Rest>>

-----------------------------------------------------------------------------
\* Other processes, and the host.

\* A name is unlinked, renamed over, linked to a file there is, or made a link.
SomeoneRenames ==
    /\ powered /\ foreign < MaxForeign
    /\ \E n \in {"out", "src"}, v \in {None, Link} \cup Others :
          /\ n = "src" => v # Link /\ v # "device"
          /\ v # names[n]
          /\ Rename([m \in {n} |-> v])
    /\ foreign' = foreign + 1
    /\ UNCHANGED <<content, flushed, asked, run, stale, powered>>

\* A run that was killed, and had the same process id, left its temporary file.
SomeoneTakesTemp ==
    /\ powered /\ foreign < MaxForeign
    /\ \E r \in Runs :
          /\ run[r].pc \in {"start", "opened", "looked", "checked"} /\ names[Temp(r)] = None
          /\ Rename([n \in {Temp(r)} |-> "old"])
          /\ stale' = stale \cup {r}
    /\ foreign' = foreign + 1
    /\ UNCHANGED <<content, flushed, asked, run, powered>>

PowerLoss ==
    /\ powered
    /\ \E seen \in past : names' = [n \in Names |-> IF n = "out" THEN seen[1]
                                                 ELSE IF n = "src" THEN seen[2] ELSE None]
    /\ \E lost \in SUBSET (Inodes \ flushed) :
          content' = [i \in Inodes |-> IF i \in lost THEN "cut" ELSE content[i]]
    /\ run' = [r \in Runs |-> [Fresh EXCEPT !.pc = "killed"]]
    /\ past' = {Seen(names')} /\ flushed' = Inodes
    /\ powered' = FALSE
    /\ stale' = {} /\ UNCHANGED <<asked, foreign>>

Run(r) == \/ OpenSource(r) \/ Look(r) \/ CheckKind(r) \/ OpenTemp(r) \/ OpenOut(r) \/ Judge(r)
          \/ LookAtWalked(r) \/ OpenWalked(r) \/ WritePiece(r) \/ Sync(r) \/ Publish(r) \/ Finish(r) \/ Fail(r) \/ Kill(r)

Over == (~powered \/ \A r \in Runs : run[r].pc \in {"done", "failed", "killed"}) /\ UNCHANGED vars

Next == (\E r \in Runs : Run(r)) \/ SomeoneRenames \/ SomeoneTakesTemp \/ PowerLoss \/ Over

Spec == Init /\ [][Next]_vars

-----------------------------------------------------------------------------

\* "a reader of the path sees either what was there before or the complete new artifact, and
\* a run that fails part-way through - or dies - leaves the old one untouched": where every
\* run is atomic, what the destination leads to is never cut, partly written or hollow,
\* whoever fails, whichever run is first and whatever a power loss keeps.
OldOrNew ==
    (\A r \in Runs : asked[r].atomic) /\ At("out") # None =>
        content[At("out")] \notin {"cut", "part", "hollow"}

\* "A destination is never a file the run reads": a run whose source was still under its name
\* when the run looked never cuts it, by whatever name or link the destination leads there
\* and whatever is renamed between the look and the open.
SourceIsNotCut ==
    \A r \in Runs : ~run[r].moved /\ run[r].held # None => run[r].cut # run[r].held

\* "the file the walk recorded": what a run writes comes from the file its source was when
\* the run began, though the name leads elsewhere between the look, the open and the read, or
\* from one read to the next (host.rs, Walked::open).
ReadsWhatWasWalked == \A r \in Runs : run[r].took \subseteq {run[r].held}

\* A run's source stays what it was: it is neither cut by the run nor replaced under it.
SourceIsKept == SourceIsNotCut /\ ReadsWhatWasWalked

\* "a failed --atomic run leaves nothing behind": a run that ends leaves no temporary name to
\* the file it made, and never removes a name somebody else took first.
NothingLeftBehind ==
    powered => \A r \in Runs :
        /\ run[r].pc \in {"done", "failed"} => names[Temp(r)] # r
        /\ r \in stale => names[Temp(r)] = "old"

\* "The temporary file must be one this run created", and a format writes to no device,
\* though what the path leads to changes between the check and the open.
WritesItsOwn ==
    \A r \in Runs :
        /\ asked[r].atomic => run[r].file \in {None, r}
        /\ asked[r].command = "format" /\ run[r].left < Pieces => run[r].file # "device"

\* A run touches nothing it did not make: what it writes and what it removes are its own.
TouchesOnlyItsOwn == NothingLeftBehind /\ WritesItsOwn
=============================================================================
