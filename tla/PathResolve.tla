---------------------------- MODULE PathResolve -----------------------------
(***************************************************************************)
(* Resolving a path: `drive` in resolve.rs, with the ext reader's half of  *)
(* the `Resolve` trait (read.rs). Components are taken one by one, a link  *)
(* is replaced by the components of its target, and `..` goes back to the  *)
(* directory descended from, whatever the image stores under that name.    *)
(* A path is the components that carry meaning: separators and `.` are     *)
(* gone.                                                                   *)
(***************************************************************************)
EXTENDS ImageGraph

CONSTANTS
    Searched,   \* the images paths are asked of
    Asked,      \* the paths asked for
    MaxHops     \* MAX_SYMLINK_HOPS

ASSUME SearchedAssumption == Searched \subseteq Images
ASSUME PathsAssumption == Asked \subseteq Seq(Component) /\ MaxHops \in Nat

VARIABLES
    path, follow_final,      \* the call
    pending, node, descended, hops, \* the loop
    answer

call == <<image, path, follow_final>>
resolveVars == <<call, pending, node, descended, hops, answer>>

ResolveInit ==
    /\ image \in Searched
    /\ path \in Asked /\ follow_final \in BOOLEAN
    /\ pending = path
    /\ node = Root
    /\ descended = << >>
    /\ hops = 0
    /\ answer = "resolving"

-----------------------------------------------------------------------------

Return(how) == answer' = how /\ UNCHANGED <<call, pending, node, descended, hops>>

Taking == answer = "resolving" /\ pending # << >>
Part == Head(pending)
Held == image.entries[node]
Entry == Held[Part]

NotADirectory == Taking /\ node \notin Dirs /\ Return("not_a_directory")

\* The root, a directory, a link or a node to come back to cannot be read.
LookupFails == answer = "resolving" /\ Return("damaged")

\* At the root there is nothing to go back to.
Ascend ==
    /\ Taking /\ node \in Dirs /\ Part = Up
    /\ pending' = Tail(pending)
    /\ IF descended = << >> THEN UNCHANGED <<node, descended>>
       ELSE /\ node' = descended[Len(descended)]
            /\ descended' = SubSeq(descended, 1, Len(descended) - 1)
    /\ UNCHANGED <<call, hops, answer>>

Naming == Taking /\ node \in Dirs /\ Part # Up

Absent == Naming /\ Part \notin DOMAIN Held /\ Return("not_found")

Found == Naming /\ Part \in DOMAIN Held
\* Mutant: the last component's link is followed whatever was asked.
FollowingAlways == Entry \in Links
Following == Entry \in Links /\ (follow_final \/ Tail(pending) # << >>)
Link == image.target[Entry]

\* A target too long to be one is refused before it is counted, an empty one after.
LinkRefusal ==
    IF Link.is = "long" THEN "not_found"
    ELSE IF hops + 1 > MaxHops THEN "too_many_links"
    ELSE IF Link.is = "empty" THEN "not_found"
    ELSE "none"

LinkRefused == Found /\ Following /\ LinkRefusal # "none" /\ Return(LinkRefusal)

\* Mutant: what was descended through is kept by a link that restarts at the root.
ExpandKeepingDescent ==
    /\ Found /\ Following /\ LinkRefusal = "none"
    /\ hops' = hops + 1
    /\ pending' = Link.parts \o Tail(pending)
    /\ node' = IF Link.is = "absolute" THEN Root ELSE node
    /\ UNCHANGED <<call, descended, answer>>

\* Mutant: a link followed is not counted.
ExpandUncounted ==
    /\ Found /\ Following /\ LinkRefusal = "none"
    /\ pending' = Link.parts \o Tail(pending)
    /\ IF Link.is = "absolute" THEN node' = Root /\ descended' = << >>
       ELSE UNCHANGED <<node, descended>>
    /\ UNCHANGED <<call, hops, answer>>

\* Mutant: the components of a target are pushed behind those to come.
ExpandBehind ==
    /\ Found /\ Following /\ LinkRefusal = "none"
    /\ hops' = hops + 1
    /\ pending' = Tail(pending) \o Link.parts
    /\ IF Link.is = "absolute" THEN node' = Root /\ descended' = << >>
       ELSE UNCHANGED <<node, descended>>
    /\ UNCHANGED <<call, answer>>

\* A relative target goes on from the directory that holds the link.
Expand ==
    /\ Found /\ Following /\ LinkRefusal = "none"
    /\ hops' = hops + 1
    /\ pending' = Link.parts \o Tail(pending)
    /\ IF Link.is = "absolute" THEN node' = Root /\ descended' = << >>
       ELSE UNCHANGED <<node, descended>>
    /\ UNCHANGED <<call, answer>>

Enter ==
    /\ Found /\ ~Following
    /\ pending' = Tail(pending)
    /\ descended' = Append(descended, node)
    /\ node' = Entry
    /\ UNCHANGED <<call, hops, answer>>

Reach == answer = "resolving" /\ pending = << >> /\ Return("found")

ResolveStep == NotADirectory \/ Ascend \/ Absent \/ LinkRefused \/ Expand \/ Enter \/ Reach

Answered == answer # "resolving" /\ UNCHANGED resolveVars

ResolveNext == ResolveStep \/ LookupFails \/ Answered

ResolveSpec == ResolveInit /\ [][ResolveNext]_resolveVars

\* A loop in one thread; nothing obliges a read to fail.
FairResolveSpec == ResolveSpec /\ WF_resolveVars(ResolveStep)

-----------------------------------------------------------------------------

ResolveTypeOK ==
    /\ image \in Images /\ path \in Seq(Component) /\ follow_final \in BOOLEAN
    /\ pending \in Seq(Component)
    /\ node \in Nodes
    /\ descended \in Seq(Dirs)
    /\ hops \in 0..MaxHops
    /\ answer \in {"unasked", "resolving", "found", "not_found", "not_a_directory", "too_many_links",
                  "damaged"}

\* From the root, each directory holding the next under some name.
IsWayDown(entries, way) ==
    /\ way[1] = Root
    /\ \A k \in 1..(Len(way) - 1) : \E n \in DOMAIN entries[way[k]] : entries[way[k]][n] = way[k + 1]

\* "the stack holds the directories reached": what was descended through is a way down from
\* the root entry by entry, so `..` always goes to a directory that holds the one it leaves.
DescentIsAWayDown == IsWayDown(image.entries, Append(descended, node))

\* "A cycle of links is spent rather than followed", over images whose directories are
\* cyclic as well.
ResolutionEnds == answer = "resolving" ~> answer # "resolving"
=============================================================================
