------------------------------ MODULE TreeWalk ------------------------------
(***************************************************************************)
(* The depth-first walk every family's reader is driven by: `drive` in     *)
(* walk.rs, with the ext reader's half of the `Walk` trait (read.rs).      *)
(*                                                                         *)
(* A path is the sequence of names that reaches a node, so the root is     *)
(* << >> and a path's length is its depth.                                 *)
(*                                                                         *)
(* The frontier is written top first: the code keeps the top at the end of *)
(* a Vec and pushes a directory's names in reverse.                        *)
(***************************************************************************)
EXTENDS ImageGraph

CONSTANTS
    Walked,     \* the images walked
    Caps,       \* the caps walked under: max_walk_entries or max_names()
    MaxDepth    \* MAX_PATH, in components

ASSUME WalkedAssumption == Walked \subseteq Images
ASSUME BoundsAssumption == Caps \subseteq Nat /\ MaxDepth \in Nat

VARIABLES
    cap,        \* the most names this walk may yield
    strict,     \* whether the read policy makes a repeated directory fatal
    seen,       \* names popped
    stack,      \* the frontier, top first
    visited,    \* keys of the directories entered into
    status,     \* where the walk stands
    yielded,    \* history: the names the visitor was handed, in order
    entered   \* history: the directories whose names were pushed

kids == image.entries
walk == <<image, cap, strict>>
vars == <<image, cap, strict, seen, stack, visited, status, yielded, entered>>

Paths == Seq(Nat)
Pending == [path : Paths, node : Nodes]
Refusals == {"too_large", "path_too_long", "repeated", "damaged"}
Statuses == {"start", "walking", "done", "stopped"} \cup Refusals

\* Mutant: the names are pushed without being reversed.
NamesUnreversed(p, d) ==
    LET n == Len(kids[d])
    IN  [i \in 1..n |-> [path |-> Append(p, n + 1 - i), node |-> kids[d][n + 1 - i]]]

\* The names below the directory d reached at path p, in directory order.
NamesBelow(p, d) ==
    [i \in 1..Len(kids[d]) |-> [path |-> Append(p, i), node |-> kids[d][i]]]

\* Whether a name below path p would be longer than a path may be.
TooLong(p, d) == kids[d] # << >> /\ Len(p) >= MaxDepth

Init ==
    /\ image \in Walked
    /\ cap \in Caps
    /\ strict \in BOOLEAN
    /\ seen = 0
    /\ stack = << >>
    /\ visited = {}
    /\ status = "start"
    /\ yielded = << >>
    /\ entered = {}

-----------------------------------------------------------------------------

Halt(s) == status' = s /\ UNCHANGED <<walk, seen, stack, visited, yielded, entered>>

\* The root's own names are the first frontier and answer to the cap.
Seed ==
    /\ status = "start"
    /\ IF TooLong(<< >>, Root) THEN Halt("path_too_long")
       ELSE IF Len(kids[Root]) > cap THEN Halt("too_large")
       ELSE /\ stack' = NamesBelow(<< >>, Root)
            /\ visited' = {Root}
            /\ entered' = {[path |-> << >>, node |-> Root]}
            /\ status' = "walking"
            /\ UNCHANGED <<walk, seen, yielded>>

\* The root, a node or a directory's names cannot be read, or a name is one no
\* directory can hold.
ReadFails == status \in {"start", "walking"} /\ Halt("damaged")

Popping == status = "walking" /\ stack # << >>
Top == Head(stack)
Reached == Top.node \in visited
\* Mutants: the frontier is left out of the bound; the bound is strict.
FitsForgetsFrontier(n) == seen + 1 + n <= cap
FitsStrictly(n) == seen + 1 + Len(Tail(stack)) + n < cap
Fits(n) == seen + 1 + Len(Tail(stack)) + n <= cap

\* Mutant: the policy is never asked about a repeat.
RefusalUnjudged ==
    IF seen >= cap THEN "too_large"
    ELSE IF Top.node \notin Dirs \/ Reached THEN "none"
    ELSE IF TooLong(Top.path, Top.node) THEN "path_too_long"
    ELSE IF Fits(Len(kids[Top.node])) THEN "none" ELSE "too_large"

\* What ends the walk at the name on top of the frontier, in the order the loop
\* asks: the cap, a repeat under a strict policy, the path bound and then the cap
\* over the names about to be pushed.
Refusal ==
    IF seen >= cap THEN "too_large"
    ELSE IF Top.node \notin Dirs THEN "none"
    ELSE IF Reached THEN IF strict THEN "repeated" ELSE "none"
    ELSE IF TooLong(Top.path, Top.node) THEN "path_too_long"
    ELSE IF Fits(Len(kids[Top.node])) THEN "none" ELSE "too_large"

Refuse == Popping /\ Refusal # "none" /\ Halt(Refusal)

\* The name goes to the visitor, which may end the walk with an error of its own.
Yield ==
    /\ seen' = seen + 1
    /\ yielded' = Append(yielded, Top)
    /\ status' \in {"walking", "stopped"}
    /\ UNCHANGED walk

\* Mutant: a repeat is passed over without being popped.
VisitKeepsRepeat ==
    /\ Popping /\ Refusal = "none"
    /\ IF Top.node \in Dirs THEN Reached /\ UNCHANGED vars
       ELSE stack' = Tail(stack) /\ Yield /\ UNCHANGED <<visited, entered>>

\* Not a directory, or one reached before that the policy passes over.
Visit ==
    /\ Popping /\ Refusal = "none"
    /\ Top.node \in Dirs => Reached
    /\ stack' = Tail(stack)
    /\ Yield
    /\ UNCHANGED <<visited, entered>>

\* A directory reached for the first time: its names go on top of the frontier.
Descend ==
    /\ Popping /\ Refusal = "none"
    /\ Top.node \in Dirs /\ ~Reached
    /\ visited' = visited \cup {Top.node}
    /\ entered' = entered \cup {Top}
    /\ stack' = NamesBelow(Top.path, Top.node) \o Tail(stack)
    /\ Yield

\* Mutant: the loop ends with a name still held.
FinishEarly == status = "walking" /\ Len(stack) <= 1 /\ Halt("done")
Finish == status = "walking" /\ stack = << >> /\ Halt("done")

Step == Seed \/ Refuse \/ Visit \/ Descend \/ Finish

\* A walk that has returned stays returned.
Returned == status \notin {"start", "walking"} /\ UNCHANGED vars

Next == Step \/ ReadFails \/ Returned

Spec == Init /\ [][Next]_vars

\* The walk is a loop in one thread: it is always scheduled again, and nothing
\* obliges a read to fail.
FairSpec == Spec /\ WF_vars(Step)

-----------------------------------------------------------------------------

TypeOK ==
    /\ image \in Images
    /\ cap \in Nat
    /\ strict \in BOOLEAN
    /\ seen \in Nat
    /\ stack \in Seq(Pending)
    /\ visited \subseteq Dirs
    /\ status \in Statuses
    /\ yielded \in Seq(Pending)
    /\ entered \subseteq [path : Paths, node : Dirs]

\* walk.rs, "The frontier": what is held and what was yielded together never
\* pass the cap, however wide the directories and however many names share one.
BoundedFrontier == seen + Len(stack) <= cap

\* Before the seed nothing has been reached, held or yielded.
Unstarted ==
    status = "start" => seen = 0 /\ stack = << >> /\ visited = {} /\ entered = {}

\* walk.rs, "A cycle": however many names reach a directory, its own names enter
\* the frontier under one of them only, and what was entered is what was marked.
DescendedOnce ==
    /\ \A x, y \in entered : x.node = y.node => x = y
    /\ visited = {x.node : x \in entered}

\* p comes before q in a depth-first walk with siblings in directory order.
Before(p, q) ==
    \/ Len(p) < Len(q) /\ SubSeq(q, 1, Len(p)) = p
    \/ \E k \in 1..Len(p) :
          /\ k <= Len(q)
          /\ p[k] < q[k]
          /\ \A j \in 1..(k - 1) : p[j] = q[j]

\* The order `drive` documents: a parent before its children and siblings in
\* order, over what was yielded and what the frontier still holds.
DepthFirstOrder ==
    LET order == yielded \o stack
    IN  \A i \in 1..(Len(order) - 1) : Before(order[i].path, order[i + 1].path)

\* A walk that answered `Ok` yielded every name of every directory it reached and
\* nothing else, and left no directory those names reach unentered.
Complete ==
    status = "done" =>
        /\ {yielded[k].path : k \in 1..Len(yielded)} =
               UNION {{Append(x.path, i) : i \in 1..Len(kids[x.node])} : x \in entered}
        /\ \A d \in visited : \A i \in 1..Len(kids[d]) :
               kids[d][i] \in Dirs => kids[d][i] \in visited

\* What a sink writes from: every name of every directory reached, parents first.
WalksTheTree == DepthFirstOrder /\ Complete

\* The directories in every set that holds the root and what its members name.
Reachable ==
    {d \in Dirs : \A S \in SUBSET Dirs :
        (Root \in S /\ \A e \in S : \A i \in 1..Len(kids[e]) : kids[e][i] \in Dirs => kids[e][i] \in S)
            => d \in S}

ReachableNames == UNION {{<<d, i>> : i \in 1..Len(kids[d])} : d \in Reachable}

\* The cap refuses exactly the images with more names than it, and never one whose
\* names are merely reached twice.
CapIsExact ==
    /\ status = "too_large" => Cardinality(ReachableNames) > cap
    /\ status = "done" => Cardinality(ReachableNames) <= cap

\* A strict walk passes only trees: no reachable directory has two names, and none
\* names the root. It refuses only images that are not trees.
StrictIsATree ==
    LET occurrences(d) == {n \in ReachableNames : kids[n[1]][n[2]] = d}
        tree == /\ occurrences(Root) = {}
                /\ \A d \in Reachable : Cardinality(occurrences(d)) <= 1
    IN  /\ strict /\ status = "done" => tree
        /\ status = "repeated" => strict /\ ~tree

\* A walk refuses for its cap or for a repeated directory exactly the images that deserve it.
RefusesExactly == CapIsExact /\ StrictIsATree

\* Every walk ends, over a cyclic image too.
Terminates == <>(status \notin {"start", "walking"})
=============================================================================
