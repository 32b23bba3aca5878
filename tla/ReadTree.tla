------------------------------ MODULE ReadTree ------------------------------
(***************************************************************************)
(* A reader asked for paths, with and without a walk under way. `drive` in *)
(* walk.rs hands its visitor the reader back, "so it can stat, read, and   *)
(* resolve while the walk is in progress": the paths it resolves are the   *)
(* walk's own, and the walk waits for it to return.                        *)
(***************************************************************************)
EXTENDS TreeWalk, PathMeaning

readVars == <<vars, path, follow_final, pending, node, descended, hops, answer>>

Unasked ==
    /\ path = << >> /\ follow_final = FALSE
    /\ pending = << >> /\ node = Root /\ descended = << >> /\ hops = 0
    /\ answer = "unasked"

\* A path is asked for on its own, or a walk begins.
NoWalk ==
    /\ cap = 0 /\ strict = FALSE /\ seen = 0 /\ stack = << >> /\ visited = {} /\ yielded = << >>
    /\ entered = {} /\ status = "stopped"

ReadInit == (ResolveInit /\ NoWalk) \/ (Init /\ Unasked)

VisitorReturns ==
    /\ path' = << >> /\ follow_final' = FALSE
    /\ pending' = << >> /\ node' = Root /\ descended' = << >> /\ hops' = 0
    /\ answer' = "unasked"

\* The walk goes on once the visitor has returned.
WalkOn(Action) == answer # "resolving" /\ Action /\ VisitorReturns

\* The visitor resolves the name it was just handed, as a link or followed.
Ask ==
    /\ status = "walking" /\ answer = "unasked" /\ yielded # << >>
    /\ path' = yielded[Len(yielded)].path
    /\ pending' = path'
    /\ follow_final' \in BOOLEAN
    /\ node' = Root /\ descended' = << >> /\ hops' = 0
    /\ answer' = "resolving"
    /\ UNCHANGED vars

Resolve(Action) == Action /\ UNCHANGED vars

Both == status \notin {"start", "walking"} /\ answer # "resolving" /\ UNCHANGED readVars

ReadStep == WalkOn(Step) \/ Resolve(ResolveStep)

ReadNext == ReadStep \/ Ask \/ WalkOn(ReadFails) \/ Resolve(LookupFails) \/ Both

ReadSpec == ReadInit /\ [][ReadNext]_readVars

\* Everything runs in the caller's thread; nothing obliges it to ask or a read to fail.
FairReadSpec == ReadSpec /\ WF_readVars(ReadStep)

-----------------------------------------------------------------------------

\* A path the walk hands out is one the reader resolves to the very node the walk is at: a
\* link to itself unless it is followed, a directory named twice under both names, and one
\* reached through an ancestor as well.
WalkedPathsResolve ==
    status = "walking" /\ answer \notin {"unasked", "resolving", "damaged"} =>
        LET handed == yielded[Len(yielded)]
        IN  (follow_final => handed.node \notin Links) => answer = "found" /\ node = handed.node

\* Every walk ends and every resolution does, over images whose directories and links are cyclic,
\* one within the other or not.
ReadsEnd == Terminates /\ ResolutionEnds
=============================================================================
