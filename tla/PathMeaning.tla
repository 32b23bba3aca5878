---------------------------- MODULE PathMeaning -----------------------------
(***************************************************************************)
(* What a path means, by recursion on its components and on the targets of *)
(* the links it passes, without the queue and the stack of PathResolve: a  *)
(* place is a way down from the root, and a link means the place its       *)
(* target means from the place that holds it.                              *)
(***************************************************************************)
EXTENDS PathResolve

\* From a way down from the root, with `spent` links followed, the place `parts` lead to. A link
\* is followed unless it is the last component of a path asked about without following it.
Question(way, spent, parts, follow) == [way |-> way, spent |-> spent, parts |-> parts, follow |-> follow]
Ways == {way \in Seq(Nodes) : way # << >>}
Questions == [way : Ways, spent : 0..MaxHops, parts : Seq(Component), follow : BOOLEAN]

Place(way, spent) == [how |-> "found", way |-> way, spent |-> spent]
Failure(how) == [how |-> how]

End(way) == way[Len(way)]
Above(way) == IF Len(way) = 1 THEN way ELSE SubSeq(way, 1, Len(way) - 1)

Holding(img, q) == img.entries[End(q.way)]
Meant(img, q) == Holding(img, q)[Head(q.parts)]
Aim(img, q) == img.target[Meant(img, q)]
ThroughLink(img, q) ==
    /\ Head(q.parts) # Up
    /\ Meant(img, q) \in Links /\ (q.follow \/ Tail(q.parts) # << >>)

\* Why the first component leads nowhere.
Nowhere(img, q) ==
    IF End(q.way) \notin Dirs THEN "not_a_directory"
    ELSE IF Head(q.parts) # Up /\ Head(q.parts) \notin DOMAIN Holding(img, q) THEN "not_found"
    ELSE IF ~ThroughLink(img, q) THEN "none"
    ELSE IF Aim(img, q).is = "long" THEN "not_found"
    ELSE IF q.spent = MaxHops THEN "too_many_links"
    ELSE IF Aim(img, q).is = "empty" THEN "not_found"
    ELSE "none"

\* One component down or up.
OneOn(img, q) ==
    Place(IF Head(q.parts) = Up THEN Above(q.way) ELSE Append(q.way, Meant(img, q)), q.spent)

\* The place a link's target leads to from where the link is, which the rest goes on from.
Behind(img, q) ==
    Question(IF Aim(img, q).is = "absolute" THEN <<Root>> ELSE q.way, q.spent + 1,
             Aim(img, q).parts, TRUE)
Onward(q, place) == Question(place.way, place.spent, Tail(q.parts), q.follow)

FirstPlace(img, q, meaning) ==
    IF ThroughLink(img, q) THEN meaning[Behind(img, q)] ELSE OneOn(img, q)

Says(img, q, meaning) ==
    IF q.parts = << >> THEN Place(q.way, q.spent)
    ELSE IF Nowhere(img, q) # "none" THEN Failure(Nowhere(img, q))
    ELSE LET first == FirstPlace(img, q, meaning)
         IN  IF first.how = "found" THEN meaning[Onward(q, first)] ELSE first

Meaning(img) == LET meaning[q \in Questions] == Says(img, q, meaning) IN meaning

\* A resolution answers what the path means, and refuses what means nothing, for that reason:
\* links in the middle and at the end, targets that ascend out of where the link is, runs of
\* `..` past the root.
ResolvesToItsMeaning ==
    answer \notin {"unasked", "resolving", "damaged"} =>
        Meaning(image)[Question(<<Root>>, 0, path, follow_final)]
            = IF answer = "found" THEN Place(Append(descended, node), hops) ELSE Failure(answer)
=============================================================================
