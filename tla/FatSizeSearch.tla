--------------------------- MODULE FatSizeSearch ----------------------------
(***************************************************************************)
(* Sizing a FAT volume (fat/fit.rs): `bracket` run over one band of sizes  *)
(* after another. Every probe that can be planned allocates into one tree  *)
(* all probes share, so what the tree holds is the last of them, and       *)
(* `settle` allocates the answer once more.                                *)
(***************************************************************************)
EXTENDS SizeBracket, Sequences

CONSTANT Thresholds     \* sizes at which an automatic type request becomes FAT32

\* Half a gibibyte in sectors of any size is within a 32-bit count of them.
ASSUME ThresholdsAssumption == Thresholds \subseteq Sizes

VARIABLES
    least,      \* the floor the contents give
    threshold,  \* where the type changes
    auto,       \* whether the request leaves the type to the size
    bands,      \* the bands still to search
    tree,       \* the size the shared tree was last allocated for
    last,       \* the last band's refusal
    answer      \* what the search returned

fat == <<least, threshold, auto>>
fatVars == <<vars, fat, bands, tree, last, answer>>

NoAnswer == [done |-> FALSE, ok |-> FALSE, size |-> 0, error |-> None]

\* Mutant: one band, whatever the type.
BandsAsOne(request, t, from) == <<<<from, Top>>>>

\* An automatic request below the threshold is searched as two bands that do not meet.
BandsOf(request, t, from) ==
    IF request /\ t > from THEN <<<<from, t - 1>>, <<t, Top>>>> ELSE <<<<from, Top>>>>

FatInit ==
    /\ least \in Floors
    /\ threshold \in Thresholds /\ auto \in BOOLEAN
    /\ verdict \in Verdicts
    /\ LET all == BandsOf(auto, threshold, least)
       IN  /\ bands = Tail(all)
           /\ floor = all[1][1] /\ ceiling = all[1][2]
    /\ lo = floor - 1 /\ candidate = floor
    /\ hi = floor /\ fitted = None /\ refusal = None
    /\ pc = IF floor > ceiling THEN "done" ELSE "climb"
    /\ result = Failed(None)
    /\ tree = None /\ last = None /\ answer = NoAnswer

\* A size that cannot be planned, or whose root region is too small, leaves the tree
\* as it was; a volume that fills up leaves it part of the way.
TreeAfter(c) ==
    CASE verdict[c] = "exhausted" -> {tree}
      [] verdict[c] = "too_small" -> {tree, c}
      [] OTHER -> {c}

ProbeInBand ==
    /\ Search
    /\ tree' \in CASE pc = "climb" -> TreeAfter(candidate)
                   [] pc \in {"narrow", "bisect"} /\ hi - lo > 1 -> TreeAfter(Mid)
                   [] OTHER -> {tree}
    /\ UNCHANGED <<fat, bands, last, answer>>

Over == pc = "done" /\ ~answer.done

\* Mutant: the answer is taken as the last probe left it.
SettleNothing ==
    /\ Over /\ result.ok
    /\ answer' = [done |-> TRUE, ok |-> TRUE, size |-> result.size, error |-> None]
    /\ UNCHANGED <<vars, fat, bands, tree, last>>

Settle ==
    /\ Over /\ result.ok
    /\ answer' = [done |-> TRUE, ok |-> TRUE, size |-> result.size, error |-> None]
    /\ tree' = result.size
    /\ UNCHANGED <<vars, fat, bands, last>>

Met == IF result.error = None THEN last ELSE result.error

\* A band that refuses does not stop the search.
NextBand ==
    /\ Over /\ ~result.ok /\ bands # << >>
    /\ last' = Met
    /\ bands' = Tail(bands)
    /\ Begin(Head(bands)[1], Head(bands)[2])
    /\ UNCHANGED <<verdict, fat, tree, answer>>

GiveUp ==
    /\ Over /\ ~result.ok /\ bands = << >>
    /\ last' = Met
    /\ answer' = [done |-> TRUE, ok |-> FALSE, size |-> 0, error |-> Met]
    /\ UNCHANGED <<vars, fat, bands, tree>>

FatStep == ProbeInBand \/ Settle \/ NextBand \/ GiveUp

FatNext == FatStep \/ (answer.done /\ UNCHANGED fatVars)

FatSpec == FatInit /\ [][FatNext]_fatVars

-----------------------------------------------------------------------------

\* settle, "the layout, the counts, and the tree all describe one volume".
TreeIsTheAnswers == answer.ok => tree = answer.size

MonotoneIn(a, b) ==
    \A m, n \in a..b : m < n =>
        /\ Fits(m) => verdict[n] \in {"fits", "exhausted"}
        /\ verdict[m] = "exhausted" => verdict[n] = "exhausted"
        /\ verdict[m] # "impossible"

\* search, "the first answer is the smallest there is": where the sizes of a band behave,
\* no size that holds the tree is smaller, across the gap between the bands too.
SmallestOfAllBands ==
    answer.done /\ (IF auto /\ threshold > least
                    THEN MonotoneIn(least, threshold - 1) /\ MonotoneIn(threshold, Top)
                    ELSE MonotoneIn(least, Top)) =>
        IF \E n \in least..Top : Fits(n)
        THEN answer.ok /\ \A n \in least..Top : n < answer.size => ~Fits(n)
        ELSE ~answer.ok

\* What is settled on is the least size there is, and the shared tree is the one allocated for it.
SettlesOnTheLeast == TreeIsTheAnswers /\ SmallestOfAllBands
=============================================================================
