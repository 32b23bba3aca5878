---------------------------- MODULE SizeBracket -----------------------------
(***************************************************************************)
(* The fit search every family shares: `bracket` in sizing.rs. A climb     *)
(* doubles from the floor until a size fits, a window an upward-closed     *)
(* refusal bounds is bisected, and the bracket that results is bisected to *)
(* one size. What each size probes as is a function the search knows       *)
(* nothing of, monotone or not. An error is named by the size it refused.  *)
(***************************************************************************)
EXTENDS Integers

CONSTANTS
    Top,        \* the largest size there is
    Floors,     \* where a search may start
    Ceilings,   \* where it may stop
    Verdicts    \* what the sizes may probe as

Sizes == 1..Top
Verdict == {"fits", "tight", "too_small", "exhausted", "impossible"}

ASSUME TopAssumption == Top \in Nat
ASSUME RangeAssumption == Floors \subseteq Nat \ {0} /\ Ceilings \subseteq Sizes
ASSUME VerdictsAssumption == Verdicts \subseteq [Sizes -> Verdict]

VARIABLES
    verdict, floor, ceiling,    \* the probe and the range
    pc, lo, candidate, hi,      \* the search: not fitting, climbing to, and fitting
    fitted, refusal,            \* the size whose value is carried, the refusal carried
    result                      \* what it returned

search == <<pc, lo, candidate, hi, fitted, refusal, result>>
vars == <<verdict, floor, ceiling, search>>

None == 0
Failed(e) == [ok |-> FALSE, size |-> 0, carried |-> 0, error |-> e]
Found(n, value) == [ok |-> TRUE, size |-> n, carried |-> value, error |-> None]
Smaller(a, b) == IF a < b THEN a ELSE b

\* A range with nothing in it is answered at once.
Begin(f, c) ==
    /\ floor' = f /\ ceiling' = c
    /\ lo' = f - 1 /\ candidate' = f
    /\ hi' = f /\ fitted' = None /\ refusal' = None
    /\ IF f > c THEN pc' = "done" /\ result' = Failed(None)
       ELSE pc' = "climb" /\ result' = Failed(None)

Init ==
    /\ verdict \in Verdicts
    /\ floor \in Floors /\ ceiling \in Ceilings
    /\ lo = floor - 1 /\ candidate = floor
    /\ hi = floor /\ fitted = None /\ refusal = None
    /\ pc = IF floor > ceiling THEN "done" ELSE "climb"
    /\ result = Failed(None)

Refuses(c) == verdict[c] \in {"tight", "too_small"}
Keeps == UNCHANGED <<verdict, floor, ceiling>>

Return(r) == pc' = "done" /\ result' = r

\* Too small: the climb goes on to twice the size, or to the ceiling.
ClimbRefused ==
    /\ pc = "climb" /\ Refuses(candidate) /\ candidate # ceiling
    /\ lo' = candidate
    /\ candidate' = Smaller(2 * candidate, ceiling)
    /\ Keeps /\ UNCHANGED <<pc, hi, fitted, refusal, result>>

\* The ceiling is probed again for what it says; merely tight, it says nothing.
CeilingRefused ==
    /\ pc = "climb" /\ Refuses(candidate) /\ candidate = ceiling
    /\ Return(Failed(IF verdict[ceiling] = "too_small" THEN ceiling ELSE None))
    /\ Keeps /\ UNCHANGED <<lo, candidate, hi, fitted, refusal>>

ClimbFits ==
    /\ pc = "climb" /\ verdict[candidate] = "fits"
    /\ pc' = "bisect"
    /\ hi' = candidate /\ fitted' = candidate
    /\ Keeps /\ UNCHANGED <<lo, candidate, refusal, result>>

\* Mutant: the first upward-closed refusal is the answer.
ExhaustedEnds ==
    /\ pc = "climb" /\ verdict[candidate] = "exhausted"
    /\ Return(Failed(candidate))
    /\ Keeps /\ UNCHANGED <<lo, candidate, hi, fitted, refusal>>

\* Everything from here up refuses: what fits, if anything, lies in between.
ClimbExhausted ==
    /\ pc = "climb" /\ verdict[candidate] = "exhausted"
    /\ pc' = "narrow"
    /\ hi' = candidate /\ refusal' = candidate
    /\ Keeps /\ UNCHANGED <<lo, candidate, fitted, result>>

Mid == lo + (hi - lo) \div 2

NarrowCloses ==
    /\ pc = "narrow" /\ hi - lo <= 1
    /\ Return(Failed(refusal))
    /\ Keeps /\ UNCHANGED <<lo, candidate, hi, fitted, refusal>>

Narrow ==
    /\ pc = "narrow" /\ hi - lo > 1
    /\ \/ verdict[Mid] = "fits" /\ pc' = "bisect" /\ hi' = Mid /\ fitted' = Mid
          /\ UNCHANGED <<lo, refusal>>
       \/ verdict[Mid] = "exhausted" /\ hi' = Mid /\ refusal' = Mid
          /\ UNCHANGED <<pc, lo, fitted>>
       \/ Refuses(Mid) /\ lo' = Mid
          /\ UNCHANGED <<pc, hi, fitted, refusal>>
    /\ Keeps /\ UNCHANGED <<candidate, result>>

\* A refusal no size changes ends the search, before anything has fitted.
Impossible ==
    /\ \/ pc = "climb" /\ verdict[candidate] = "impossible"
          /\ Return(Failed(candidate))
       \/ pc = "narrow" /\ hi - lo > 1 /\ verdict[Mid] = "impossible"
          /\ Return(Failed(Mid))
    /\ Keeps /\ UNCHANGED <<lo, candidate, hi, fitted, refusal>>

\* Mutant: a size that does not fit lowers the ceiling.
BisectLowers ==
    /\ pc = "bisect" /\ hi - lo > 1
    /\ IF verdict[Mid] = "fits" THEN hi' = Mid /\ fitted' = Mid /\ UNCHANGED lo
       ELSE IF verdict[Mid] = "tight" THEN hi' = Mid /\ UNCHANGED <<lo, fitted>>
       ELSE lo' = Mid /\ UNCHANGED <<hi, fitted>>
    /\ Keeps /\ UNCHANGED <<pc, candidate, refusal, result>>

\* Every verdict but a fit moves the floor.
Bisect ==
    /\ pc = "bisect" /\ hi - lo > 1
    /\ IF verdict[Mid] = "fits" THEN hi' = Mid /\ fitted' = Mid /\ UNCHANGED lo
       ELSE lo' = Mid /\ UNCHANGED <<hi, fitted>>
    /\ Keeps /\ UNCHANGED <<pc, candidate, refusal, result>>

\* Mutant: the bisection stops a size early.
BisectStops ==
    /\ pc = "bisect" /\ hi - lo <= 2
    /\ Return(Found(hi, fitted))
    /\ Keeps /\ UNCHANGED <<lo, candidate, hi, fitted, refusal>>

BisectCloses ==
    /\ pc = "bisect" /\ hi - lo <= 1
    /\ Return(Found(hi, fitted))
    /\ Keeps /\ UNCHANGED <<lo, candidate, hi, fitted, refusal>>

Search == \/ ClimbRefused \/ CeilingRefused \/ ClimbFits \/ ClimbExhausted
          \/ NarrowCloses \/ Narrow \/ Impossible \/ Bisect \/ BisectCloses

Returned == pc = "done" /\ UNCHANGED vars

Next == Search \/ Returned

Spec == Init /\ [][Next]_vars
-----------------------------------------------------------------------------

TypeOK ==
    /\ verdict \in [Sizes -> Verdict]
    /\ floor \in Nat \ {0} /\ ceiling \in Sizes
    /\ pc \in {"climb", "narrow", "bisect", "done"}
    /\ lo \in Nat
    /\ pc # "done" => candidate \in Sizes /\ hi \in Sizes
    /\ fitted \in 0..Top
    /\ refusal \in 0..Top
    /\ result \in [ok : BOOLEAN, size : Nat, carried : 0..Top, error : 0..Top]

Fits(n) == verdict[n] = "fits"
Range == floor..ceiling

\* "Every non-fitting verdict moves the floor": the size returned fits, and what is
\* carried is that size's and no other's.
AnswerFits == result.ok => result.size \in Range /\ Fits(result.size) /\ result.carried = result.size

\* "with the count one below it proven not to", monotone or not.
OneBelowDoesNot == result.ok => result.size = floor \/ ~Fits(result.size - 1)

\* The size returned is one a verdict turned at: it fits and the one below it does not.
AnswerIsAnEdge == AnswerFits /\ OneBelowDoesNot

\* Sizes too small, then sizes that fit, then sizes past what is accepted.
Monotone ==
    \A m, n \in Range : m < n =>
        /\ Fits(m) => verdict[n] \in {"fits", "exhausted"}
        /\ verdict[m] = "exhausted" => verdict[n] = "exhausted"
        /\ verdict[m] # "impossible"

\* A fit window narrower than one doubling is found, not stepped over, and from its
\* smallest size.
FindsTheSmallest ==
    pc = "done" /\ Monotone =>
        IF \E n \in Range : Fits(n)
        THEN result.ok /\ \A n \in Range : n < result.size => ~Fits(n)
        ELSE ~result.ok
=============================================================================
