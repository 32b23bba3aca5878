---------------------------- MODULE SizingProofs ----------------------------
(***************************************************************************)
(* How large a volume is and where its parts go: the search for the size,  *)
(* and the layout of an exFAT volume.                                      *)
(*                                                                         *)
(* For every range and every probe: the search stays inside the range,     *)
(* the size it returns fits, carries its own value and is not one above a  *)
(* size that fits; and where the sizes behave it is the smallest. The      *)
(* invariant is the bracket: `lo` is below what is tried and, once the     *)
(* floor was tried, refused; `hi` is refused from above while the climb    *)
(* narrows and fits while it is bisected. A FAT volume's search over bands *)
(* is one bracket after another, and remembers only that the sizes of the  *)
(* bands behind it do not fit.                                             *)
(*                                                                         *)
(* Every layout plan_layout returns is sound, for every size, sector,      *)
(* cluster and boundary.                                                   *)
(*                                                                         *)
(* Writing the volume: the runs of a stage ascend and share no sector, for *)
(* every tree that fits; and whatever a power loss keeps of a stage, what  *)
(* the stages before it settled stands, because no later piece but the     *)
(* main boot sector's touches a sector that is settled.                    *)
(***************************************************************************)
EXTENDS FatSizeSearch, ExfatStages, WellFoundedInduction, TLAPS

BelowRefuses == lo >= floor => Refuses(lo)

Climbing ==
    pc = "climb" =>
        candidate \in Range /\ floor - 1 <= lo /\ lo < candidate /\ BelowRefuses /\ ~result.ok

Narrowing ==
    pc = "narrow" =>
        /\ hi \in Range /\ floor - 1 <= lo /\ lo < hi /\ BelowRefuses /\ ~result.ok
        /\ verdict[hi] = "exhausted"

Bisecting ==
    pc = "bisect" =>
        /\ hi \in Range /\ floor - 1 <= lo /\ lo < hi /\ ~result.ok
        /\ Fits(hi) /\ fitted = hi
        /\ lo >= floor => ~Fits(lo)

IInv == /\ TypeOK /\ Climbing /\ Narrowing /\ Bisecting
        /\ AnswerFits /\ OneBelowDoesNot /\ FindsTheSmallest

-----------------------------------------------------------------------------

LEMMA MidBetween ==
    ASSUME lo \in Nat, hi \in Nat, hi - lo > 1
    PROVE  Mid \in Nat /\ lo < Mid /\ Mid < hi
  BY DEF Mid

\* A search about to make its first probe, or over before it, for the range has nothing in it.
Begun ==
    /\ verdict \in [Sizes -> Verdict]
    /\ floor \in Nat \ {0} /\ ceiling \in Sizes
    /\ lo = floor - 1 /\ candidate = floor
    /\ hi = floor /\ fitted = None /\ refusal = None
    /\ pc = IF floor > ceiling THEN "done" ELSE "climb"
    /\ result = Failed(None)

LEMMA BegunIsBracketed == Begun => IInv
<1> SUFFICES ASSUME Begun PROVE IInv
  OBVIOUS
<1>0. floor \in Nat \ {0} /\ ceiling \in Sizes /\ ceiling \in Nat
  BY DEF Begun, Sizes
<1>1. TypeOK
  <2>1. verdict \in [Sizes -> Verdict]
    BY DEF Begun
  <2>2. lo \in Nat
    BY <1>0 DEF Begun
  <2>3. pc # "done" => candidate \in Sizes /\ hi \in Sizes
    BY <1>0, TopAssumption DEF Begun, Sizes
  <2>4. pc \in {"climb", "narrow", "bisect", "done"}
    BY DEF Begun
  <2> QED
    BY <1>0, <2>1, <2>2, <2>3, <2>4, TopAssumption DEF Begun, TypeOK, Failed, None
<1>2. ~result.ok
  BY DEF Begun, Failed
<1>3. Climbing
  BY <1>0, <1>2, TopAssumption DEF Begun, Climbing, Range, BelowRefuses, Sizes
<1>4. Narrowing /\ Bisecting
  BY DEF Begun, Narrowing, Bisecting
<1>5. FindsTheSmallest
  <2>1. pc = "done" => Range = {}
    BY <1>0 DEF Begun, Range
  <2> QED
    BY <1>2, <2>1 DEF FindsTheSmallest
<1> QED
  BY <1>1, <1>2, <1>3, <1>4, <1>5 DEF IInv, AnswerFits, OneBelowDoesNot

LEMMA IInvInit == Init => IInv
<1>1. Init => Begun
  BY RangeAssumption, VerdictsAssumption DEF Init, Begun
<1> QED
  BY <1>1, BegunIsBracketed

-----------------------------------------------------------------------------
(* Where the sizes behave, a refused size has nothing that fits below it.  *)

LEMMA NothingFitsBelow ==
    ASSUME TypeOK, Monotone, NEW n \in Range, Refuses(n), NEW m \in Range, m <= n
    PROVE  ~Fits(m)
<1>1. CASE m = n
  BY <1>1 DEF Refuses, Fits
<1>2. CASE m # n
  <2>1. m < n
    BY <1>2 DEF Range, TypeOK, Sizes
  <2> QED
    BY <2>1 DEF Monotone, Refuses, Fits
<1> QED
  BY <1>1, <1>2

LEMMA NothingFitsAbove ==
    ASSUME TypeOK, Monotone, NEW n \in Range, verdict[n] = "exhausted", NEW m \in Range, n <= m
    PROVE  ~Fits(m)
<1>1. CASE m = n
  BY <1>1 DEF Fits
<1>2. CASE m # n
  <2>1. n < m
    BY <1>2 DEF Range, TypeOK, Sizes
  <2> QED
    BY <2>1 DEF Monotone, Fits
<1> QED
  BY <1>1, <1>2

\* A size of no fit below one that fits was refused as too small.
LEMMA RefusedBelowFit ==
    ASSUME TypeOK, Monotone, NEW n \in Range, Fits(n), NEW m \in Range, m < n, ~Fits(m)
    PROVE  Refuses(m)
<1>1. m \in Sizes
  BY TopAssumption DEF Range, TypeOK, Sizes
<1>2. verdict[m] \in Verdict
  BY <1>1 DEF TypeOK
<1>3. verdict[m] # "exhausted" /\ verdict[m] # "impossible"
  BY DEF Monotone, Fits
<1> QED
  BY <1>2, <1>3 DEF Refuses, Fits, Verdict

-----------------------------------------------------------------------------
(* One lemma an action. A step of the search moves neither the probe nor   *)
(* the range, so the sizes that fit are the same after it.                 *)

LEMMA KeptSizes ==
    ASSUME Keeps
    PROVE  /\ Range' = Range /\ (Monotone' <=> Monotone)
           /\ \A n : (Fits(n)' <=> Fits(n)) /\ (Refuses(n)' <=> Refuses(n))
<1>1. verdict' = verdict /\ floor' = floor /\ ceiling' = ceiling
  BY DEF Keeps
<1>2. Range' = Range
  BY <1>1 DEF Range
<1>3. \A n : (Fits(n)' <=> Fits(n)) /\ (Refuses(n)' <=> Refuses(n))
  BY <1>1 DEF Fits, Refuses
<1>4. Monotone' <=> Monotone
  BY <1>1 DEF Monotone, Range, Fits
<1> QED
  BY <1>2, <1>3, <1>4

LEMMA RangeIsSizes ==
    ASSUME TypeOK
    PROVE  Range \subseteq Sizes /\ \A n \in Range : n \in Nat /\ n >= 1
  BY TopAssumption DEF TypeOK, Range, Sizes

LEMMA ClimbRefusedStep == IInv /\ ClimbRefused => IInv'
<1> SUFFICES ASSUME IInv, ClimbRefused PROVE IInv'
  OBVIOUS
<1> USE TopAssumption
<1>1. Keeps /\ pc = "climb" /\ pc' = "climb" /\ result' = result /\ ~result.ok
  BY DEF ClimbRefused, IInv, Climbing
<1>2. candidate \in Range /\ candidate # ceiling /\ candidate \in Nat /\ candidate >= 1
  BY RangeIsSizes DEF ClimbRefused, IInv, Climbing
<1>3. candidate' \in Range /\ candidate < candidate' /\ lo' = candidate
  BY <1>2 DEF ClimbRefused, Smaller, IInv, TypeOK, Range, Sizes
<1>4. TypeOK'
  <2>1. candidate' \in Sizes /\ hi' \in Sizes
    BY <1>1, <1>3, RangeIsSizes DEF IInv, TypeOK, ClimbRefused
  <2>2. lo' \in Nat
    BY <1>2, <1>3
  <2> QED
    BY <1>1, <2>1, <2>2 DEF IInv, TypeOK, ClimbRefused, Keeps
<1>5. Climbing'
  <2>1. Refuses(lo)' /\ Range' = Range /\ floor' = floor
    BY <1>1, <1>3, KeptSizes DEF ClimbRefused, Keeps, Refuses
  <2>2. floor - 1 <= candidate
    BY <1>2 DEF Range, IInv, TypeOK
  <2> QED
    BY <1>1, <1>3, <2>1, <2>2 DEF Climbing, BelowRefuses
<1>6. Narrowing' /\ Bisecting' /\ FindsTheSmallest' /\ AnswerFits' /\ OneBelowDoesNot'
  BY <1>1 DEF Narrowing, Bisecting, FindsTheSmallest, AnswerFits, OneBelowDoesNot
<1> QED
  BY <1>4, <1>5, <1>6 DEF IInv

\* A search that ends without an answer owes only that nothing fitted.
LEMMA FailsStep ==
    ASSUME IInv, Keeps, UNCHANGED <<lo, candidate, hi, fitted, refusal>>,
           NEW e \in 0..Top, Return(Failed(e)),
           Monotone => \A n \in Range : ~Fits(n)
    PROVE  IInv'
<1>1. pc' = "done" /\ result' = Failed(e)
  BY DEF Return
<1>2. ~result'.ok
  BY <1>1 DEF Failed
<1>3. TypeOK'
  BY <1>1, TopAssumption DEF IInv, TypeOK, Failed, Keeps, Sizes
<1>4. Climbing' /\ Narrowing' /\ Bisecting' /\ AnswerFits' /\ OneBelowDoesNot'
  BY <1>1, <1>2 DEF Climbing, Narrowing, Bisecting, AnswerFits, OneBelowDoesNot
<1>5. FindsTheSmallest'
  <2>1. Monotone' => \A n \in Range' : ~Fits(n)'
    BY KeptSizes
  <2> QED
    BY <1>2, <2>1 DEF FindsTheSmallest, Fits
<1> QED
  BY <1>3, <1>4, <1>5 DEF IInv

LEMMA CeilingRefusedStep == IInv /\ CeilingRefused => IInv'
<1> SUFFICES ASSUME IInv, CeilingRefused PROVE IInv'
  OBVIOUS
<1>1. candidate \in Range /\ Refuses(candidate) /\ candidate = ceiling
  BY DEF CeilingRefused, IInv, Climbing
<1>2. Monotone => \A n \in Range : ~Fits(n)
  <2> SUFFICES ASSUME Monotone, NEW n \in Range PROVE ~Fits(n)
    OBVIOUS
  <2>1. n <= candidate
    BY <1>1 DEF Range, IInv, TypeOK, Sizes
  <2> QED
    BY <1>1, <2>1, NothingFitsBelow DEF IInv
<1>3. PICK e \in 0..Top : Return(Failed(e))
  <2>1. ceiling \in 0..Top /\ None \in 0..Top
    BY TopAssumption DEF IInv, TypeOK, Sizes, None
  <2> QED
    BY <2>1 DEF CeilingRefused
<1> QED
  BY <1>2, <1>3, FailsStep DEF CeilingRefused

LEMMA ClimbFitsStep == IInv /\ ClimbFits => IInv'
<1> SUFFICES ASSUME IInv, ClimbFits PROVE IInv'
  OBVIOUS
<1> USE TopAssumption
<1>1. Keeps /\ pc' = "bisect" /\ result' = result /\ ~result.ok
  BY DEF ClimbFits, IInv, Climbing
<1>2. candidate \in Range /\ candidate \in Sizes /\ Fits(candidate)
  BY RangeIsSizes DEF ClimbFits, IInv, Climbing, Fits
<1>3. hi' = candidate /\ fitted' = candidate /\ lo' = lo /\ candidate' = candidate
  BY DEF ClimbFits
<1>4. TypeOK'
  BY <1>1, <1>2, <1>3 DEF IInv, TypeOK, Keeps, ClimbFits, Sizes
<1>5. Bisecting'
  <2>1. floor - 1 <= lo /\ lo < candidate /\ BelowRefuses
    BY DEF ClimbFits, IInv, Climbing
  <2>2. (lo >= floor => ~Fits(lo)) /\ Range' = Range /\ floor' = floor
    BY <2>1, <1>1, KeptSizes DEF BelowRefuses, Refuses, Fits, Keeps
  <2> QED
    BY <1>1, <1>2, <1>3, <2>1, <2>2 DEF Bisecting, Fits, Keeps
<1>6. Climbing' /\ Narrowing' /\ FindsTheSmallest' /\ AnswerFits' /\ OneBelowDoesNot'
  BY <1>1 DEF Climbing, Narrowing, FindsTheSmallest, AnswerFits, OneBelowDoesNot
<1> QED
  BY <1>4, <1>5, <1>6 DEF IInv

LEMMA ClimbExhaustedStep == IInv /\ ClimbExhausted => IInv'
<1> SUFFICES ASSUME IInv, ClimbExhausted PROVE IInv'
  OBVIOUS
<1> USE TopAssumption
<1>1. Keeps /\ pc' = "narrow" /\ result' = result /\ ~result.ok
  BY DEF ClimbExhausted, IInv, Climbing
<1>2. candidate \in Range /\ candidate \in Sizes /\ verdict[candidate] = "exhausted"
  BY RangeIsSizes DEF ClimbExhausted, IInv, Climbing
<1>3. hi' = candidate /\ refusal' = candidate /\ lo' = lo /\ candidate' = candidate
  BY DEF ClimbExhausted
<1>4. TypeOK'
  BY <1>1, <1>2, <1>3 DEF IInv, TypeOK, Keeps, ClimbExhausted, Sizes
<1>5. Narrowing'
  <2>1. floor - 1 <= lo /\ lo < candidate /\ BelowRefuses
    BY DEF ClimbExhausted, IInv, Climbing
  <2>2. BelowRefuses' /\ Range' = Range /\ floor' = floor /\ verdict' = verdict
    BY <2>1, <1>1, <1>3, KeptSizes DEF BelowRefuses, Refuses, Keeps
  <2> QED
    BY <1>1, <1>2, <1>3, <2>1, <2>2 DEF Narrowing
<1>6. Climbing' /\ Bisecting' /\ FindsTheSmallest' /\ AnswerFits' /\ OneBelowDoesNot'
  BY <1>1 DEF Climbing, Bisecting, FindsTheSmallest, AnswerFits, OneBelowDoesNot
<1> QED
  BY <1>4, <1>5, <1>6 DEF IInv

\* Lowering the exhausted end, raising the refused end, or finding a fit between.
LEMMA NarrowStep == IInv /\ Narrow => IInv'
<1> SUFFICES ASSUME IInv, Narrow PROVE IInv'
  OBVIOUS
<1> USE TopAssumption
<1>1. Keeps /\ pc = "narrow" /\ ~result.ok /\ result' = result /\ candidate' = candidate
  BY DEF Narrow, IInv, Narrowing
<1>2. hi \in Range /\ hi \in Nat /\ lo \in Nat /\ floor - 1 <= lo /\ BelowRefuses /\ hi - lo > 1
  BY RangeIsSizes DEF Narrow, IInv, Narrowing, TypeOK
<1>3. Mid \in Range /\ Mid \in Sizes /\ Mid \in Nat /\ lo < Mid /\ Mid < hi
  <2>1. Mid \in Nat /\ lo < Mid /\ Mid < hi
    BY <1>2, MidBetween
  <2>2. Mid \in Range
    BY <1>2, <2>1 DEF Range, IInv, TypeOK, Sizes
  <2> QED
    BY <2>1, <2>2, RangeIsSizes DEF IInv
<1>4. Range' = Range /\ floor' = floor /\ verdict' = verdict
  BY <1>1, KeptSizes DEF Keeps
<1>5. AnswerFits' /\ OneBelowDoesNot'
  BY <1>1 DEF AnswerFits, OneBelowDoesNot
<1>6. CASE verdict[Mid] = "fits" /\ pc' = "bisect" /\ hi' = Mid /\ fitted' = Mid
           /\ UNCHANGED <<lo, refusal>>
  <2>1. TypeOK'
    BY <1>1, <1>3, <1>6 DEF IInv, TypeOK, Keeps, Sizes
  <2>2. Bisecting'
    <3>1. lo >= floor => ~Fits(lo)
      BY <1>2 DEF BelowRefuses, Refuses, Fits
    <3> QED
      BY <1>1, <1>2, <1>3, <1>4, <1>6, <3>1 DEF Bisecting, Fits
  <2>3. Climbing' /\ Narrowing' /\ FindsTheSmallest'
    BY <1>6 DEF Climbing, Narrowing, FindsTheSmallest
  <2> QED
    BY <1>5, <2>1, <2>2, <2>3 DEF IInv
<1>7. CASE verdict[Mid] = "exhausted" /\ hi' = Mid /\ refusal' = Mid
           /\ UNCHANGED <<pc, lo, fitted>>
  <2>1. TypeOK'
    BY <1>1, <1>3, <1>7 DEF IInv, TypeOK, Keeps, Sizes
  <2>2. Narrowing'
    <3>1. BelowRefuses'
      BY <1>2, <1>4, <1>7 DEF BelowRefuses, Refuses
    <3> QED
      BY <1>1, <1>2, <1>3, <1>4, <1>7, <3>1 DEF Narrowing
  <2>3. Climbing' /\ Bisecting' /\ FindsTheSmallest'
    BY <1>1, <1>7 DEF Climbing, Bisecting, FindsTheSmallest
  <2> QED
    BY <1>5, <2>1, <2>2, <2>3 DEF IInv
<1>8. CASE Refuses(Mid) /\ lo' = Mid /\ UNCHANGED <<pc, hi, fitted, refusal>>
  <2>1. TypeOK'
    BY <1>1, <1>3, <1>8 DEF IInv, TypeOK, Keeps, Sizes
  <2>2. Narrowing'
    <3>1. BelowRefuses'
      BY <1>4, <1>8 DEF BelowRefuses, Refuses
    <3>2. floor - 1 <= Mid
      BY <1>3 DEF Range, IInv, TypeOK
    <3>3. verdict[hi] = "exhausted"
      BY <1>1 DEF IInv, Narrowing
    <3> QED
      BY <1>1, <1>2, <1>3, <1>4, <1>8, <3>1, <3>2, <3>3 DEF Narrowing
  <2>3. Climbing' /\ Bisecting' /\ FindsTheSmallest'
    BY <1>1, <1>8 DEF Climbing, Bisecting, FindsTheSmallest
  <2> QED
    BY <1>5, <2>1, <2>2, <2>3 DEF IInv
<1> QED
  BY <1>6, <1>7, <1>8 DEF Narrow

LEMMA NarrowClosesStep == IInv /\ NarrowCloses => IInv'
<1> SUFFICES ASSUME IInv, NarrowCloses PROVE IInv'
  OBVIOUS
<1> USE TopAssumption
<1>1. hi \in Range /\ floor - 1 <= lo /\ lo < hi /\ BelowRefuses /\ verdict[hi] = "exhausted"
  BY DEF NarrowCloses, IInv, Narrowing
<1>2. hi \in Nat /\ lo \in Nat /\ hi - lo <= 1 /\ refusal \in 0..Top
  BY <1>1, RangeIsSizes DEF NarrowCloses, IInv, TypeOK
<1>3. hi = lo + 1
  BY <1>1, <1>2
<1>4. Monotone => \A n \in Range : ~Fits(n)
  <2> SUFFICES ASSUME Monotone, NEW n \in Range PROVE ~Fits(n)
    OBVIOUS
  <2>1. n \in Nat /\ n >= floor /\ floor \in Nat /\ ceiling \in Nat
    BY DEF Range, IInv, TypeOK, Sizes
  <2>2. CASE hi <= n
    BY <1>1, <2>2, NothingFitsAbove DEF IInv
  <2>3. CASE n <= lo
    <3>1. lo \in Range
      BY <1>1, <1>2, <2>1, <2>3 DEF Range
    <3>2. Refuses(lo)
      BY <1>1, <1>2, <2>1, <2>3 DEF BelowRefuses
    <3> QED
      BY <2>3, <3>1, <3>2, NothingFitsBelow DEF IInv
  <2> QED
    BY <1>2, <1>3, <2>1, <2>2, <2>3
<1> QED
  BY <1>2, <1>4, FailsStep DEF NarrowCloses

LEMMA ImpossibleStep == IInv /\ Impossible => IInv'
<1> SUFFICES ASSUME IInv, Impossible PROVE IInv'
  OBVIOUS
<1> USE TopAssumption
<1>1. PICK n \in Range : verdict[n] = "impossible" /\ Return(Failed(n))
                        /\ \A m \in Range : m < n => ~Monotone \/ ~Fits(m)
  <2>1. CASE pc = "climb" /\ verdict[candidate] = "impossible" /\ Return(Failed(candidate))
    BY <2>1 DEF IInv, Climbing, Monotone, Fits
  <2>2. CASE pc = "narrow" /\ hi - lo > 1 /\ verdict[Mid] = "impossible" /\ Return(Failed(Mid))
    <3>1. hi \in Range /\ hi \in Nat /\ lo \in Nat /\ floor - 1 <= lo
      BY <2>2, RangeIsSizes DEF IInv, Narrowing, TypeOK
    <3>2. Mid \in Nat /\ lo < Mid /\ Mid < hi
      BY <2>2, <3>1, MidBetween
    <3>3. Mid \in Range
      BY <3>1, <3>2 DEF Range, IInv, TypeOK, Sizes
    <3> QED
      BY <2>2, <3>3 DEF Monotone, Fits
  <2> QED
    BY <2>1, <2>2 DEF Impossible
<1>2. n \in 0..Top
  BY RangeIsSizes DEF IInv, Sizes
<1>3. Monotone => \A k \in Range : ~Fits(k)
  BY <1>1 DEF Monotone, Fits, Range
<1> QED
  BY <1>1, <1>2, <1>3, FailsStep DEF Impossible

LEMMA BisectStep == IInv /\ Bisect => IInv'
<1> SUFFICES ASSUME IInv, Bisect PROVE IInv'
  OBVIOUS
<1> USE TopAssumption
<1>1. Keeps /\ pc' = "bisect" /\ ~result.ok /\ UNCHANGED <<result, candidate, refusal>>
  BY DEF Bisect, IInv, Bisecting
<1>2. hi \in Range /\ hi \in Nat /\ lo \in Nat /\ floor - 1 <= lo /\ hi - lo > 1
  BY RangeIsSizes DEF Bisect, IInv, Bisecting, TypeOK
<1>3. Mid \in Range /\ Mid \in Sizes /\ Mid \in Nat /\ lo < Mid /\ Mid < hi
  <2>1. Mid \in Nat /\ lo < Mid /\ Mid < hi
    BY <1>2, MidBetween
  <2>2. Mid \in Range
    BY <1>2, <2>1 DEF Range, IInv, TypeOK, Sizes
  <2> QED
    BY <2>1, <2>2, RangeIsSizes DEF IInv
<1>4. Range' = Range /\ floor' = floor /\ verdict' = verdict
  BY <1>1, KeptSizes DEF Keeps
<1>5. AnswerFits' /\ OneBelowDoesNot' /\ Climbing' /\ Narrowing' /\ FindsTheSmallest'
  BY <1>1 DEF AnswerFits, OneBelowDoesNot, Climbing, Narrowing, FindsTheSmallest
<1>6. CASE Fits(Mid)
  <2>1. hi' = Mid /\ fitted' = Mid /\ lo' = lo
    BY <1>6 DEF Bisect, Fits
  <2>2. TypeOK'
    BY <1>1, <1>3, <2>1 DEF IInv, TypeOK, Keeps, Bisect, Sizes
  <2>3. Bisecting'
    BY <1>1, <1>2, <1>3, <1>4, <1>6, <2>1 DEF Bisecting, Fits, IInv, Bisect
  <2> QED
    BY <1>5, <2>2, <2>3 DEF IInv
<1>7. CASE ~Fits(Mid)
  <2>1. lo' = Mid /\ hi' = hi /\ fitted' = fitted
    BY <1>7 DEF Bisect, Fits
  <2>2. TypeOK'
    BY <1>1, <1>3, <2>1, RangeIsSizes DEF IInv, TypeOK, Keeps, Bisect
  <2>3. Bisecting'
    <3>1. floor - 1 <= Mid
      BY <1>3 DEF Range, IInv, TypeOK
    <3>2. Fits(hi) /\ fitted = hi
      BY DEF IInv, Bisecting, Bisect
    <3> QED
      BY <1>1, <1>2, <1>3, <1>4, <1>7, <2>1, <3>1, <3>2 DEF Bisecting, Fits
  <2> QED
    BY <1>5, <2>2, <2>3 DEF IInv
<1> QED
  BY <1>6, <1>7

LEMMA BisectClosesStep == IInv /\ BisectCloses => IInv'
<1> SUFFICES ASSUME IInv, BisectCloses PROVE IInv'
  OBVIOUS
<1> USE TopAssumption
<1>1. Keeps /\ pc' = "done" /\ result' = [ok |-> TRUE, size |-> hi, carried |-> hi, error |-> 0]
  BY DEF BisectCloses, Return, Found, IInv, Bisecting, None
<1>2. hi \in Range /\ hi \in Sizes /\ hi \in Nat /\ Fits(hi) /\ floor \in Nat
  BY RangeIsSizes DEF BisectCloses, IInv, Bisecting, TypeOK
<1>3. lo \in Nat /\ lo = hi - 1 /\ floor - 1 <= lo /\ (lo >= floor => ~Fits(lo))
  BY <1>2 DEF BisectCloses, IInv, Bisecting, TypeOK
<1>4. Range' = Range /\ floor' = floor /\ verdict' = verdict
  BY <1>1, KeptSizes DEF Keeps
<1>5. TypeOK'
  BY <1>1, <1>2 DEF IInv, TypeOK, Keeps, BisectCloses, Sizes
<1>6. Climbing' /\ Narrowing' /\ Bisecting'
  BY <1>1 DEF Climbing, Narrowing, Bisecting
<1>7. AnswerFits'
  BY <1>1, <1>2, <1>4 DEF AnswerFits, Fits
<1>8. OneBelowDoesNot'
  BY <1>1, <1>2, <1>3, <1>4 DEF OneBelowDoesNot, Fits
<1>9. FindsTheSmallest'
  <2> SUFFICES ASSUME Monotone, NEW n \in Range, n < hi PROVE ~Fits(n)
    BY <1>1, <1>2, <1>4, KeptSizes DEF FindsTheSmallest, Fits
  <2>1. n \in Nat /\ n >= floor /\ n <= lo /\ lo \in Range /\ ~Fits(lo)
    BY <1>2, <1>3 DEF Range, IInv, TypeOK, Sizes
  <2>2. Refuses(lo)
    BY <1>2, <1>3, <2>1, RefusedBelowFit DEF IInv
  <2> QED
    BY <2>1, <2>2, NothingFitsBelow DEF IInv
<1> QED
  BY <1>5, <1>6, <1>7, <1>8, <1>9 DEF IInv

LEMMA IInvStep == IInv /\ [Next]_vars => IInv'
<1>1. IInv /\ UNCHANGED vars => IInv'
  <2> SUFFICES ASSUME IInv, UNCHANGED vars PROVE IInv'
    OBVIOUS
  <2>1. Keeps /\ UNCHANGED <<pc, lo, candidate, hi, fitted, refusal, result>>
    BY DEF vars, search, Keeps
  <2>2. TypeOK'
    BY <2>1 DEF IInv, TypeOK, Keeps
  <2>3. Climbing' /\ Narrowing' /\ Bisecting'
    BY <2>1 DEF IInv, Climbing, Narrowing, Bisecting, BelowRefuses, Refuses, Fits, Range, Keeps
  <2>4. AnswerFits' /\ OneBelowDoesNot' /\ FindsTheSmallest'
    BY <2>1, KeptSizes DEF IInv, AnswerFits, OneBelowDoesNot, FindsTheSmallest, Fits, Keeps
  <2> QED
    BY <2>2, <2>3, <2>4 DEF IInv
<1>2. IInv /\ Search => IInv'
  BY ClimbRefusedStep, CeilingRefusedStep, ClimbFitsStep, ClimbExhaustedStep, NarrowClosesStep,
     NarrowStep, ImpossibleStep, BisectStep, BisectClosesStep DEF Search
<1> QED
  BY <1>1, <1>2 DEF Next, Returned

-----------------------------------------------------------------------------

LEMMA SearchInvariant == Spec => []IInv
BY IInvInit, IInvStep, PTL DEF Spec

\* For every range and probe the search keeps to sizes there are.
THEOREM TypeCorrect == Spec => []TypeOK
<1>1. IInv => TypeOK
  BY DEF IInv
<1> QED
  BY <1>1, SearchInvariant, PTL

\* bracket, "Every non-fitting verdict moves the floor": for every probe, monotone or
\* not, the size returned fits, is the one whose value is carried, and has one below it that
\* does not fit.
THEOREM AnswersAreEdges == Spec => []AnswerIsAnEdge
<1>1. IInv => AnswerIsAnEdge
  BY DEF IInv, AnswerIsAnEdge
<1> QED
  BY <1>1, SearchInvariant, PTL

\* Where a fit window is one interval between what is too small and what is past the
\* top, however narrow, the doubling does not step over it and its least size is found.
THEOREM WindowFound == Spec => []FindsTheSmallest
<1>1. IInv => FindsTheSmallest
  BY DEF IInv
<1> QED
  BY <1>1, SearchInvariant, PTL

-----------------------------------------------------------------------------
(* One band after another (FatSizeSearch). A band's search is the bracket  *)
(* above, begun again; what is remembered between bands is that the sizes  *)
(* of those already searched do not fit.                                   *)

TwoBands == auto /\ threshold > least

\* Which band is searched, and what the one before it showed.
InABand ==
    IF TwoBands
    THEN \/ /\ bands = <<<<threshold, Top>>>>
            /\ floor = least /\ ceiling = threshold - 1
         \/ /\ bands = << >>
            /\ floor = threshold /\ ceiling = Top
            /\ MonotoneIn(least, threshold - 1) => \A n \in least..(threshold - 1) : ~Fits(n)
    ELSE bands = << >> /\ floor = least /\ ceiling = Top

\* What was returned is what the last band's search answered, settled.
Answered ==
    /\ answer.done => pc = "done" /\ answer.ok = result.ok
    /\ ~answer.done => ~answer.ok
    /\ answer.ok => result.ok /\ answer.size = result.size /\ tree = answer.size
    /\ answer.done /\ ~answer.ok => bands = << >>

FatTypes == least \in Nat \ {0} /\ threshold \in Sizes /\ auto \in BOOLEAN /\ Top \in Sizes

FatInv == IInv /\ FatTypes /\ InABand /\ Answered

\* A search begins in the first band.
LEMMA FatInvInit == FatInit => FatInv
<1> SUFFICES ASSUME FatInit PROVE FatInv
  OBVIOUS
<1>1. FatTypes
  BY RangeAssumption, ThresholdsAssumption, TopAssumption DEF FatInit, FatTypes, Sizes
<1>2. BandsOf(auto, threshold, least) =
        IF TwoBands THEN <<<<least, threshold - 1>>, <<threshold, Top>>>> ELSE <<<<least, Top>>>>
  BY DEF BandsOf, TwoBands
<1>3. InABand
  BY <1>2 DEF FatInit, InABand
<1>4. Begun
  <2>1. floor \in Nat \ {0} /\ ceiling \in Sizes
    BY <1>1, <1>3, TopAssumption DEF InABand, FatTypes, TwoBands, Sizes
  <2> QED
    BY <2>1, VerdictsAssumption DEF FatInit, Begun
<1>5. Answered
  BY DEF FatInit, Answered, NoAnswer
<1> QED
  BY <1>1, <1>3, <1>4, <1>5, BegunIsBracketed DEF FatInv

\* The sizes that behave in a band are those the bracket took to behave.
LEMMA BandIsRange == Monotone <=> MonotoneIn(floor, ceiling)
BY DEF Monotone, MonotoneIn, Range

\* Begin with a range of sizes begins a search.
LEMMA NextBandBegins == FatInv /\ NextBand => IInv' /\ InABand'
<1> SUFFICES ASSUME FatInv, NextBand PROVE IInv' /\ InABand'
  OBVIOUS
<1>1. /\ TwoBands /\ bands = <<<<threshold, Top>>>> /\ floor = least /\ ceiling = threshold - 1
      /\ bands' = << >> /\ Begin(threshold, Top)
      /\ pc = "done" /\ ~result.ok
      /\ verdict' = verdict /\ least' = least /\ threshold' = threshold /\ auto' = auto
  BY DEF FatInv, InABand, NextBand, Over, fat
<1>2. /\ floor' = threshold /\ ceiling' = Top
      /\ lo' = floor' - 1 /\ candidate' = floor' /\ hi' = floor'
      /\ fitted' = None /\ refusal' = None
      /\ pc' = (IF floor' > ceiling' THEN "done" ELSE "climb")
      /\ result' = Failed(None)
  BY <1>1 DEF Begin
<1>3. Begun'
  BY <1>1, <1>2 DEF Begun, FatInv, FatTypes, IInv, TypeOK, Sizes
<1>4. IInv'
  BY <1>3, BegunIsBracketed, PTL
<1>5. MonotoneIn(least, threshold - 1) => \A n \in least..(threshold - 1) : ~Fits(n)
  BY <1>1, BandIsRange DEF FatInv, IInv, FindsTheSmallest, Range
<1>6. InABand'
  BY <1>1, <1>2, <1>5 DEF InABand, TwoBands, MonotoneIn, Fits
<1> QED
  BY <1>4, <1>6

\* Every step keeps the invariant.
LEMMA FatInvStep == FatInv /\ [FatNext]_fatVars => FatInv'
<1> SUFFICES ASSUME FatInv, [FatNext]_fatVars PROVE FatInv'
  OBVIOUS
<1>0. UNCHANGED fat => FatTypes'
  BY DEF FatInv, FatTypes, fat
<1>1. ASSUME UNCHANGED <<fat, bands, verdict, floor, ceiling>> PROVE InABand'
  BY <1>1 DEF FatInv, InABand, TwoBands, MonotoneIn, Fits, fat
<1>2. ASSUME UNCHANGED vars PROVE IInv'
  BY <1>2, IInvStep DEF FatInv
<1>3. CASE ProbeInBand
  <2>1. Search /\ UNCHANGED <<fat, bands, last, answer>>
    BY <1>3 DEF ProbeInBand
  <2>2. Keeps /\ pc # "done"
    BY <2>1 DEF Search, ClimbRefused, CeilingRefused, ClimbFits, ClimbExhausted, NarrowCloses,
                Narrow, Impossible, Bisect, BisectCloses
  <2>3. IInv'
    BY <2>1, IInvStep DEF FatInv, Next
  <2>4. InABand'
    BY <1>1, <2>1, <2>2 DEF Keeps
  <2>5. Answered'
    BY <2>1, <2>2 DEF FatInv, Answered
  <2> QED
    BY <1>0, <2>1, <2>3, <2>4, <2>5 DEF FatInv
<1>4. CASE Settle
  <2>1. /\ UNCHANGED <<vars, fat, bands>> /\ pc = "done" /\ result.ok
        /\ answer' = [done |-> TRUE, ok |-> TRUE, size |-> result.size, error |-> None]
        /\ tree' = result.size
    BY <1>4 DEF Settle, Over
  <2>2. UNCHANGED <<verdict, floor, ceiling, pc, result>>
    BY <2>1 DEF vars, search
  <2>3. Answered'
    BY <2>1, <2>2 DEF Answered, FatInv, IInv, TypeOK
  <2> QED
    BY <1>0, <1>1, <1>2, <2>1, <2>2, <2>3 DEF FatInv
<1>5. CASE NextBand
  <2>1. UNCHANGED fat /\ answer' = answer /\ ~answer.done
    BY <1>5 DEF NextBand, Over
  <2>2. Answered'
    BY <2>1 DEF Answered, FatInv
  <2> QED
    BY <1>0, <1>5, <2>1, <2>2, NextBandBegins DEF FatInv
<1>6. CASE GiveUp
  <2>1. /\ UNCHANGED <<vars, fat, bands, tree>> /\ pc = "done" /\ ~result.ok /\ bands = << >>
        /\ answer' = [done |-> TRUE, ok |-> FALSE, size |-> 0, error |-> Met]
    BY <1>6 DEF GiveUp, Over
  <2>2. UNCHANGED <<verdict, floor, ceiling, pc, result>>
    BY <2>1 DEF vars, search
  <2>3. Answered'
    BY <2>1, <2>2 DEF Answered, FatInv, IInv, TypeOK
  <2> QED
    BY <1>0, <1>1, <1>2, <2>1, <2>2, <2>3 DEF FatInv
<1>7. CASE UNCHANGED fatVars
  <2>1. UNCHANGED <<vars, fat, bands, tree, answer>>
    BY <1>7 DEF fatVars
  <2>2. UNCHANGED <<verdict, floor, ceiling, pc, result>>
    BY <2>1 DEF vars, search
  <2>3. Answered'
    BY <2>1, <2>2 DEF Answered, FatInv
  <2> QED
    BY <1>0, <1>1, <1>2, <2>1, <2>2, <2>3 DEF FatInv
<1> QED
  BY <1>3, <1>4, <1>5, <1>6, <1>7 DEF FatNext, FatStep

\* search, "the first answer is the smallest there is", and settle, "the layout, the counts,
\* and the tree all describe one volume": whatever the sizes probe as, in one band or two.
THEOREM SettlesOnTheSmallest == FatSpec => []SettlesOnTheLeast
<1>1. ASSUME FatInv PROVE TreeIsTheAnswers
  BY <1>1 DEF FatInv, Answered, TreeIsTheAnswers
<1>2. ASSUME FatInv PROVE SmallestOfAllBands
  <2> SUFFICES ASSUME answer.done,
                      IF TwoBands
                      THEN MonotoneIn(least, threshold - 1) /\ MonotoneIn(threshold, Top)
                      ELSE MonotoneIn(least, Top)
               PROVE  IF \E n \in least..Top : Fits(n)
                      THEN answer.ok /\ \A n \in least..Top : n < answer.size => ~Fits(n)
                      ELSE ~answer.ok
    BY DEF SmallestOfAllBands, TwoBands
  <2>1. /\ IInv /\ pc = "done" /\ answer.ok = result.ok
        /\ answer.ok => result.ok /\ answer.size = result.size
        /\ ~answer.ok => bands = << >>
        /\ InABand /\ FatTypes /\ Top \in Nat
    BY <1>2 DEF FatInv, Answered, FatTypes, Sizes
  <2>2. MonotoneIn(floor, ceiling) =>
          IF \E n \in floor..ceiling : Fits(n)
          THEN result.ok /\ \A n \in floor..ceiling : n < result.size => ~Fits(n)
          ELSE ~result.ok
    BY <2>1, BandIsRange DEF IInv, FindsTheSmallest, Range
  <2>3. result.ok => result.size \in floor..ceiling /\ Fits(result.size)
    BY <2>1 DEF IInv, AnswerFits, Range
  <2>4. CASE ~TwoBands
    <3>1. floor = least /\ ceiling = Top
      BY <2>1, <2>4 DEF InABand
    <3> QED
      BY <2>1, <2>2, <2>4, <3>1
  <2>5. CASE TwoBands /\ floor = least /\ ceiling = threshold - 1 /\ bands # << >>
    <3>1. result.ok /\ answer.ok /\ answer.size = result.size
      BY <2>1, <2>5 DEF IInv, TypeOK
    <3>2. result.size \in least..Top /\ Fits(result.size)
      BY <2>1, <2>3, <2>5, <3>1 DEF FatTypes, Sizes
    <3>3. ASSUME NEW n \in least..Top, n < result.size PROVE ~Fits(n)
      <4>1. n \in least..(threshold - 1)
        BY <2>1, <2>3, <2>5, <3>1, <3>3 DEF FatTypes, Sizes
      <4> QED
        BY <2>2, <2>5, <3>1, <3>3, <4>1
    <3> QED
      BY <3>1, <3>2, <3>3
  <2>6. CASE TwoBands /\ floor = threshold /\ ceiling = Top
             /\ \A n \in least..(threshold - 1) : ~Fits(n)
    <3>1. \A n \in least..Top : n \in threshold..Top \/ n \in least..(threshold - 1)
      BY <2>1 DEF FatTypes, Sizes
    <3>2. \A n \in threshold..Top : n \in least..Top
      BY <2>1, <2>6 DEF FatTypes, Sizes, TwoBands
    <3> QED
      BY <2>1, <2>2, <2>6, <3>1, <3>2
  <2>7. CASE TwoBands
    <3>1. CASE bands = <<<<threshold, Top>>>> /\ floor = least /\ ceiling = threshold - 1
      <4>1. bands # << >>
        BY <3>1
      <4> QED
        BY <2>5, <2>7, <3>1, <4>1
    <3>2. CASE floor = threshold /\ ceiling = Top /\ \A n \in least..(threshold - 1) : ~Fits(n)
      BY <2>6, <2>7, <3>2
    <3> QED
      BY <2>1, <2>7, <3>1, <3>2 DEF InABand
  <2> QED
    BY <2>4, <2>7
<1>3. FatInv => SettlesOnTheLeast
  BY <1>1, <1>2 DEF SettlesOnTheLeast
<1> QED
  BY <1>3, FatInvInit, FatInvStep, PTL DEF FatSpec

\* And each of its bands is searched as the bracket promises.
THEOREM BandsAreBracketed == FatSpec => [](TypeOK /\ AnswerIsAnEdge /\ FindsTheSmallest)
<1>1. FatInv => TypeOK /\ AnswerIsAnEdge /\ FindsTheSmallest
  BY DEF FatInv, IInv, AnswerIsAnEdge
<1> QED
  BY <1>1, FatInvInit, FatInvStep, PTL DEF FatSpec

-----------------------------------------------------------------------------
\* The layout of an exFAT volume.

\* A quotient and what is left of it.
LEMMA Quotient ==
    ASSUME NEW n \in Nat, NEW d \in Positive
    PROVE  /\ n \div d \in Nat
           /\ (n \div d) * d <= n
           /\ n < (n \div d) * d + d
  BY DEF Positive

\* Rounded up, a length is whole units and no shorter.
LEMMA Ceiling ==
    ASSUME NEW n \in Nat, NEW d \in Positive
    PROVE  /\ DivCeil(n, d) \in Nat
           /\ n <= DivCeil(n, d) * d
           /\ RoundUp(n, d) = DivCeil(n, d) * d
           /\ RoundUp(n, d) \in Nat
  <1>1. n + d - 1 \in Nat  BY DEF Positive
  <1>2. DivCeil(n, d) \in Nat /\ n + d - 1 < DivCeil(n, d) * d + d
    BY <1>1, Quotient DEF DivCeil
  <1>3. DivCeil(n, d) * d \in Nat  BY <1>2 DEF Positive
  <1> QED  BY <1>2, <1>3 DEF RoundUp, Positive

LEMMA Larger ==
    ASSUME NEW a \in Nat, NEW b \in Nat, NEW d \in Nat, a <= b
    PROVE  a * d <= b * d
  OBVIOUS

\* What is longer in units is no shorter in bytes, and the other way about.
LEMMA Cancel ==
    ASSUME NEW a \in Nat, NEW b \in Nat, NEW d \in Positive, a * d <= b * d
    PROVE  a <= b
  <1> SUFFICES ASSUME b + 1 <= a PROVE FALSE  OBVIOUS
  <1>1. (b + 1) * d <= a * d  BY Larger DEF Positive
  <1>2. (b + 1) * d = b * d + d  BY DEF Positive
  <1>3. a * d \in Nat /\ b * d \in Nat  BY DEF Positive
  <1> QED  BY <1>1, <1>2, <1>3 DEF Positive

\* Whole units of a whole unit are whole.
LEMMA WholeUnits ==
    ASSUME NEW k \in Nat, NEW m \in Nat, NEW d \in Positive
    PROVE  (k * (m * d)) \div d = k * m /\ (k * (m * d)) = (k * m) * d
  <1> DEFINE n == k * m
  <1>1. n \in Nat  OBVIOUS
  <1>2. k * (m * d) = n * d  BY DEF Positive
  <1> HIDE DEF n
  <1>3. n * d \in Nat  BY <1>1 DEF Positive
  <1>4. (n * d) \div d = n
    <2> DEFINE q == (n * d) \div d
    <2>1. q \in Nat /\ q * d <= n * d /\ n * d < q * d + d  BY <1>3, Quotient
    <2> HIDE DEF q
    <2>2. q <= n  BY <2>1, <1>1, Cancel
    <2>3. q * d + d = (q + 1) * d  BY <2>1 DEF Positive
    <2>4. n <= q \/ q + 1 <= n  BY <1>1, <2>1
    <2>5. ASSUME q + 1 <= n PROVE FALSE
      <3>1. (q + 1) * d <= n * d  BY <2>5, <2>1, <1>1, Larger DEF Positive
      <3> QED  BY <3>1, <2>1, <2>3, <1>3 DEF Positive
    <2>6. q = n  BY <2>2, <2>4, <2>5, <2>1, <1>1
    <2> QED  BY <2>6 DEF q
  <1> QED  BY <1>2, <1>4 DEF n

LEMMA Multiple ==
    ASSUME NEW n \in Nat, NEW d \in Positive, n % d = 0
    PROVE  n \div d \in Nat /\ n = (n \div d) * d
  BY DEF Positive

-----------------------------------------------------------------------------

\* The bound the table is sized from is never low: what the clusters and their entries take
\* together cannot pass what is behind the table's start.
LEMMA BoundIsNotLow ==
    ASSUME NEW V \in Nat, NEW f \in Nat, NEW C \in Positive, NEW fb \in Nat, NEW h \in Nat,
           NEW b \in Nat, NEW c \in Nat,
           b = (V - (f + TableTail)) \div (C + EntryBytes) + 1,
           f + TableTail <= V,
           (b + FirstCluster) * EntryBytes <= fb,
           f + fb <= h, h < V,
           c = (V - h) \div C
    PROVE  c <= b
  <1> USE DEF Positive
  <1> DEFINE n == V - (f + TableTail)
             q == n \div (C + EntryBytes)
  <1>1. n \in Nat /\ C + EntryBytes \in Positive  BY DEF TableTail, EntryBytes
  <1>2. q \in Nat /\ n < q * (C + EntryBytes) + (C + EntryBytes)  BY <1>1, Quotient
  <1>3. b = q + 1  OBVIOUS
  <1>4. n = V - f - 9  BY DEF TableTail
  <1> HIDE DEF n, q
  <1>5. q * (C + EntryBytes) = q * C + 4 * q  BY <1>2 DEF EntryBytes
  <1>6. q * C \in Nat  BY <1>2
  <1>7. V < q * C + 4 * q + C + 4 + f + 9  BY <1>2, <1>4, <1>5, <1>6, <1>1 DEF EntryBytes
  <1>8. V - h \in Nat /\ V - h <= V - f - 4 * b - 8  BY DEF FirstCluster, EntryBytes
  <1>9. c * C <= V - h  BY <1>8, Quotient
  <1>10. SUFFICES ASSUME b + 1 <= c PROVE FALSE  OBVIOUS
  <1>11. (b + 1) * C <= c * C  BY <1>10, Larger
  <1>12. (b + 1) * C = q * C + 2 * C  BY <1>3, <1>2
  <1>13. c * C \in Nat  OBVIOUS
  <1>14. q * C + 2 * C <= V - f - 4 * q - 12  BY <1>3, <1>8, <1>9, <1>11, <1>12, <1>13, <1>2, <1>6
  <1> QED  BY <1>7, <1>14, <1>6, <1>2

-----------------------------------------------------------------------------

\* What a layout that is not refused is made of.
LEMMA LayoutFacts ==
    ASSUME NEW r \in Requests, Refusal(r) = "none"
    PROVE  /\ r.volume \in Nat /\ r.sector \in Positive /\ r.cluster \in Positive /\ r.align \in Positive
           /\ VolumeLength(r) \in Nat /\ VolumeBytes(r) = VolumeLength(r) * r.sector /\ VolumeBytes(r) \in Nat
           /\ FatAt(r) \in Nat /\ ReservedSectors * r.sector <= FatAt(r)
           /\ FatAt(r) + TableTail <= VolumeBytes(r)
           /\ ClusterBound(r) \in Nat
           /\ FatBytes(r) \in Nat /\ (ClusterBound(r) + FirstCluster) * EntryBytes <= FatBytes(r)
           /\ HeapAt(r) \in Nat /\ FatAt(r) + FatBytes(r) <= HeapAt(r) /\ HeapAt(r) < VolumeBytes(r)
           /\ Clusters(r) \in Nat /\ Clusters(r) * r.cluster <= VolumeBytes(r) - HeapAt(r)
  <1> USE DEF Positive
  <1>1. r.volume \in Nat /\ r.sector \in Positive /\ r.cluster \in Positive /\ r.align \in Positive
    BY RequestsAssumption
  <1>2. VolumeLength(r) \in Nat /\ VolumeBytes(r) = VolumeLength(r) * r.sector
    BY <1>1, Quotient DEF VolumeLength, VolumeBytes
  <1>3. VolumeBytes(r) \in Nat  BY <1>1, <1>2
  <1>4. FatAt(r) \in Nat /\ ReservedSectors * r.sector <= FatAt(r)
    <2>1. ReservedSectors * r.sector \in Nat  BY <1>1, LimitsAssumption
    <2> QED  BY <1>1, <2>1, Ceiling DEF FatAt
  <1>5. ~(VolumeBytes(r) < FatAt(r) + TableTail) /\ ~(HeapAt(r) >= VolumeBytes(r))
    BY DEF Refusal
  <1>6. FatAt(r) + TableTail <= VolumeBytes(r)  BY <1>3, <1>4, <1>5 DEF TableTail
  <1>7. ClusterBound(r) \in Nat
    <2>1. VolumeBytes(r) - (FatAt(r) + TableTail) \in Nat  BY <1>3, <1>4, <1>6 DEF TableTail
    <2>2. r.cluster + EntryBytes \in Positive  BY <1>1 DEF EntryBytes
    <2> QED  BY <2>1, <2>2, Quotient DEF ClusterBound
  <1>8. FatBytes(r) \in Nat /\ (ClusterBound(r) + FirstCluster) * EntryBytes <= FatBytes(r)
    <2>1. (ClusterBound(r) + FirstCluster) * EntryBytes \in Nat  BY <1>7 DEF FirstCluster, EntryBytes
    <2> QED  BY <1>1, <2>1, Ceiling DEF FatBytes
  <1>9. HeapAt(r) \in Nat /\ FatAt(r) + FatBytes(r) <= HeapAt(r)
    BY <1>1, <1>4, <1>8, Ceiling DEF HeapAt
  <1>10. HeapAt(r) < VolumeBytes(r)  BY <1>3, <1>5, <1>9
  <1>11. Clusters(r) \in Nat /\ Clusters(r) * r.cluster <= VolumeBytes(r) - HeapAt(r)
    <2>1. VolumeBytes(r) - HeapAt(r) \in Nat  BY <1>3, <1>9, <1>10
    <2> QED  BY <1>1, <2>1, Quotient DEF Clusters
  <1> QED  BY <1>1, <1>2, <1>3, <1>4, <1>6, <1>7, <1>8, <1>9, <1>10, <1>11

\* Every region begins on a sector: what is recorded in sectors is exact.
LEMMA WholeSectors ==
    ASSUME NEW r \in Requests, Refusal(r) = "none"
    PROVE  /\ FatAt(r) \div r.sector \in Nat /\ FatAt(r) = (FatAt(r) \div r.sector) * r.sector
           /\ FatBytes(r) \div r.sector \in Nat /\ FatBytes(r) = (FatBytes(r) \div r.sector) * r.sector
           /\ HeapAt(r) \div r.sector \in Nat /\ HeapAt(r) = (HeapAt(r) \div r.sector) * r.sector
           /\ SectorsPerCluster(r) \in Nat /\ r.cluster = SectorsPerCluster(r) * r.sector
  <1> USE DEF Positive
  <1> DEFINE s == r.sector
             m == r.align \div r.sector
  <1>1. r.volume \in Nat /\ s \in Positive /\ r.cluster \in Positive /\ r.align \in Positive
    BY RequestsAssumption
  <1>2. m \in Nat /\ r.align = m * s  BY <1>1, Multiple, RequestsAssumption
  <1>3. SectorsPerCluster(r) \in Nat /\ r.cluster = SectorsPerCluster(r) * s
    BY <1>1, Multiple, RequestsAssumption DEF SectorsPerCluster
  <1> DEFINE aligned(n) == n \div s \in Nat /\ n = (n \div s) * s
  <1>4. ASSUME NEW n \in Nat PROVE aligned(RoundUp(n, r.align))
    <2> DEFINE k == DivCeil(n, r.align)
    <2>1. k \in Nat /\ RoundUp(n, r.align) = k * r.align  BY <1>1, Ceiling
    <2> HIDE DEF k, s, m
    <2>2. RoundUp(n, r.align) = k * (m * s)  BY <2>1, <1>2
    <2>3. (k * (m * s)) \div s = k * m /\ k * (m * s) = (k * m) * s  BY <2>1, <1>1, <1>2, WholeUnits
    <2>4. k * m \in Nat  BY <2>1, <1>2
    <2> QED  BY <2>2, <2>3, <2>4
  <1>5. ASSUME NEW n \in Nat PROVE aligned(RoundUp(n, s))
    <2> DEFINE k == DivCeil(n, s)
    <2>1. k \in Nat /\ RoundUp(n, s) = k * s  BY <1>1, Ceiling
    <2> HIDE DEF k, s, m
    <2>2. (k * (1 * s)) \div s = k * 1 /\ k * (1 * s) = (k * 1) * s  BY <2>1, <1>1, WholeUnits
    <2>3. 1 * s = s /\ k * 1 = k  BY <2>1, <1>1
    <2> QED  BY <2>1, <2>2, <2>3
  <1>6. ReservedSectors * s \in Nat  BY <1>1, LimitsAssumption
  <1>7. aligned(FatAt(r))  BY <1>4, <1>6 DEF FatAt
  <1>8. (ClusterBound(r) + FirstCluster) * EntryBytes \in Nat
    BY LayoutFacts DEF FirstCluster, EntryBytes
  <1>9. aligned(FatBytes(r))  BY <1>5, <1>8 DEF FatBytes
  <1>10. FatAt(r) + FatBytes(r) \in Nat  BY LayoutFacts
  <1>11. aligned(HeapAt(r))  BY <1>4, <1>10 DEF HeapAt
  <1> QED  BY <1>3, <1>7, <1>9, <1>11

-----------------------------------------------------------------------------

LEMMA EveryLayoutIsSound ==
    ASSUME NEW r \in Requests, Refusal(r) = "none"
    PROVE  Sound(r, LayoutOf(r))
  <1> USE DEF Positive
  <1> DEFINE lay == LayoutOf(r)
             s == r.sector
             table == FatAt(r) \div s
             len == FatBytes(r) \div s
             heap == HeapAt(r) \div s
             per == SectorsPerCluster(r)
             count == Clusters(r)
             bits == BitmapBytes(r)
  <1>1. s \in Positive /\ r.cluster \in Positive /\ count \in Nat /\ VolumeLength(r) \in Nat
    BY LayoutFacts
  <1>2. /\ table \in Nat /\ FatAt(r) = table * s
        /\ len \in Nat /\ FatBytes(r) = len * s
        /\ heap \in Nat /\ HeapAt(r) = heap * s
        /\ per \in Nat /\ r.cluster = per * s
    BY WholeSectors
  <1>3. ReservedSectors <= table
    <2>1. ReservedSectors * s <= table * s  BY <1>2, LayoutFacts
    <2> HIDE DEF table, s
    <2> QED  BY <2>1, <1>1, <1>2, LimitsAssumption, Cancel
  <1>4. table + len <= heap
    <2>1. table * s + len * s <= heap * s  BY <1>2, LayoutFacts
    <2> HIDE DEF table, len, heap, s
    <2>2. (table + len) * s = table * s + len * s  BY <1>1, <1>2
    <2> QED  BY <2>1, <2>2, <1>1, <1>2, Cancel
  <1>5. (count + FirstCluster) * EntryBytes <= len * s
    <2>1. count <= ClusterBound(r)
      <3>1. /\ VolumeBytes(r) \in Nat /\ FatAt(r) \in Nat /\ r.cluster \in Positive
            /\ FatBytes(r) \in Nat /\ HeapAt(r) \in Nat /\ ClusterBound(r) \in Nat
            /\ FatAt(r) + TableTail <= VolumeBytes(r)
            /\ (ClusterBound(r) + FirstCluster) * EntryBytes <= FatBytes(r)
            /\ FatAt(r) + FatBytes(r) <= HeapAt(r) /\ HeapAt(r) < VolumeBytes(r)
        BY LayoutFacts
      <3>2. ClusterBound(r) = (VolumeBytes(r) - (FatAt(r) + TableTail)) \div (r.cluster + EntryBytes) + 1
        BY DEF ClusterBound
      <3>3. count = (VolumeBytes(r) - HeapAt(r)) \div r.cluster  BY DEF Clusters
      <3> QED  BY <3>1, <3>2, <3>3, <1>1, BoundIsNotLow
    <2>2. (ClusterBound(r) + FirstCluster) * EntryBytes <= FatBytes(r) /\ ClusterBound(r) \in Nat
      BY LayoutFacts
    <2>3. (count + FirstCluster) * EntryBytes <= (ClusterBound(r) + FirstCluster) * EntryBytes
      BY <2>1, <2>2, <1>1 DEF FirstCluster, EntryBytes
    <2>4. (count + FirstCluster) * EntryBytes \in Nat  BY <1>1 DEF FirstCluster, EntryBytes
    <2> HIDE DEF count
    <2> QED  BY <2>2, <2>3, <2>4, <1>2, LayoutFacts DEF FirstCluster, EntryBytes
  <1>6. heap + count * per <= VolumeLength(r)
    <2>1. count * (per * s) <= VolumeLength(r) * s - heap * s  BY <1>2, LayoutFacts
    <2> HIDE DEF heap, s, count, per
    <2>2. count * (per * s) = (count * per) * s  BY <1>1, <1>2, WholeUnits
    <2>3. count * per \in Nat  BY <1>1, <1>2
    <2>4. (heap + count * per) * s = heap * s + (count * per) * s  BY <2>3, <1>1, <1>2
    <2>5. (heap + count * per) * s <= VolumeLength(r) * s  BY <2>1, <2>2, <2>4, <2>3, <1>1, <1>2
    <2>6. heap + count * per \in Nat  BY <2>3, <1>2
    <2> QED  BY <2>5, <2>6, <1>1, Cancel
  <1>7. bits \in Nat /\ count <= bits * 8
    <2>1. 8 \in Positive  OBVIOUS
    <2> QED  BY <1>1, <2>1, Ceiling DEF BitmapBytes
  <1>8. BitmapClusters(r) \in Nat /\ bits <= BitmapClusters(r) * r.cluster
    BY <1>1, <1>7, Ceiling DEF BitmapClusters
  <1>9. UpcaseClusters(r) \in Nat /\ UpcaseBytes <= UpcaseClusters(r) * r.cluster
    BY <1>1, Ceiling, LimitsAssumption DEF UpcaseClusters
  <1>10. ~(BitmapClusters(r) + UpcaseClusters(r) + 1 > count)  BY DEF Refusal
  <1>11. FirstCluster + BitmapClusters(r) + UpcaseClusters(r) < count + FirstCluster
    BY <1>1, <1>8, <1>9, <1>10 DEF FirstCluster
  <1>12. /\ lay.upcase_cluster - lay.bitmap_cluster = BitmapClusters(r)
         /\ lay.first_cluster_of_root - lay.upcase_cluster = UpcaseClusters(r)
    BY <1>8, <1>9 DEF LayoutOf, FirstCluster
  <1>13. /\ lay.fat_offset = table /\ lay.fat_length = len /\ lay.cluster_heap_offset = heap
         /\ lay.cluster_count = count /\ lay.volume_length = VolumeLength(r) /\ lay.bitmap_bytes = bits
         /\ lay.first_cluster_of_root = FirstCluster + BitmapClusters(r) + UpcaseClusters(r)
    BY DEF LayoutOf
  <1>14. count <= 8 * bits  BY <1>7, <1>1
  <1> HIDE DEF lay, s, table, len, heap, per, count, bits
  <1>15. Sound(r, lay)
    BY <1>3, <1>4, <1>5, <1>6, <1>14, <1>8, <1>9, <1>11, <1>12, <1>13 DEF Sound, s, per
  <1> QED  BY <1>15 DEF lay

\* What is planned is the layout of what was asked for, and was not refused.
FromTheRequest ==
    /\ request \in Requests
    /\ \/ layout = Unplanned
       \/ Refusal(request) = "none" /\ layout = Planned(request)
       \/ Refusal(request) # "none" /\ layout = [status |-> Refusal(request)]

LEMMA RefusalIsNotPlanned ==
    ASSUME NEW r PROVE Refusal(r) # "planned"
  BY DEF Refusal

\* plan_layout never returns a layout whose table is short, whose regions overlap or run past
\* the volume, or whose residents do not fit.
THEOREM EveryPlanIsSound == LayoutSpec => []LayoutIsSound
  <1>1. LayoutInit => FromTheRequest  BY DEF LayoutInit, FromTheRequest
  <1>2. FromTheRequest /\ [LayoutNext]_layoutVars => FromTheRequest'
    <2> SUFFICES ASSUME FromTheRequest, [LayoutNext]_layoutVars PROVE FromTheRequest'  OBVIOUS
    <2>1. CASE Plan  BY <2>1 DEF Plan, FromTheRequest, Planned
    <2>2. CASE Refuse  BY <2>2 DEF Refuse, FromTheRequest
    <2>3. CASE UNCHANGED layoutVars  BY <2>3 DEF layoutVars, FromTheRequest
    <2> QED  BY <2>1, <2>2, <2>3 DEF LayoutNext
  <1>3. FromTheRequest => LayoutIsSound
    <2> SUFFICES ASSUME FromTheRequest, layout.status = "planned" PROVE Sound(request, layout.at)
      BY DEF LayoutIsSound
    <2>1. layout # Unplanned  BY DEF Unplanned
    <2>2. layout # [status |-> Refusal(request)]  BY RefusalIsNotPlanned
    <2>3. request \in Requests /\ Refusal(request) = "none" /\ layout = Planned(request)
      BY <2>1, <2>2 DEF FromTheRequest
    <2>4. layout.at = LayoutOf(request)  BY <2>3 DEF Planned
    <2> QED  BY <2>3, <2>4, EveryLayoutIsSound
  <1> QED  BY <1>1, <1>2, <1>3, PTL DEF LayoutSpec

-----------------------------------------------------------------------------
\* Where the parts of a planned volume lie.

LEMMA LeastOf ==
    ASSUME NEW T \in SUBSET Nat, T # {}
    PROVE  \E x \in T : \A y \in T : x <= y
  <1>1. PICK x \in T : \A y \in T : ~(<<y, x>> \in OpToRel(<, Nat))
    BY NatLessThanWellFounded, WFMin
  <1>2. \A y \in T : ~(y < x)  BY <1>1 DEF OpToRel
  <1> QED  BY <1>2

\* The units a length takes are those that begin before its end.
LEMMA BelowCeiling ==
    ASSUME NEW n \in Nat, NEW d \in Positive, NEW a \in Nat
    PROVE  a < DivCeil(n, d) <=> a * d < n
  <1> USE DEF Positive
  <1> DEFINE q == DivCeil(n, d)
  <1>1. q \in Nat /\ n <= q * d  BY Ceiling
  <1>2. q * d < n + d
    <2>1. n + d - 1 \in Nat  OBVIOUS
    <2>2. q * d <= n + d - 1  BY <2>1, Quotient DEF DivCeil
    <2>3. q * d \in Nat  BY <1>1
    <2> HIDE DEF q
    <2> QED  BY <2>2, <2>3
  <1> HIDE DEF q
  <1>3. q * d \in Nat /\ a * d \in Nat  BY <1>1
  <1>4. ASSUME a < q PROVE a * d < n
    <2>1. (a + 1) * d <= q * d  BY <1>4, <1>1, Larger
    <2>2. (a + 1) * d = a * d + d  OBVIOUS
    <2> QED  BY <2>1, <2>2, <1>2, <1>3
  <1>5. ASSUME ~(a < q) PROVE ~(a * d < n)
    <2>1. q * d <= a * d  BY <1>5, <1>1, Larger
    <2> QED  BY <2>1, <1>1, <1>3
  <1>6. a < q <=> a * d < n  BY <1>4, <1>5
  <1> QED  BY <1>6 DEF q

LEMMA CeilingFits ==
    ASSUME NEW n \in Nat, NEW d \in Positive, NEW a \in Nat, n <= a * d
    PROVE  DivCeil(n, d) \in Nat /\ DivCeil(n, d) <= a
  <1>1. DivCeil(n, d) \in Nat  BY Ceiling
  <1>2. ~(a < DivCeil(n, d))
    <2>1. a * d \in Nat  BY DEF Positive
    <2> HIDE DEF DivCeil
    <2> QED  BY <2>1, BelowCeiling
  <1> QED  BY <1>1, <1>2

\* What is whole units of a positive length is at least one.
LEMMA SomeUnits ==
    ASSUME NEW n \in Positive, NEW d \in Positive, n % d = 0
    PROVE  n \div d \in Positive /\ n = (n \div d) * d
  <1>1. n \div d \in Nat /\ n = (n \div d) * d  BY Multiple DEF Positive
  <1> DEFINE q == n \div d
  <1>2. q \in Nat /\ n = q * d  BY <1>1
  <1> HIDE DEF q
  <1>3. q # 0  BY <1>2 DEF Positive
  <1> QED  BY <1>2, <1>3 DEF Positive, q

Entry == [kind : {"directory", "file"}, bytes : Nat, declared : BOOLEAN]

\* The volume is planned and everything in the tree has its clusters.
Placed ==
    /\ request \in Requests /\ contents \in Trees
    /\ Refusal(request) = "none" /\ layout = Planned(request)
    /\ UsedClusters <= at.cluster_count

LEMMA PlacedTree ==
    ASSUME contents \in Trees
    PROVE  /\ contents \in Seq(Entry) /\ Len(contents) \in Positive /\ Items = 1..Len(contents)
           /\ \A k \in Items : contents[k] \in Entry
           /\ contents[1].kind = "directory" /\ 1 \in Items
  <1>1. contents \in Seq(Entry) /\ contents # << >> /\ contents[1].kind = "directory"
    BY TreesAssumption DEF Entry
  <1> QED  BY <1>1 DEF Items, Positive

\* The first clusters, one after another, up to the m-th.
Firsts(f, l, m) ==
    f = [n \in 1..m |-> IF n = 1 THEN l.first_cluster_of_root ELSE f[n - 1] + Need(contents[n - 1])]

LEMMA FirstsExist ==
    ASSUME NEW l, NEW m \in Nat
    PROVE  \E f : Firsts(f, l, m)
  <1> DEFINE T == {n \in Nat : ~ \E f : Firsts(f, l, n)}
  <1> SUFFICES ASSUME T # {} PROVE FALSE  OBVIOUS
  <1>1. PICK n \in T : \A j \in T : n <= j
    <2>1. T \in SUBSET Nat  OBVIOUS
    <2> HIDE DEF T
    <2> QED  BY <2>1, LeastOf
  <1>2. n # 0
    <2>1. Firsts([i \in 1..0 |-> 0], l, 0)  BY DEF Firsts
    <2> QED  BY <2>1, <1>1
  <1>3. PICK g : Firsts(g, l, n - 1)  BY <1>1, <1>2
  <1>8. n \in T /\ n \in Nat /\ n >= 1  BY <1>1, <1>2
  <1> HIDE DEF T
  <1> DEFINE h == [i \in 1..n |-> IF i = 1 THEN l.first_cluster_of_root ELSE g[i - 1] + Need(contents[i - 1])]
  <1>4. \A i \in 1..(n - 1) : g[i] = h[i]
    <2>1. \A i \in 1..(n - 1) :
             g[i] = IF i = 1 THEN l.first_cluster_of_root ELSE g[i - 1] + Need(contents[i - 1])
      BY <1>3 DEF Firsts
    <2>2. 1..(n - 1) \subseteq 1..n  BY <1>8
    <2> QED  BY <2>1, <2>2
  <1>5. \A i \in 1..n : i # 1 => i - 1 \in 1..(n - 1)  BY <1>8
  <1>6. h = [i \in 1..n |-> IF i = 1 THEN l.first_cluster_of_root ELSE h[i - 1] + Need(contents[i - 1])]
    <2>1. \A i \in 1..n : i # 1 => g[i - 1] = h[i - 1]  BY <1>4, <1>5
    <2> QED  BY <2>1
  <1>7. Firsts(h, l, n)  BY <1>6 DEF Firsts
  <1> QED  BY <1>7, <1>8 DEF T

\* Each thing's clusters begin where those before it end.
LEMMA FirstSteps ==
    ASSUME NEW l, contents \in Trees
    PROVE  /\ FirstIn(l, 1) = l.first_cluster_of_root
           /\ \A k \in Items : FirstIn(l, k + 1) = FirstIn(l, k) + Need(contents[k])
  <1> DEFINE m == Len(contents) + 1
             f == CHOOSE f : Firsts(f, l, m)
  <1>1. m \in Nat /\ m >= 1 /\ Items = 1..(m - 1)  BY PlacedTree DEF Positive
  <1>2. Firsts(f, l, m)  BY <1>1, FirstsExist
  <1>3. \A k : FirstIn(l, k) = f[k]  BY DEF FirstIn, Firsts
  <1> HIDE DEF f, m
  <1>4. \A n \in 1..m : f[n] = IF n = 1 THEN l.first_cluster_of_root ELSE f[n - 1] + Need(contents[n - 1])
    BY <1>2 DEF Firsts
  <1>5. \A k \in Items : k + 1 \in 1..m /\ k + 1 # 1 /\ (k + 1) - 1 = k  BY <1>1
  <1>6. \A k \in Items : f[k + 1] = f[k] + Need(contents[k])  BY <1>4, <1>5
  <1>7. f[1] = l.first_cluster_of_root  BY <1>1, <1>4
  <1> QED  BY <1>3, <1>6, <1>7

LEMMA Needs ==
    ASSUME contents \in Trees, request.cluster \in Positive, NEW k \in Items
    PROVE  /\ Need(contents[k]) \in Nat /\ contents[k].bytes \in Nat
           /\ contents[k].bytes <= Need(contents[k]) * request.cluster
           /\ contents[k].kind = "directory" => Need(contents[k]) \in Positive
  <1>1. contents[k].bytes \in Nat  BY PlacedTree DEF Entry
  <1>2. /\ DivCeil(contents[k].bytes, request.cluster) \in Nat
        /\ contents[k].bytes <= DivCeil(contents[k].bytes, request.cluster) * request.cluster
    BY <1>1, Ceiling
  <1>3. contents[k].bytes # 0 => DivCeil(contents[k].bytes, request.cluster) # 0
    BY <1>1, <1>2 DEF Positive
  <1> QED  BY <1>1, <1>2, <1>3 DEF Need, Positive

LEMMA FirstsRise ==
    ASSUME NEW l, contents \in Trees, request.cluster \in Positive, l.first_cluster_of_root \in Nat
    PROVE  \A j \in 1..(Len(contents) + 1) :
              \A i \in 1..j : FirstIn(l, i) \in Nat /\ FirstIn(l, i) <= FirstIn(l, j)
  <1> DEFINE m == Len(contents) + 1
             T == {j \in 1..m : ~ \A i \in 1..j : FirstIn(l, i) \in Nat /\ FirstIn(l, i) <= FirstIn(l, j)}
  <1>0. m \in Nat /\ Items = 1..(m - 1)  BY PlacedTree DEF Positive
  <1> SUFFICES ASSUME T # {} PROVE FALSE  OBVIOUS
  <1>1. PICK j \in T : \A i \in T : j <= i
    <2>1. T \in SUBSET Nat  OBVIOUS
    <2> HIDE DEF T
    <2> QED  BY <2>1, LeastOf
  <1> HIDE DEF m
  <1>2. j # 1  BY <1>1, FirstSteps
  <1>3. j - 1 \in 1..m /\ j - 1 \in Items /\ (j - 1) + 1 = j  BY <1>0, <1>1, <1>2
  <1>4. \A i \in 1..(j - 1) : FirstIn(l, i) \in Nat /\ FirstIn(l, i) <= FirstIn(l, j - 1)
    <2>1. j - 1 \notin T  BY <1>0, <1>1, <1>3
    <2> QED  BY <2>1, <1>3
  <1>5. FirstIn(l, j - 1) \in Nat  BY <1>3, <1>4
  <1>6. FirstIn(l, j) = FirstIn(l, j - 1) + Need(contents[j - 1]) /\ Need(contents[j - 1]) \in Nat
    <2>1. FirstIn(l, (j - 1) + 1) = FirstIn(l, j - 1) + Need(contents[j - 1])  BY <1>3, FirstSteps
    <2> QED  BY <2>1, <1>3, Needs
  <1>7. FirstIn(l, j - 1) <= FirstIn(l, j) /\ FirstIn(l, j) \in Nat  BY <1>5, <1>6
  <1>8. ASSUME NEW i \in 1..j PROVE FirstIn(l, i) \in Nat /\ FirstIn(l, i) <= FirstIn(l, j)
    <2>1. i = j \/ i \in 1..(j - 1)  BY <1>0, <1>1
    <2> QED  BY <2>1, <1>4, <1>5, <1>7
  <1> QED  BY <1>1, <1>8

-----------------------------------------------------------------------------

LEMMA Units ==
    ASSUME Placed
    PROVE  /\ S \in Positive /\ Per \in Positive /\ request.cluster \in Positive /\ request.cluster = Per * S
           /\ BootSectors \in Positive /\ BootSectors \in Nat /\ BootSectors >= 1
           /\ at = LayoutOf(request) /\ Sound(request, at)
           /\ at.fat_offset \in Nat /\ at.fat_length \in Nat /\ at.cluster_heap_offset \in Nat
           /\ at.volume_length \in Nat /\ at.cluster_count \in Nat /\ at.bitmap_bytes \in Nat
           /\ at.bitmap_cluster = FirstCluster
           /\ at.upcase_cluster \in Nat /\ FirstCluster <= at.upcase_cluster
           /\ at.first_cluster_of_root = at.upcase_cluster + DivCeil(UpcaseBytes, request.cluster)
           /\ DivCeil(UpcaseBytes, request.cluster) \in Nat
           /\ UpcaseBytes <= DivCeil(UpcaseBytes, request.cluster) * request.cluster
           /\ at.bitmap_bytes = DivCeil(at.cluster_count, 8)
  <1> DEFINE r == request
  <1>1. r \in Requests /\ Refusal(r) = "none" /\ layout.at = LayoutOf(r)
    BY DEF Placed, Planned
  <1>2. at = LayoutOf(r) /\ Sound(r, LayoutOf(r))  BY <1>1, EveryLayoutIsSound DEF at
  <1>3. r.sector \in Positive /\ r.cluster \in Positive /\ Clusters(r) \in Nat /\ VolumeLength(r) \in Nat
    BY <1>1, LayoutFacts
  <1>4. r.cluster % r.sector = 0  BY <1>1, RequestsAssumption
  <1>5. r.cluster \div r.sector \in Positive /\ r.cluster = (r.cluster \div r.sector) * r.sector
    BY <1>3, <1>4, SomeUnits
  <1>6. BootSectors \in Positive  BY StagesAssumption
  <1>7. /\ FatAt(r) \div r.sector \in Nat /\ FatBytes(r) \div r.sector \in Nat
        /\ HeapAt(r) \div r.sector \in Nat
    BY <1>1, WholeSectors
  <1>8. BitmapBytes(r) \in Nat
    <2>1. 8 \in Positive  BY DEF Positive
    <2> QED  BY <2>1, <1>3, Ceiling DEF BitmapBytes
  <1>9. BitmapClusters(r) \in Nat  BY <1>3, <1>8, Ceiling DEF BitmapClusters
  <1>10. UpcaseBytes \in Nat  BY LimitsAssumption DEF Positive
  <1>11. /\ DivCeil(UpcaseBytes, r.cluster) \in Nat
         /\ UpcaseBytes <= DivCeil(UpcaseBytes, r.cluster) * r.cluster
    BY <1>3, <1>10, Ceiling
  <1>12. /\ at.fat_offset = FatAt(r) \div r.sector /\ at.fat_length = FatBytes(r) \div r.sector
         /\ at.cluster_heap_offset = HeapAt(r) \div r.sector /\ at.volume_length = VolumeLength(r)
         /\ at.cluster_count = Clusters(r) /\ at.bitmap_bytes = BitmapBytes(r)
         /\ at.bitmap_cluster = FirstCluster /\ at.upcase_cluster = FirstCluster + BitmapClusters(r)
         /\ at.first_cluster_of_root = FirstCluster + BitmapClusters(r) + DivCeil(UpcaseBytes, r.cluster)
    BY <1>2 DEF LayoutOf, UpcaseClusters
  <1>13. at.upcase_cluster \in Nat /\ FirstCluster <= at.upcase_cluster
    BY <1>9, <1>12 DEF FirstCluster
  <1>14. at.bitmap_bytes = DivCeil(at.cluster_count, 8)  BY <1>12 DEF BitmapBytes
  <1>15. S \in Positive /\ Per \in Positive /\ r.cluster = Per * S
    BY <1>3, <1>5 DEF S, Per, SectorsPerCluster
  <1>16. BootSectors \in Nat /\ BootSectors >= 1  BY <1>6 DEF Positive
  <1> QED  BY <1>2, <1>3, <1>6, <1>7, <1>8, <1>11, <1>12, <1>13, <1>14, <1>15, <1>16

LEMMA Starts ==
    ASSUME Placed, NEW a \in Nat, NEW b \in Nat, FirstCluster <= a, a <= b
    PROVE  /\ ClusterStart(a) \in Nat /\ at.cluster_heap_offset <= ClusterStart(a)
           /\ (b - a) * Per \in Nat
           /\ ClusterStart(b) = ClusterStart(a) + (b - a) * Per /\ ClusterStart(a) <= ClusterStart(b)
  <1> DEFINE u == a - 2
             v == b - a
             p == Per
             h == at.cluster_heap_offset
  <1>1. u \in Nat /\ v \in Nat /\ p \in Nat /\ h \in Nat
    BY Units DEF FirstCluster, Positive
  <1>2. ClusterStart(a) = h + u * p /\ ClusterStart(b) = h + (u + v) * p
    BY DEF ClusterStart, FirstCluster
  <1> HIDE DEF u, p, h
  <1>3. u * p \in Nat /\ v * p \in Nat /\ (u + v) * p = u * p + v * p
    <2> HIDE DEF v
    <2> QED  BY <1>1
  <1> QED  BY <1>1, <1>2, <1>3 DEF p, h

\* A length in bytes within whole clusters is within their sectors.
LEMMA Fitting ==
    ASSUME Placed, NEW n \in Nat, NEW c \in Nat, n <= c * request.cluster
    PROVE  SectorsOf(n) \in Nat /\ SectorsOf(n) <= c * Per /\ c * Per \in Nat
  <1> DEFINE p == Per
             s == S
  <1>1. p \in Nat /\ s \in Positive /\ s \in Nat /\ request.cluster = p * s  BY Units DEF Positive
  <1> HIDE DEF p, s
  <1>2. c * (p * s) = (c * p) * s /\ c * p \in Nat  BY <1>1, WholeUnits
  <1>3. n <= (c * p) * s  BY <1>1, <1>2
  <1>4. DivCeil(n, s) \in Nat /\ DivCeil(n, s) <= c * p
    BY <1>1, <1>2, <1>3, CeilingFits
  <1> QED  BY <1>2, <1>4 DEF SectorsOf, p, s

LEMMA VolumeIsWhole ==
    ASSUME Placed
    PROVE  AllSectors \in Nat /\ at.volume_length <= AllSectors /\ AllSectors >= 1
  <1> DEFINE v == request.volume
             s == S
             q == v \div s
  <1>1. v \in Nat /\ s \in Positive /\ at.volume_length = q
    BY Units, LayoutFacts DEF Placed, LayoutOf, VolumeLength, S
  <1> HIDE DEF v, s
  <1>2. q \in Nat /\ q * s <= v  BY <1>1, Quotient
  <1>3. DivCeil(v, s) \in Nat /\ v <= DivCeil(v, s) * s  BY <1>1, Ceiling
  <1> HIDE DEF q
  <1> DEFINE c == DivCeil(v, s)
  <1> HIDE DEF c
  <1>4. c \in Nat /\ v <= c * s  BY <1>3 DEF c
  <1>5. q <= c
    <2>1. q * s \in Nat /\ c * s \in Nat  BY <1>1, <1>2, <1>4 DEF Positive
    <2>2. q * s <= c * s  BY <2>1, <1>1, <1>2, <1>4
    <2> QED  BY <2>2, <1>1, <1>2, <1>4, Cancel
  <1>6. AllSectors = c  BY DEF AllSectors, SectorsOf, c, v, s
  <1>7. at.volume_length >= 1
    <2>1. 2 * BootSectors <= at.volume_length /\ BootSectors >= 1 /\ BootSectors \in Nat
      <3>1. /\ ReservedSectors <= at.fat_offset /\ at.fat_offset + at.fat_length <= at.cluster_heap_offset
            /\ at.cluster_heap_offset + at.cluster_count * SectorsPerCluster(request) <= at.volume_length
        BY Units DEF Sound
      <3>2. at.cluster_count * SectorsPerCluster(request) \in Nat
        <4>1. at.cluster_count \in Nat /\ Per \in Nat  BY Units DEF Positive
        <4> QED  BY <4>1 DEF Per
      <3>3. ReservedSectors = 2 * BootSectors /\ ReservedSectors \in Nat
        BY StagesAssumption, LimitsAssumption DEF Positive
      <3> QED  BY <3>1, <3>2, <3>3, Units
    <2> QED  BY <2>1, Units
  <1> QED  BY <1>1, <1>2, <1>4, <1>5, <1>6, <1>7

LEMMA Narrower ==
    ASSUME NEW a \in Nat, NEW b \in Nat, NEW d \in Positive, a <= b
    PROVE  DivCeil(a, d) \in Nat /\ DivCeil(b, d) \in Nat /\ DivCeil(a, d) <= DivCeil(b, d)
  <1> DEFINE q == DivCeil(b, d)
  <1>1. q \in Nat /\ b <= q * d  BY Ceiling
  <1> HIDE DEF q
  <1>2. q * d \in Nat  BY <1>1 DEF Positive
  <1>3. a <= q * d  BY <1>1, <1>2
  <1>4. DivCeil(a, d) \in Nat /\ DivCeil(a, d) <= q  BY <1>1, <1>3, CeilingFits
  <1> QED  BY <1>1, <1>4 DEF q

Length(k) == IF contents[k].kind = "file" THEN SectorsOf(contents[k].bytes) ELSE Need(contents[k]) * Per

\* Everything in the tree has its clusters to itself, behind the volume's own and inside the heap.
LEMMA Clustered ==
    ASSUME Placed
    PROVE  /\ FirstOf(1) = at.first_cluster_of_root /\ FirstCluster <= FirstOf(1)
           /\ \A j \in 1..(Len(contents) + 1) : \A i \in 1..j :
                 /\ FirstOf(i) \in Nat /\ FirstCluster <= FirstOf(i) /\ FirstOf(i) <= FirstOf(j)
                 /\ ClusterStart(FirstOf(i)) \in Nat /\ ClusterStart(FirstOf(i)) <= ClusterStart(FirstOf(j))
           /\ \A k \in Items :
                 /\ Length(k) \in Nat
                 /\ ClusterStart(FirstOf(k)) + Length(k) <= ClusterStart(FirstOf(k + 1))
  <1>1. contents \in Trees /\ request.cluster \in Positive /\ at.first_cluster_of_root \in Nat
        /\ FirstCluster <= at.first_cluster_of_root
    BY Units DEF Placed, FirstCluster
  <1> DEFINE m == Len(contents) + 1
  <1>2. m \in Nat /\ Items = 1..(m - 1)  BY <1>1, PlacedTree DEF Positive
  <1>3. FirstOf(1) = at.first_cluster_of_root  BY <1>1, FirstSteps DEF FirstOf
  <1>4. \A j \in 1..m : \A i \in 1..j : FirstOf(i) \in Nat /\ FirstOf(i) <= FirstOf(j)
    BY <1>1, FirstsRise DEF FirstOf
  <1> HIDE DEF m
  <1>5. ASSUME NEW j \in 1..m, NEW i \in 1..j
        PROVE  /\ FirstOf(i) \in Nat /\ FirstCluster <= FirstOf(i) /\ FirstOf(i) <= FirstOf(j)
               /\ ClusterStart(FirstOf(i)) \in Nat /\ ClusterStart(FirstOf(i)) <= ClusterStart(FirstOf(j))
    <2>1. i \in 1..m /\ 1 \in 1..i /\ j \in 1..j  BY <1>2
    <2>2. FirstOf(i) \in Nat /\ FirstOf(i) <= FirstOf(j)  BY <1>4
    <2>3. FirstOf(1) <= FirstOf(i) /\ FirstOf(j) \in Nat  BY <1>4, <2>1
    <2>4. FirstCluster <= FirstOf(i)  BY <1>1, <1>3, <2>2, <2>3 DEF FirstCluster
    <2> QED  BY <2>2, <2>3, <2>4, Starts
  <1>6. ASSUME NEW k \in Items
        PROVE  /\ Length(k) \in Nat
               /\ ClusterStart(FirstOf(k)) + Length(k) <= ClusterStart(FirstOf(k + 1))
    <2> DEFINE need == Need(contents[k])
    <2>1. k \in 1..m /\ k + 1 \in 1..m /\ k \in 1..(k + 1)  BY <1>2
    <2>2. FirstOf(k) \in Nat /\ FirstCluster <= FirstOf(k) /\ ClusterStart(FirstOf(k)) \in Nat
      BY <1>5, <2>1
    <2>3. FirstOf(k + 1) = FirstOf(k) + need  BY <1>1, FirstSteps DEF FirstOf
    <2>4. need \in Nat /\ contents[k].bytes \in Nat /\ contents[k].bytes <= need * request.cluster
      BY <1>1, Needs
    <2> HIDE DEF need
    <2>5. FirstOf(k + 1) \in Nat /\ FirstOf(k) <= FirstOf(k + 1) /\ FirstOf(k + 1) - FirstOf(k) = need
      BY <2>2, <2>3, <2>4
    <2>6. ClusterStart(FirstOf(k + 1)) = ClusterStart(FirstOf(k)) + need * Per
      BY <2>2, <2>5, Starts
    <2>7. SectorsOf(contents[k].bytes) \in Nat /\ SectorsOf(contents[k].bytes) <= need * Per /\ need * Per \in Nat
      BY <2>4, Fitting
    <2>8. Length(k) \in Nat /\ Length(k) <= need * Per  BY <2>7 DEF Length, need
    <2> QED  BY <2>2, <2>6, <2>7, <2>8
  <1> QED  BY <1>1, <1>3, <1>5, <1>6 DEF m

LEMMA HeapPoints ==
    ASSUME Placed
    PROVE  /\ ClusterStart(at.bitmap_cluster) = at.cluster_heap_offset
           /\ SectorsOf(at.bitmap_bytes) \in Nat
           /\ ClusterStart(at.upcase_cluster) \in Nat
           /\ at.cluster_heap_offset + SectorsOf(at.bitmap_bytes) <= ClusterStart(at.upcase_cluster)
           /\ SectorsOf(UpcaseBytes) \in Positive
           /\ DivCeil(UpcaseBytes, request.cluster) * Per \in Nat
           /\ SectorsOf(UpcaseBytes) <= DivCeil(UpcaseBytes, request.cluster) * Per
           /\ ClusterStart(FirstOf(1)) = ClusterStart(at.upcase_cluster) + DivCeil(UpcaseBytes, request.cluster) * Per
  <1>1. ClusterStart(at.bitmap_cluster) = at.cluster_heap_offset
    <2>1. ClusterStart(at.bitmap_cluster) = at.cluster_heap_offset + 0 * Per
      BY Units DEF ClusterStart, FirstCluster
    <2> QED  BY <2>1, Units DEF Positive
  <1> DEFINE b == at.upcase_cluster - FirstCluster
             u == DivCeil(UpcaseBytes, request.cluster)
  <1>2. b \in Nat /\ at.upcase_cluster \in Nat /\ FirstCluster \in Nat /\ FirstCluster <= at.upcase_cluster
    BY Units DEF FirstCluster
  <1>3. at.bitmap_bytes \in Nat /\ at.bitmap_bytes <= b * request.cluster
    BY Units DEF Sound
  <1>4. u \in Nat /\ UpcaseBytes \in Nat /\ UpcaseBytes # 0 /\ UpcaseBytes <= u * request.cluster
    BY Units, LimitsAssumption DEF Positive
  <1>5. at.first_cluster_of_root = at.upcase_cluster + u  BY Units
  <1>6. /\ ClusterStart(at.upcase_cluster) \in Nat
        /\ ClusterStart(at.upcase_cluster) = at.cluster_heap_offset + b * Per
    <2>1. FirstCluster <= FirstCluster  BY DEF FirstCluster
    <2>2. /\ ClusterStart(FirstCluster) = at.cluster_heap_offset
      BY <1>1, Units
    <2>3. ClusterStart(at.upcase_cluster) = ClusterStart(FirstCluster) + b * Per
      BY <1>2, <2>1, Starts
    <2>4. ClusterStart(at.upcase_cluster) \in Nat
      <3>1. at.upcase_cluster <= at.upcase_cluster  BY <1>2
      <3> QED  BY <3>1, <1>2, Starts
    <2> QED  BY <2>2, <2>3, <2>4
  <1>7. SectorsOf(at.bitmap_bytes) \in Nat /\ SectorsOf(at.bitmap_bytes) <= b * Per /\ b * Per \in Nat
    BY <1>2, <1>3, Fitting
  <1>8. SectorsOf(UpcaseBytes) \in Nat /\ SectorsOf(UpcaseBytes) <= u * Per /\ u * Per \in Nat
    BY <1>4, Fitting
  <1>9. SectorsOf(UpcaseBytes) # 0
    <2>1. 0 < DivCeil(UpcaseBytes, S) <=> 0 * S < UpcaseBytes
      BY <1>4, Units, BelowCeiling
    <2>2. 0 * S = 0  BY Units DEF Positive
    <2> QED  BY <2>1, <2>2, <1>4, <1>8 DEF SectorsOf
  <1> HIDE DEF b, u
  <1>10. ClusterStart(at.upcase_cluster + u) = ClusterStart(at.upcase_cluster) + u * Per
    <2>1. at.upcase_cluster + u \in Nat /\ at.upcase_cluster <= at.upcase_cluster + u
          /\ (at.upcase_cluster + u) - at.upcase_cluster = u
      BY <1>2, <1>4
    <2> QED  BY <2>1, <1>2, Starts
  <1>11. FirstOf(1) = at.upcase_cluster + u  BY <1>5, Clustered
  <1> QED
    BY <1>1, <1>6, <1>7, <1>8, <1>9, <1>10, <1>11, Units DEF Positive, u

LEMMA Ends ==
    ASSUME Placed
    PROVE  /\ UsedClusters \in Nat /\ UsedClusters <= at.cluster_count
           /\ FreeFrom = ClusterStart(FirstOf(Len(contents) + 1))
           /\ FreeFrom \in Nat /\ at.cluster_heap_offset <= FreeFrom
           /\ HeapEnd \in Nat /\ FreeFrom <= HeapEnd /\ HeapEnd <= at.volume_length
           /\ BeforeTail \in Nat
           /\ TailFrom \in Nat /\ FreeFrom <= TailFrom /\ TailFrom <= HeapEnd
           /\ \A s \in Nat : s >= BeforeTail /\ s >= FreeFrom => s >= TailFrom
  <1> DEFINE final == FirstOf(Len(contents) + 1)
  <1>1. Len(contents) + 1 \in 1..(Len(contents) + 1)  BY PlacedTree DEF Placed, Positive
  <1>2. final \in Nat /\ FirstCluster <= final  BY <1>1, Clustered
  <1>3. UsedClusters = final - FirstCluster  BY DEF UsedClusters, UsedIn, FirstOf
  <1> HIDE DEF final
  <1> DEFINE used == UsedClusters
             count == at.cluster_count
             per == Per
             heap == at.cluster_heap_offset
  <1>4. used \in Nat /\ used <= count  BY <1>2, <1>3 DEF Placed, FirstCluster
  <1>5. count \in Nat /\ per \in Nat /\ heap \in Nat /\ at.volume_length \in Nat  BY Units DEF Positive
  <1>6. FreeFrom = heap + used * per /\ HeapEnd = heap + count * per  BY DEF FreeFrom, HeapEnd
  <1>7. FreeFrom = ClusterStart(final)  BY <1>3 DEF FreeFrom, ClusterStart
  <1>8. HeapEnd <= at.volume_length  BY Units DEF Sound, HeapEnd, Per
  <1> HIDE DEF used, count, per, heap
  <1>9. used * per \in Nat /\ count * per \in Nat /\ used * per <= count * per  BY <1>4, <1>5, Larger
  <1>10. FreeFrom \in Nat /\ heap <= FreeFrom /\ HeapEnd \in Nat /\ FreeFrom <= HeapEnd
    BY <1>5, <1>6, <1>9
  <1>11. BeforeTail \in Nat
    <2> DEFINE q == TailBytes \div S
               vl == at.volume_length
    <2>1. TailBytes \in Positive /\ S \in Positive /\ TailBytes % S = 0
      BY StagesAssumption, Units DEF Placed, S
    <2>2. q \in Positive /\ TailBytes = q * S  BY <2>1, SomeUnits
    <2> HIDE DEF q
    <2>3. CASE vl * S <= TailBytes  BY <2>3 DEF BeforeTail
    <2>4. CASE ~(vl * S <= TailBytes)
      <3>1. vl * S \in Nat /\ q * S \in Nat /\ vl \in Nat /\ q \in Nat  BY <2>1, <2>2, <1>5 DEF Positive
      <3>2. q * S <= vl * S  BY <3>1, <2>2, <2>4
      <3> HIDE DEF vl
      <3>3. q <= vl  BY <3>1, <3>2, <2>1, Cancel
      <3>4. BeforeTail = vl - q  BY <2>4 DEF BeforeTail, vl, q
      <3> QED  BY <3>1, <3>3, <3>4
    <2> QED  BY <2>3, <2>4
  <1>12. /\ TailFrom \in Nat /\ FreeFrom <= TailFrom /\ TailFrom <= HeapEnd
         /\ \A s \in Nat : s >= BeforeTail /\ s >= FreeFrom => s >= TailFrom
    BY <1>10, <1>11 DEF TailFrom
  <1> QED  BY <1>4, <1>7, <1>8, <1>10, <1>11, <1>12 DEF used, count, heap, final

\* The sectors of the bitmap that hold a set bit.
Marked == SectorsOf(DivCeil(UsedClusters, 8))

LEMMA MarkedFirst ==
    ASSUME Placed
    PROVE  /\ Marked \in Nat /\ Marked <= SectorsOf(at.bitmap_bytes)
           /\ \A k \in Nat : k < Marked <=> k * S * 8 < UsedClusters
  <1> DEFINE used == UsedClusters
             bytes == DivCeil(used, 8)
  <1>1. 8 \in Positive /\ S \in Positive  BY Units DEF Positive
  <1>2. used \in Nat /\ used <= at.cluster_count /\ at.cluster_count \in Nat  BY Ends, Units
  <1>3. bytes \in Nat /\ bytes <= DivCeil(at.cluster_count, 8)  BY <1>1, <1>2, Narrower
  <1>4. bytes <= at.bitmap_bytes /\ at.bitmap_bytes \in Nat  BY <1>3, Units
  <1>5. \A k \in Nat : k < bytes <=> k * 8 < used  BY <1>1, <1>2, BelowCeiling
  <1> HIDE DEF bytes
  <1>6. DivCeil(bytes, S) \in Nat /\ DivCeil(bytes, S) <= DivCeil(at.bitmap_bytes, S)
    BY <1>1, <1>3, <1>4, Narrower
  <1>7. ASSUME NEW k \in Nat PROVE k < DivCeil(bytes, S) <=> k * S * 8 < used
    <2>1. k < DivCeil(bytes, S) <=> k * S < bytes  BY <1>1, <1>3, BelowCeiling
    <2>2. k * S \in Nat  BY <1>1 DEF Positive
    <2>3. k * S < bytes <=> (k * S) * 8 < used  BY <2>2, <1>5
    <2> QED  BY <2>1, <2>3
  <1> QED  BY <1>6, <1>7 DEF Marked, SectorsOf, bytes

\* The sectors of the table that chain the residents.
Chained == SectorsOf((LastChained + 1) * EntryBytes)

LEMMA ChainedFits ==
    ASSUME Placed
    PROVE  /\ Chained \in Nat /\ 2 * BootSectors <= at.fat_offset
           /\ at.fat_offset + Chained <= at.cluster_heap_offset
           /\ \A k \in Nat : k < Chained <=> k * S < (LastChained + 1) * EntryBytes
  <1> DEFINE final == LastChained + 1
             len == at.fat_length
  <1>1. final = FirstOf(2) /\ FirstOf(2) \in Nat /\ FirstOf(2) <= FirstOf(Len(contents) + 1)
    <2>1. /\ Len(contents) \in Nat /\ Len(contents) >= 1 /\ 1 \in Items /\ contents \in Trees
          /\ request.cluster \in Positive
      BY PlacedTree, Units DEF Positive, Placed
    <2>2. 2 \in 1..(Len(contents) + 1) /\ Len(contents) + 1 \in 1..(Len(contents) + 1)
      BY <2>1
    <2>3. FirstOf(2) \in Nat /\ FirstOf(2) <= FirstOf(Len(contents) + 1)
      BY <2>2, Clustered
    <2>4. Need(contents[1]) \in Nat  BY <2>1, Needs
    <2>5. FirstIn(at, 1) = at.first_cluster_of_root /\ FirstIn(at, 1 + 1) = FirstIn(at, 1) + Need(contents[1])
      BY <2>1, FirstSteps
    <2>6. at.first_cluster_of_root \in Nat  BY Units
    <2>7. final = FirstOf(2)  BY <2>4, <2>5, <2>6 DEF LastChained, FirstOf
    <2> QED  BY <2>3, <2>7
  <1>2. FirstOf(Len(contents) + 1) = UsedClusters + FirstCluster /\ UsedClusters \in Nat
        /\ UsedClusters <= at.cluster_count
    <2>1. Len(contents) + 1 \in 1..(Len(contents) + 1)  BY PlacedTree DEF Placed, Positive
    <2>2. FirstOf(Len(contents) + 1) \in Nat  BY <2>1, Clustered
    <2> QED  BY <2>2, Ends DEF UsedClusters, UsedIn, FirstOf, FirstCluster
  <1>3. /\ (at.cluster_count + FirstCluster) * EntryBytes <= len * S
        /\ ReservedSectors <= at.fat_offset /\ at.fat_offset + len <= at.cluster_heap_offset
    BY Units DEF Sound, S
  <1>4. /\ len \in Nat /\ S \in Positive /\ at.cluster_count \in Nat /\ at.fat_offset \in Nat
        /\ at.cluster_heap_offset \in Nat
    BY Units
  <1> HIDE DEF final, len
  <1>5. final \in Nat /\ final <= at.cluster_count + 2  BY <1>1, <1>2, <1>4 DEF FirstCluster
  <1>6. final * 4 \in Nat /\ final * 4 <= len * S
    <2>1. len * S \in Nat  BY <1>4 DEF Positive
    <2> QED  BY <2>1, <1>3, <1>4, <1>5 DEF FirstCluster, EntryBytes
  <1>7. DivCeil(final * 4, S) \in Nat /\ DivCeil(final * 4, S) <= len
    BY <1>4, <1>6, CeilingFits
  <1>8. \A k \in Nat : k < DivCeil(final * 4, S) <=> k * S < final * 4
    BY <1>4, <1>6, BelowCeiling
  <1>9. Chained = DivCeil(final * 4, S) /\ (LastChained + 1) * EntryBytes = final * 4
    BY DEF Chained, SectorsOf, final, EntryBytes
  <1>10. 2 * BootSectors <= at.fat_offset  BY <1>3, StagesAssumption
  <1>11. at.fat_offset + DivCeil(final * 4, S) <= at.cluster_heap_offset
    BY <1>3, <1>4, <1>7
  <1> QED  BY <1>7, <1>8, <1>9, <1>10, <1>11

-----------------------------------------------------------------------------
\* Pieces, "in ascending order of offset".

Pieces(runs) == {runs[i] : i \in DOMAIN runs}
Run(whats) == [from : Nat, to : Nat, what : whats]

\* Runs of something between two sectors, none empty, each behind the one before.
Ascending(runs, first, end, whats) ==
    /\ runs \in Seq(Run(whats))
    /\ \A i \in DOMAIN runs : first <= runs[i].from /\ runs[i].from < runs[i].to /\ runs[i].to <= end
    /\ \A i, j \in DOMAIN runs : i < j => runs[i].to <= runs[j].from

LEMMA Joined ==
    ASSUME NEW r, NEW q, NEW w, NEW a \in Nat, NEW b \in Nat, NEW c \in Nat, NEW d \in Nat,
           Ascending(r, a, b, w), Ascending(q, c, d, w), a <= b, b <= c, c <= d
    PROVE  /\ Ascending(r \o q, a, d, w)
           /\ Pieces(r \o q) = Pieces(r) \cup Pieces(q)
  <1> DEFINE t == r \o q
             m == Len(r)
             n == Len(q)
  <1>1. /\ r \in Seq(Run(w)) /\ q \in Seq(Run(w)) /\ t \in Seq(Run(w))
        /\ m \in Nat /\ n \in Nat /\ DOMAIN r = 1..m /\ DOMAIN q = 1..n /\ DOMAIN t = 1..(m + n)
    BY DEF Ascending
  <1>2. \A i \in 1..(m + n) : t[i] = IF i <= m THEN r[i] ELSE q[i - m]  BY <1>1
  <1>3. \A i \in 1..(m + n) : (i <= m /\ i \in 1..m) \/ (i > m /\ i - m \in 1..n)  BY <1>1
  <1>4. /\ \A i \in 1..m : r[i].from \in Nat /\ r[i].to \in Nat /\ a <= r[i].from
                           /\ r[i].from < r[i].to /\ r[i].to <= b
        /\ \A i \in 1..n : q[i].from \in Nat /\ q[i].to \in Nat /\ c <= q[i].from
                           /\ q[i].from < q[i].to /\ q[i].to <= d
        /\ \A i, j \in 1..m : i < j => r[i].to <= r[j].from
        /\ \A i, j \in 1..n : i < j => q[i].to <= q[j].from
    <2>1. /\ \A i \in 1..m : r[i] \in Run(w)
          /\ \A i \in 1..n : q[i] \in Run(w)
      BY <1>1
    <2> QED  BY <2>1, <1>1 DEF Ascending, Run
  <1> HIDE DEF t, m, n
  <1>5. ASSUME NEW i \in 1..(m + n)
        PROVE  a <= t[i].from /\ t[i].from < t[i].to /\ t[i].to <= d
    <2>1. CASE i <= m /\ i \in 1..m  BY <2>1, <1>2, <1>4
    <2>2. CASE i > m /\ i - m \in 1..n
      <3>1. t[i] = q[i - m]  BY <2>2, <1>1, <1>2
      <3> QED  BY <3>1, <2>2, <1>4
    <2> QED  BY <2>1, <2>2, <1>3
  <1>6. ASSUME NEW i \in 1..(m + n), NEW j \in 1..(m + n), i < j
        PROVE  t[i].to <= t[j].from
    <2>1. CASE j \in 1..m /\ j <= m
      <3>1. i \in 1..m /\ i <= m  BY <1>1, <1>6, <2>1
      <3> QED  BY <3>1, <2>1, <1>2, <1>4, <1>6
    <2>2. CASE i > m /\ i - m \in 1..n
      <3>1. j > m /\ j - m \in 1..n /\ i - m < j - m  BY <1>1, <1>6, <2>2
      <3>2. t[i] = q[i - m] /\ t[j] = q[j - m]  BY <3>1, <2>2, <1>1, <1>2
      <3> QED  BY <3>1, <3>2, <2>2, <1>4
    <2>3. CASE (i \in 1..m /\ i <= m) /\ (j > m /\ j - m \in 1..n)
      <3>1. t[i] = r[i] /\ t[j] = q[j - m]  BY <2>3, <1>1, <1>2
      <3>2. r[i].to <= b /\ c <= q[j - m].from /\ r[i].to \in Nat /\ q[j - m].from \in Nat
        BY <2>3, <1>4
      <3> QED  BY <3>1, <3>2
    <2> QED  BY <2>1, <2>2, <2>3, <1>3
  <1>7. Ascending(t, a, d, w)  BY <1>1, <1>5, <1>6 DEF Ascending
  <1>8. \A i \in 1..m : i \in 1..(m + n) /\ t[i] = r[i]  BY <1>1, <1>2
  <1>9. \A i \in 1..n : i + m \in 1..(m + n) /\ t[i + m] = q[i]
    <2>1. \A i \in 1..n : i + m \in 1..(m + n) /\ ~(i + m <= m) /\ (i + m) - m = i  BY <1>1
    <2> QED  BY <2>1, <1>2
  <1>10. Pieces(t) = Pieces(r) \cup Pieces(q)
    <2>1. \A i \in 1..(m + n) : (\E k \in 1..m : t[i] = r[k]) \/ (\E k \in 1..n : t[i] = q[k])
      BY <1>1, <1>2, <1>3
    <2>2. Pieces(t) \subseteq Pieces(r) \cup Pieces(q)  BY <2>1, <1>1 DEF Pieces
    <2>3. Pieces(r) \subseteq Pieces(t)  BY <1>1, <1>8 DEF Pieces
    <2>4. Pieces(q) \subseteq Pieces(t)  BY <1>1, <1>9 DEF Pieces
    <2> QED  BY <2>2, <2>3, <2>4
  <1> QED  BY <1>7, <1>10 DEF t

LEMMA Single ==
    ASSUME NEW w, NEW p \in Run(w), NEW a \in Nat, NEW d \in Nat, a <= p.from, p.to <= d
    PROVE  /\ Ascending(Nonempty(p), a, d, w)
           /\ Pieces(Nonempty(p)) = {q \in {p} : IsPiece(q)}
  <1>1. p.from \in Nat /\ p.to \in Nat  BY DEF Run
  <1>2. CASE IsPiece(p)
    <2>1. Nonempty(p) = <<p>>  BY <1>2 DEF Nonempty
    <2>2. /\ <<p>> \in Seq(Run(w)) /\ DOMAIN <<p>> = {1} /\ <<p>>[1] = p
      OBVIOUS
    <2>3. p.from < p.to  BY <1>1, <1>2 DEF IsPiece
    <2> QED  BY <2>1, <2>2, <2>3, <1>1, <1>2 DEF Ascending, Pieces
  <1>3. CASE ~IsPiece(p)
    <2>1. Nonempty(p) = << >>  BY <1>3 DEF Nonempty
    <2>2. << >> \in Seq(Run(w)) /\ DOMAIN << >> = {}
      OBVIOUS
    <2> QED  BY <2>1, <2>2, <1>3 DEF Ascending, Pieces
  <1> QED  BY <1>2, <1>3

\* Batches cover what they were cut from.
LEMMA Batched ==
    ASSUME NEW from \in Nat, NEW to \in Nat, from <= to, NEW batch \in Positive, NEW what
    PROVE  /\ Ascending(Batches(from, to, batch, what), from, to, {what})
           /\ \A s \in from..(to - 1) : \E p \in Pieces(Batches(from, to, batch, what)) : s \in Sectors(p)
  <1> DEFINE m == to - from
             n == DivCeil(m, batch)
             b == Batches(from, to, batch, what)
  <1>1. m \in Nat /\ batch \in Nat /\ batch >= 1  BY DEF Positive
  <1>2. n \in Nat /\ \A k \in Nat : k < n <=> k * batch < m  BY <1>1, Ceiling, BelowCeiling
  <1>3. DOMAIN b = 1..n /\ b \in [1..n -> {b[k] : k \in 1..n}]
        /\ \A k \in 1..n : b[k] = [from |-> from + (k - 1) * batch,
                                   to |-> IF from + k * batch < to THEN from + k * batch ELSE to,
                                   what |-> what]
    BY DEF Batches, Piece
  <1> HIDE DEF n, b
  <1>4. ASSUME NEW k \in 1..n
        PROVE  /\ (k - 1) * batch \in Nat /\ k * batch = (k - 1) * batch + batch
               /\ (k - 1) * batch < m
    <2>1. k - 1 \in Nat /\ k \in Nat /\ k - 1 < n  BY <1>2
    <2>2. (k - 1) * batch < m  BY <2>1, <1>2
    <2> DEFINE j == k - 1
    <2>3. k = j + 1  BY <2>1
    <2> HIDE DEF j
    <2>4. (j + 1) * batch = j * batch + batch /\ j * batch \in Nat  BY <2>1, <1>1 DEF j
    <2> QED  BY <2>2, <2>3, <2>4 DEF j
  <1>5. ASSUME NEW k \in 1..n
        PROVE  /\ b[k] \in Run({what})
               /\ from <= b[k].from /\ b[k].from < b[k].to /\ b[k].to <= to
               /\ b[k].from = from + (k - 1) * batch /\ b[k].to <= from + k * batch
               /\ (b[k].to = from + k * batch \/ b[k].to = to)
    <2> DEFINE x == (k - 1) * batch
               y == k * batch
    <2>1. x \in Nat /\ y = x + batch /\ x < m  BY <1>4
    <2>2. b[k] = [from |-> from + x, to |-> IF from + y < to THEN from + y ELSE to, what |-> what]
      BY <1>3
    <2> HIDE DEF x, y
    <2>3. /\ b[k].from = from + x /\ b[k].to = IF from + y < to THEN from + y ELSE to
      BY <2>2
    <2>4. b[k].from \in Nat /\ b[k].to \in Nat  BY <2>1, <2>3, <1>1
    <2>5. b[k] \in Run({what})
      <3>1. from + x \in Nat /\ (IF from + y < to THEN from + y ELSE to) \in Nat  BY <2>1, <1>1
      <3> QED  BY <3>1, <2>2 DEF Run
    <2> QED  BY <2>1, <2>3, <2>4, <2>5, <1>1 DEF x, y
  <1>6. ASSUME NEW i \in 1..n, NEW j \in 1..n, i < j PROVE b[i].to <= b[j].from
    <2>1. b[i].to <= from + i * batch /\ b[j].from = from + (j - 1) * batch /\ b[i].to \in Nat
      BY <1>5 DEF Run
    <2>2. i \in Nat /\ j - 1 \in Nat /\ i <= j - 1  BY <1>2, <1>6
    <2>3. i * batch <= (j - 1) * batch  BY <2>2, <1>1, Larger
    <2>4. i * batch \in Nat /\ (j - 1) * batch \in Nat  BY <2>2, <1>1
    <2> QED  BY <2>1, <2>3, <2>4
  <1>7. b \in Seq(Run({what}))
    <2> DEFINE W == Run({what})
    <2>1. \A k \in 1..n : b[k] \in W  BY <1>5
    <2> HIDE DEF W
    <2>2. b \in [1..n -> W]  BY <2>1, <1>3
    <2>3. b \in Seq(W)  BY <2>2, <1>2
    <2> QED  BY <2>3 DEF W
  <1>8. Ascending(b, from, to, {what})
    <2>1. \A i \in DOMAIN b : from <= b[i].from /\ b[i].from < b[i].to /\ b[i].to <= to
      BY <1>3, <1>5
    <2>2. \A i, j \in DOMAIN b : i < j => b[i].to <= b[j].from  BY <1>3, <1>6
    <2> QED  BY <1>7, <2>1, <2>2 DEF Ascending
  <1>9. ASSUME NEW s \in from..(to - 1) PROVE \E p \in Pieces(b) : s \in Sectors(p)
    <2> DEFINE x == s - from
               k == x \div batch
    <2>1. x \in Nat /\ x < m /\ s = from + x  OBVIOUS
    <2> HIDE DEF x
    <2>2. k \in Nat /\ k * batch <= x /\ x < k * batch + batch  BY <2>1, Quotient
    <2> HIDE DEF k
    <2>3. k * batch \in Nat /\ k * batch < m  BY <2>1, <2>2, <1>1
    <2>4. k + 1 \in 1..n /\ (k + 1) - 1 = k  BY <2>2, <2>3, <1>2
    <2>5. (k + 1) * batch = k * batch + batch  BY <2>2, <1>1
    <2>6. /\ b[k + 1].from = from + k * batch
          /\ b[k + 1].to = from + (k * batch + batch) \/ b[k + 1].to = to
      BY <2>4, <2>5, <1>5
    <2>7. s \in Sectors(b[k + 1])  BY <2>1, <2>2, <2>3, <2>6, <1>1 DEF Sectors
    <2>8. b[k + 1] \in Pieces(b)  BY <2>4, <1>3 DEF Pieces
    <2> QED  BY <2>7, <2>8
  <1> QED  BY <1>8, <1>9 DEF b

LEMMA Wider ==
    ASSUME NEW r, NEW a \in Nat, NEW b \in Nat, NEW w, NEW v, w \subseteq v, Ascending(r, a, b, w)
    PROVE  Ascending(r, a, b, v)
  <1>1. Run(w) \subseteq Run(v)  BY DEF Run
  <1>2. r \in Seq(Run(v))  BY <1>1 DEF Ascending
  <1> QED  BY <1>2 DEF Ascending

ItemWhats == {<<"item", k>> : k \in Items}

\* The runs of the first things of the tree.
Itemised(g, m) == g = [k \in 0..m |-> IF k = 0 THEN << >> ELSE g[k - 1] \o Nonempty(ItemRun(k))]

LEMMA ItemisedExists ==
    ASSUME NEW m \in Nat
    PROVE  \E g : Itemised(g, m)
  <1> DEFINE T == {n \in Nat : ~ \E g : Itemised(g, n)}
  <1> SUFFICES ASSUME T # {} PROVE FALSE  OBVIOUS
  <1>1. PICK n \in T : \A j \in T : n <= j
    <2>1. T \in SUBSET Nat  OBVIOUS
    <2> HIDE DEF T
    <2> QED  BY <2>1, LeastOf
  <1>2. n # 0
    <2>1. Itemised([i \in 0..0 |-> << >>], 0)  BY DEF Itemised
    <2> QED  BY <2>1, <1>1
  <1>3. PICK f : Itemised(f, n - 1)  BY <1>1, <1>2
  <1>4. n \in T /\ n \in Nat /\ n >= 1  BY <1>1, <1>2
  <1> HIDE DEF T
  <1> DEFINE h == [i \in 0..n |-> IF i = 0 THEN << >> ELSE f[i - 1] \o Nonempty(ItemRun(i))]
  <1>5. \A i \in 0..(n - 1) : f[i] = h[i]
    <2>1. \A i \in 0..(n - 1) : f[i] = IF i = 0 THEN << >> ELSE f[i - 1] \o Nonempty(ItemRun(i))
      BY <1>3 DEF Itemised
    <2>2. 0..(n - 1) \subseteq 0..n  BY <1>4
    <2> QED  BY <2>1, <2>2
  <1>6. h = [i \in 0..n |-> IF i = 0 THEN << >> ELSE h[i - 1] \o Nonempty(ItemRun(i))]
    <2>1. \A i \in 0..n : i # 0 => i - 1 \in 0..(n - 1)  BY <1>4
    <2>2. \A i \in 0..n : i # 0 => f[i - 1] = h[i - 1]  BY <1>5, <2>1
    <2> QED  BY <2>2
  <1>7. Itemised(h, n)  BY <1>6 DEF Itemised
  <1> QED  BY <1>7, <1>4 DEF T

LEMMA ItemRunIs ==
    ASSUME Placed, NEW k \in Items
    PROVE  /\ ItemRun(k) = Piece(ClusterStart(FirstOf(k)), ClusterStart(FirstOf(k)) + Length(k), <<"item", k>>)
           /\ ItemRun(k) \in Run(ItemWhats)
           /\ ClusterStart(FirstOf(k)) <= ItemRun(k).from
           /\ ItemRun(k).to <= ClusterStart(FirstOf(k + 1))
           /\ IsPiece(ItemRun(k)) <=> Length(k) > 0
  <1>1. ItemRun(k) = Piece(ClusterStart(FirstOf(k)), ClusterStart(FirstOf(k)) + Length(k), <<"item", k>>)
    BY DEF ItemRun, Length
  <1>2. k \in 1..(Len(contents) + 1) /\ k \in 1..k
    BY PlacedTree DEF Placed, Positive
  <1>3. ClusterStart(FirstOf(k)) \in Nat  BY <1>2, Clustered
  <1>4. Length(k) \in Nat /\ ClusterStart(FirstOf(k)) + Length(k) <= ClusterStart(FirstOf(k + 1))
    BY Clustered
  <1>5. <<"item", k>> \in ItemWhats  BY DEF ItemWhats
  <1> DEFINE c == ClusterStart(FirstOf(k))
             x == Length(k)
  <1> HIDE DEF c, x
  <1>6. ItemRun(k) = [from |-> c, to |-> c + x, what |-> <<"item", k>>] /\ c \in Nat /\ x \in Nat
        /\ c + x <= ClusterStart(FirstOf(k + 1))
    BY <1>1, <1>3, <1>4 DEF c, x, Piece
  <1>7. ItemRun(k) \in Run(ItemWhats)  BY <1>5, <1>6 DEF Run
  <1>8. ItemRun(k).from = c /\ ItemRun(k).to = c + x  BY <1>6
  <1> QED  BY <1>1, <1>6, <1>7, <1>8 DEF IsPiece, c, x

LEMMA ItemRunsAscend ==
    ASSUME Placed
    PROVE  /\ Ascending(ItemRuns, ClusterStart(FirstOf(1)), FreeFrom, ItemWhats)
           /\ Pieces(ItemRuns) = {p \in {ItemRun(k) : k \in Items} : IsPiece(p)}
  <1> DEFINE m == Len(contents)
             g == CHOOSE g : Itemised(g, m)
             a == ClusterStart(FirstOf(1))
             Good(k) == /\ Ascending(g[k], a, ClusterStart(FirstOf(k + 1)), ItemWhats)
                        /\ Pieces(g[k]) = {p \in {ItemRun(j) : j \in 1..k} : IsPiece(p)}
  <1>1. m \in Nat /\ m >= 1 /\ Items = 1..m  BY PlacedTree DEF Placed, Positive
  <1>2. Itemised(g, m)  BY <1>1, ItemisedExists
  <1>3. ItemRuns = g[m]  BY DEF ItemRuns, Itemised
  <1> HIDE DEF g, m
  <1>4. \A k \in 0..m : g[k] = IF k = 0 THEN << >> ELSE g[k - 1] \o Nonempty(ItemRun(k))
    BY <1>2 DEF Itemised
  <1>5. \A j \in 1..(m + 1) : \A i \in 1..j :
           ClusterStart(FirstOf(i)) \in Nat /\ ClusterStart(FirstOf(i)) <= ClusterStart(FirstOf(j))
    BY Clustered DEF m
  <1>6. \A j \in 1..(m + 1) : ClusterStart(FirstOf(j)) \in Nat /\ a <= ClusterStart(FirstOf(j))
    <2>1. \A j \in 1..(m + 1) : j \in 1..j /\ 1 \in 1..j  BY <1>1
    <2> QED  BY <2>1, <1>5
  <1>7. a \in Nat
    <2>1. 1 \in 1..(m + 1)  BY <1>1
    <2> QED  BY <2>1, <1>6
  <1> HIDE DEF a
  <1>8. Good(0)
    <2>1. g[0] = << >>  BY <1>1, <1>4
    <2>2. << >> \in Seq(Run(ItemWhats)) /\ DOMAIN << >> = {}  OBVIOUS
    <2>3. 1..0 = {}  OBVIOUS
    <2> QED  BY <2>1, <2>2, <2>3 DEF Ascending, Pieces
  <1>9. ASSUME NEW k \in 1..m, Good(k - 1) PROVE Good(k)
    <2>1. k \in 0..m /\ k # 0 /\ k \in 1..(m + 1) /\ k + 1 \in 1..(m + 1) /\ (k - 1) + 1 = k /\ k \in Items
          /\ k \in 1..(k + 1)
      BY <1>1
    <2>2. g[k] = g[k - 1] \o Nonempty(ItemRun(k))  BY <2>1, <1>4
    <2> DEFINE b == ClusterStart(FirstOf(k))
               d == ClusterStart(FirstOf(k + 1))
    <2>3. b \in Nat /\ d \in Nat /\ a <= b /\ b <= d  BY <2>1, <1>5, <1>6
    <2>4. /\ ItemRun(k) \in Run(ItemWhats) /\ b <= ItemRun(k).from /\ ItemRun(k).to <= d
      BY <2>1, ItemRunIs
    <2>5. Ascending(g[k - 1], a, b, ItemWhats)  BY <1>9, <2>1
    <2> HIDE DEF b, d
    <2>6. /\ Ascending(Nonempty(ItemRun(k)), b, d, ItemWhats)
          /\ Pieces(Nonempty(ItemRun(k))) = {q \in {ItemRun(k)} : IsPiece(q)}
      BY <2>3, <2>4, Single
    <2>7. b <= b  BY <2>3
    <2>8. /\ Ascending(g[k - 1] \o Nonempty(ItemRun(k)), a, d, ItemWhats)
          /\ Pieces(g[k - 1] \o Nonempty(ItemRun(k))) = Pieces(g[k - 1]) \cup Pieces(Nonempty(ItemRun(k)))
      BY <2>3, <2>5, <2>6, <2>7, <1>7, Joined
    <2>9. Pieces(g[k]) = {p \in {ItemRun(j) : j \in 1..k} : IsPiece(p)}
      <3>1. 1..k = 1..(k - 1) \cup {k}  BY <1>1
      <3>2. Pieces(g[k - 1]) = {p \in {ItemRun(j) : j \in 1..(k - 1)} : IsPiece(p)}  BY <1>9
      <3> QED  BY <3>1, <3>2, <2>2, <2>6, <2>8
    <2> QED  BY <2>2, <2>8, <2>9 DEF d
  <1>10. Good(m)
    <2> DEFINE T == {k \in 0..m : ~Good(k)}
    <2> HIDE DEF Good
    <2> SUFFICES ASSUME T # {} PROVE FALSE  BY <1>1
    <2>1. PICK k \in T : \A j \in T : k <= j
      <3>1. T \in SUBSET Nat  BY <1>1
      <3> HIDE DEF T
      <3> QED  BY <3>1, LeastOf
    <2>2. k # 0  BY <2>1, <1>8
    <2>3. k \in 1..m /\ k - 1 \in 0..m /\ ~(k <= k - 1)  BY <2>1, <2>2, <1>1
    <2>4. Good(k - 1)  BY <2>1, <2>3
    <2> QED  BY <2>1, <2>3, <2>4, <1>9
  <1>11. FreeFrom = ClusterStart(FirstOf(m + 1))  BY Ends DEF m
  <1> QED  BY <1>1, <1>3, <1>10, <1>11 DEF a

-----------------------------------------------------------------------------
\* What the stages cover.

Covers(runs, s, what) == \E p \in Pieces(runs) : s \in Sectors(p) /\ p.what = what
BodyWhats == {Zero, <<"table", 0>>, <<"bitmap", 0>>, <<"upcase", 0>>} \cup ItemWhats

\* A piece of ascending runs lies where they do.
LEMMA Inside ==
    ASSUME NEW r, NEW a \in Nat, NEW b \in Nat, NEW w, Ascending(r, a, b, w),
           NEW p \in Pieces(r)
    PROVE  p \in Run(w) /\ a <= p.from /\ p.from < p.to /\ p.to <= b /\ p.from \in Nat /\ p.to \in Nat
  <1>1. PICK i \in DOMAIN r : p = r[i]  BY DEF Pieces
  <1>2. r \in Seq(Run(w))  BY DEF Ascending
  <1>3. p \in Run(w)  BY <1>1, <1>2
  <1> QED  BY <1>1, <1>3 DEF Ascending, Run

LEMMA TableRunsFit ==
    ASSUME Placed
    PROVE  LET a == at.fat_offset
               b == at.fat_offset + Chained
           IN  /\ Ascending(TableRuns, a, b, {<<"table", 0>>})
               /\ \A s \in a..(b - 1) : Covers(TableRuns, s, <<"table", 0>>)
  <1> DEFINE batch == (TableBatchEntries * EntryBytes) \div S
             a == at.fat_offset
             b == at.fat_offset + Chained
             w == <<"table", 0>>
  <1>1. a \in Nat /\ b \in Nat /\ a <= b  BY Units, ChainedFits
  <1>2. batch \in Positive
    <2>1. TableBatchEntries * EntryBytes \in Positive  BY StagesAssumption DEF Positive, EntryBytes
    <2>2. S \in Positive /\ (TableBatchEntries * EntryBytes) % S = 0
      BY StagesAssumption, Units DEF Placed, S
    <2> QED  BY <2>1, <2>2, SomeUnits
  <1>3. TableRuns = Batches(a, b, batch, w)  BY DEF TableRuns, Chained
  <1> HIDE DEF batch, w
  <1>4. Ascending(TableRuns, a, b, {w})  BY <1>1, <1>2, <1>3, Batched
  <1>5. \A s \in a..(b - 1) : \E p \in Pieces(TableRuns) : s \in Sectors(p)
    BY <1>1, <1>2, <1>3, Batched
  <1> HIDE DEF a, b
  <1>6. \A p \in Pieces(TableRuns) : p.what = w
    BY <1>1, <1>4, Inside DEF Run
  <1>7. \A s \in a..(b - 1) : Covers(TableRuns, s, w)  BY <1>5, <1>6 DEF Covers
  <1> QED  BY <1>4, <1>7 DEF a, b, w

LEMMA BitmapRunsFit ==
    ASSUME Placed
    PROVE  LET a == at.cluster_heap_offset
               c == at.cluster_heap_offset + SectorsOf(at.bitmap_bytes)
           IN  /\ Ascending(BitmapRuns, a, c, {<<"bitmap", 0>>, Zero})
               /\ \A s \in a..(c - 1) :
                     Covers(BitmapRuns, s, IF s < a + Marked THEN <<"bitmap", 0>> ELSE Zero)
  <1> DEFINE batch == BitmapBatchBytes \div S
             a == at.cluster_heap_offset
             b == a + Marked
             c == a + SectorsOf(at.bitmap_bytes)
             w == <<"bitmap", 0>>
             last1 == Piece(b, c, Zero)
             r == Batches(a, b, batch, w)
             q == Nonempty(last1)
             v == {w, Zero}
  <1>1. a \in Nat /\ b \in Nat /\ c \in Nat /\ a <= b /\ b <= c
    BY Units, MarkedFirst, HeapPoints
  <1>2. batch \in Positive
    <2>1. BitmapBatchBytes \in Positive /\ S \in Positive /\ BitmapBatchBytes % S = 0
      BY StagesAssumption, Units DEF Placed, S
    <2> QED  BY <2>1, SomeUnits
  <1>3. BitmapRuns = r \o q
    BY HeapPoints DEF BitmapRuns, Marked
  <1> HIDE DEF batch, a, b, c, w
  <1>4. /\ Ascending(r, a, b, {w})
        /\ \A s \in a..(b - 1) : \E p \in Pieces(r) : s \in Sectors(p)
    BY <1>1, <1>2, Batched
  <1>5. last1.from = b /\ last1.to = c /\ last1.what = Zero /\ last1 \in Run(v)
    BY <1>1 DEF Piece, Run
  <1> HIDE DEF r, v, last1
  <1>6. Ascending(q, b, c, v) /\ Pieces(q) = {p \in {last1} : IsPiece(p)}
    <2>1. b <= last1.from /\ last1.to <= c  BY <1>1, <1>5
    <2> QED  BY <2>1, <1>1, <1>5, Single
  <1> HIDE DEF q
  <1>7. Ascending(r, a, b, v)
    <2>1. {w} \subseteq v  BY DEF v
    <2> QED  BY <2>1, <1>1, <1>4, Wider
  <1>8. Ascending(r \o q, a, c, v) /\ Pieces(r \o q) = Pieces(r) \cup Pieces(q)
    <2>1. b <= b  BY <1>1
    <2> QED  BY <2>1, <1>1, <1>6, <1>7, Joined
  <1>9. ASSUME NEW s \in a..(c - 1)
        PROVE  Covers(BitmapRuns, s, IF s < b THEN w ELSE Zero)
    <2>1. CASE s < b
      <3>1. s \in a..(b - 1)  BY <1>1, <2>1
      <3>2. PICK p \in Pieces(r) : s \in Sectors(p)  BY <3>1, <1>4
      <3>3. p.what = w  BY <1>1, <1>4, Inside DEF Run
      <3> QED  BY <3>2, <3>3, <1>3, <1>8, <2>1 DEF Covers
    <2>2. CASE ~(s < b)
      <3>1. b < c /\ s \in b..(c - 1)  BY <1>1, <2>2
      <3>2. IsPiece(last1) /\ s \in Sectors(last1)  BY <3>1, <1>5, <1>1 DEF IsPiece, Sectors
      <3>3. last1 \in Pieces(q)  BY <3>2, <1>6
      <3> QED  BY <3>2, <3>3, <1>3, <1>5, <1>8, <2>2 DEF Covers
    <2> QED  BY <2>1, <2>2
  <1> QED  BY <1>3, <1>8, <1>9 DEF a, b, c, v, w

LEMMA UpcaseRunsFit ==
    ASSUME Placed
    PROVE  LET a == ClusterStart(at.upcase_cluster)
               b == a + SectorsOf(UpcaseBytes)
           IN  /\ Ascending(UpcaseRuns, a, ClusterStart(FirstOf(1)), {<<"upcase", 0>>, Zero})
               /\ \A s \in a..(b - 1) : Covers(UpcaseRuns, s, <<"upcase", 0>>)
  <1> DEFINE a == ClusterStart(at.upcase_cluster)
             b == a + SectorsOf(UpcaseBytes)
             c == ClusterStart(FirstOf(1))
             w == <<"upcase", 0>>
             head1 == Piece(a, b, w)
             last1 == Piece(b, c, Zero)
             q == Nonempty(last1)
             v == {w, Zero}
  <1>1. a \in Nat /\ b \in Nat /\ c \in Nat /\ a < b /\ b <= c
    BY HeapPoints DEF Positive
  <1>2. c = a + DivCeil(UpcaseBytes, request.cluster) * Per  BY HeapPoints
  <1>3. UpcaseRuns = <<head1>> \o q  BY <1>2 DEF UpcaseRuns
  <1> HIDE DEF a, b, c, w
  <1>4. /\ last1.from = b /\ last1.to = c /\ last1 \in Run(v)
        /\ head1.from = a /\ head1.to = b /\ head1.what = w /\ head1 \in Run(v)
    BY <1>1 DEF Piece, Run
  <1> HIDE DEF v, last1, head1
  <1>5. Ascending(q, b, c, v)
    <2>1. b <= last1.from /\ last1.to <= c  BY <1>1, <1>4
    <2> QED  BY <2>1, <1>1, <1>4, Single
  <1> HIDE DEF q
  <1>6. Ascending(<<head1>>, a, b, v) /\ Pieces(<<head1>>) = {head1}
    <2>1. IsPiece(head1)  BY <1>1, <1>4 DEF IsPiece
    <2>2. Nonempty(head1) = <<head1>>  BY <2>1 DEF Nonempty
    <2>3. a <= head1.from /\ head1.to <= b  BY <1>1, <1>4
    <2>4. /\ Ascending(Nonempty(head1), a, b, v)
          /\ Pieces(Nonempty(head1)) = {p \in {head1} : IsPiece(p)}
      BY <2>3, <1>1, <1>4, Single
    <2> QED  BY <2>1, <2>2, <2>4
  <1>7. Ascending(<<head1>> \o q, a, c, v) /\ Pieces(<<head1>> \o q) = Pieces(<<head1>>) \cup Pieces(q)
    <2>1. b <= b /\ a <= b  BY <1>1
    <2> QED  BY <2>1, <1>1, <1>5, <1>6, Joined
  <1>8. \A s \in a..(b - 1) : Covers(UpcaseRuns, s, w)
    <2>1. head1 \in Pieces(UpcaseRuns)  BY <1>3, <1>6, <1>7
    <2>2. \A s \in a..(b - 1) : s \in Sectors(head1)  BY <1>4 DEF Sectors
    <2> QED  BY <2>1, <2>2, <1>4 DEF Covers
  <1> QED  BY <1>3, <1>7, <1>8 DEF a, b, c, v, w

LEMMA InvalidateRunsFit ==
    ASSUME Placed
    PROVE  /\ Ascending(InvalidateRuns, 0, AllSectors, {Zero})
           /\ \A s \in 0..(AllSectors - 1) :
                 s < at.cluster_heap_offset \/ s >= TailFrom => Covers(InvalidateRuns, s, Zero)
  <1> DEFINE a == at.cluster_heap_offset
             b == TailFrom
             c == AllSectors
             head1 == Piece(0, a, Zero)
             last1 == Piece(b, c, Zero)
  <1>1. /\ a \in Nat /\ b \in Nat /\ c \in Nat /\ a <= b /\ b <= c
    <2>1. /\ a \in Nat /\ at.volume_length \in Nat  BY Units
    <2>2. /\ c \in Nat /\ at.volume_length <= c  BY VolumeIsWhole
    <2>3. /\ FreeFrom \in Nat /\ a <= FreeFrom /\ b \in Nat /\ FreeFrom <= b /\ b <= HeapEnd
          /\ HeapEnd \in Nat /\ HeapEnd <= at.volume_length
      BY Ends
    <2> HIDE DEF a, b, c
    <2> QED  BY <2>1, <2>2, <2>3
  <1>2. InvalidateRuns = Nonempty(head1) \o Nonempty(last1)  BY DEF InvalidateRuns
  <1> HIDE DEF a, b, c
  <1>3. /\ head1 \in Run({Zero}) /\ head1.from = 0 /\ head1.to = a /\ head1.what = Zero
        /\ last1 \in Run({Zero}) /\ last1.from = b /\ last1.to = c /\ last1.what = Zero
    BY <1>1 DEF Piece, Run
  <1> HIDE DEF head1, last1
  <1>4. /\ Ascending(Nonempty(head1), 0, a, {Zero})
        /\ Pieces(Nonempty(head1)) = {p \in {head1} : IsPiece(p)}
    <2>1. 0 <= head1.from /\ head1.to <= a  BY <1>1, <1>3
    <2> QED  BY <2>1, <1>1, <1>3, Single
  <1>5. /\ Ascending(Nonempty(last1), b, c, {Zero})
        /\ Pieces(Nonempty(last1)) = {p \in {last1} : IsPiece(p)}
    <2>1. b <= last1.from /\ last1.to <= c  BY <1>1, <1>3
    <2> QED  BY <2>1, <1>1, <1>3, Single
  <1>6. /\ Ascending(InvalidateRuns, 0, c, {Zero})
        /\ Pieces(InvalidateRuns) = {p \in {head1, last1} : IsPiece(p)}
    <2>1. 0 \in Nat /\ 0 <= a  BY <1>1
    <2>2. /\ Ascending(Nonempty(head1) \o Nonempty(last1), 0, c, {Zero})
          /\ Pieces(Nonempty(head1) \o Nonempty(last1)) = Pieces(Nonempty(head1)) \cup Pieces(Nonempty(last1))
      BY <2>1, <1>1, <1>4, <1>5, Joined
    <2> QED  BY <2>2, <1>2, <1>4, <1>5
  <1>7. ASSUME NEW s \in 0..(c - 1), s < a \/ s >= b PROVE Covers(InvalidateRuns, s, Zero)
    <2>1. CASE s < a
      <3>1. IsPiece(head1) /\ s \in Sectors(head1)  BY <2>1, <1>1, <1>3 DEF IsPiece, Sectors
      <3> QED  BY <3>1, <1>3, <1>6 DEF Covers
    <2>2. CASE s >= b
      <3>1. IsPiece(last1) /\ s \in Sectors(last1)  BY <2>2, <1>1, <1>3 DEF IsPiece, Sectors
      <3> QED  BY <3>1, <1>3, <1>6 DEF Covers
    <2> QED  BY <2>1, <2>2, <1>7
  <1> QED  BY <1>6, <1>7 DEF a, b, c

LEMMA BodyRunsFit ==
    ASSUME Placed
    PROVE  /\ Ascending(BodyRuns, at.fat_offset, FreeFrom, BodyWhats)
           /\ Pieces(BodyRuns) = Pieces(TableRuns) \cup Pieces(BitmapRuns) \cup Pieces(UpcaseRuns) \cup Pieces(ItemRuns)
           /\ \A p \in Pieces(BodyRuns) :
                 p.to <= at.fat_offset + Chained \/ at.cluster_heap_offset <= p.from
  <1> DEFINE w == BodyWhats
             a == at.fat_offset
             b == at.fat_offset + Chained
             c == at.cluster_heap_offset
             d == at.cluster_heap_offset + SectorsOf(at.bitmap_bytes)
             e == ClusterStart(at.upcase_cluster)
             f == ClusterStart(FirstOf(1))
             g == FreeFrom
  <1>1. a \in Nat /\ b \in Nat /\ a <= b /\ b <= c /\ c \in Nat  BY Units, ChainedFits
  <1>2. d \in Nat /\ c <= d /\ d <= e /\ e \in Nat /\ e <= f /\ f \in Nat  BY <1>1, HeapPoints DEF Positive
  <1>3. f <= g /\ g \in Nat
    <2>1. Len(contents) + 1 \in 1..(Len(contents) + 1) /\ 1 \in 1..(Len(contents) + 1)
      BY PlacedTree DEF Placed, Positive
    <2>2. f <= ClusterStart(FirstOf(Len(contents) + 1))  BY <2>1, Clustered
    <2> QED  BY <2>2, Ends
  <1>4. Ascending(TableRuns, a, b, w)
    <2>1. Ascending(TableRuns, a, b, {<<"table", 0>>})  BY TableRunsFit
    <2>2. {<<"table", 0>>} \subseteq w  BY DEF BodyWhats
    <2> HIDE DEF a, b, w
    <2> QED  BY <2>1, <2>2, <1>1, Wider
  <1>5. Ascending(BitmapRuns, c, d, w)
    <2>1. Ascending(BitmapRuns, c, d, {<<"bitmap", 0>>, Zero})  BY BitmapRunsFit
    <2>2. {<<"bitmap", 0>>, Zero} \subseteq w  BY DEF BodyWhats
    <2> HIDE DEF c, d, w
    <2> QED  BY <2>1, <2>2, <1>1, <1>2, Wider
  <1>6. Ascending(UpcaseRuns, e, f, w)
    <2>1. Ascending(UpcaseRuns, e, f, {<<"upcase", 0>>, Zero})  BY UpcaseRunsFit
    <2>2. {<<"upcase", 0>>, Zero} \subseteq w  BY DEF BodyWhats
    <2> HIDE DEF e, f, w
    <2> QED  BY <2>1, <2>2, <1>2, Wider
  <1>7. Ascending(ItemRuns, f, g, w)
    <2>1. Ascending(ItemRuns, f, g, ItemWhats)  BY ItemRunsAscend
    <2>2. ItemWhats \subseteq w  BY DEF BodyWhats
    <2> HIDE DEF f, g, w
    <2> QED  BY <2>1, <2>2, <1>2, <1>3, Wider
  <1> DEFINE r1 == TableRuns \o BitmapRuns
             r2 == r1 \o UpcaseRuns
  <1>8. BodyRuns = r2 \o ItemRuns  BY DEF BodyRuns
  <1> HIDE DEF a, b, c, d, e, f, g, w
  <1>9. Ascending(r1, a, d, w) /\ Pieces(r1) = Pieces(TableRuns) \cup Pieces(BitmapRuns)
    BY <1>1, <1>2, <1>4, <1>5, Joined
  <1> HIDE DEF r1
  <1>10. Ascending(r2, a, f, w) /\ Pieces(r2) = Pieces(r1) \cup Pieces(UpcaseRuns)
    <2>1. a <= d  BY <1>1, <1>2
    <2> QED  BY <2>1, <1>1, <1>2, <1>6, <1>9, Joined
  <1> HIDE DEF r2
  <1>11. Ascending(r2 \o ItemRuns, a, g, w) /\ Pieces(r2 \o ItemRuns) = Pieces(r2) \cup Pieces(ItemRuns)
    <2>1. a <= f /\ f <= f  BY <1>1, <1>2
    <2> QED  BY <2>1, <1>1, <1>2, <1>3, <1>7, <1>10, Joined
  <1>12. Pieces(BodyRuns) = Pieces(TableRuns) \cup Pieces(BitmapRuns) \cup Pieces(UpcaseRuns) \cup Pieces(ItemRuns)
    BY <1>8, <1>9, <1>10, <1>11
  <1>13. ASSUME NEW p \in Pieces(BodyRuns) PROVE p.to <= b \/ c <= p.from
    <2>1. CASE p \in Pieces(TableRuns)  BY <2>1, <1>1, <1>4, Inside
    <2>2. CASE p \in Pieces(BitmapRuns)  BY <2>2, <1>1, <1>2, <1>5, Inside
    <2>3. CASE p \in Pieces(UpcaseRuns)
      <3>1. e <= p.from /\ p.from \in Nat  BY <2>3, <1>2, <1>6, Inside
      <3> QED  BY <3>1, <1>1, <1>2
    <2>4. CASE p \in Pieces(ItemRuns)
      <3>1. f <= p.from /\ p.from \in Nat  BY <2>4, <1>2, <1>3, <1>7, Inside
      <3> QED  BY <3>1, <1>1, <1>2
    <2> QED  BY <2>1, <2>2, <2>3, <2>4, <1>12
  <1>14. Ascending(BodyRuns, a, g, w)  BY <1>8, <1>11
  <1> QED  BY <1>12, <1>13, <1>14 DEF a, b, c, g, w

\* The body lays what a reader wants of every sector behind the boot regions, but for the zeros
\* before the heap, which it leaves alone.
Spared(s) == s < at.cluster_heap_offset /\ ~(at.fat_offset <= s /\ s < at.fat_offset + Chained)

LEMMA BodyLays ==
    ASSUME Placed, NEW s \in Nat, 2 * BootSectors <= s, NEW w \in Wanted(s)
    PROVE  Covers(BodyRuns, s, w) \/ (Spared(s) /\ w = Zero)
  <1> DEFINE heap == at.cluster_heap_offset
             table == at.fat_offset
             tend == at.fat_offset + Chained
             bend == at.cluster_heap_offset + SectorsOf(at.bitmap_bytes)
             up == ClusterStart(at.upcase_cluster)
             uend == ClusterStart(at.upcase_cluster) + SectorsOf(UpcaseBytes)
  <1>1. heap \in Nat /\ table \in Nat /\ Chained \in Nat /\ BootSectors \in Nat  BY Units, ChainedFits
  <1>2. ~(s < 2 * BootSectors)  BY <1>1
  <1>3. ASSUME NEW r, Covers(r, s, w), Pieces(r) \subseteq Pieces(BodyRuns)
        PROVE  Covers(BodyRuns, s, w)
    BY <1>3 DEF Covers
  <1>4. CASE s < heap
    <2>1. w = IF table <= s /\ (s - table) * S < (LastChained + 1) * EntryBytes
              THEN <<"table", 0>> ELSE Zero
      BY <1>2, <1>4 DEF Wanted
    <2>2. table <= s => (s - table \in Nat
                         /\ (s - table < Chained <=> (s - table) * S < (LastChained + 1) * EntryBytes))
      <3>1. table <= s => s - table \in Nat  BY <1>1
      <3> QED  BY <3>1, ChainedFits
    <2>3. CASE table <= s /\ s - table < Chained
      <3>1. w = <<"table", 0>>  BY <2>1, <2>2, <2>3
      <3>2. s \in table..(tend - 1)  BY <2>3, <1>1
      <3>3. Covers(TableRuns, s, <<"table", 0>>)  BY <3>2, TableRunsFit
      <3>4. Pieces(TableRuns) \subseteq Pieces(BodyRuns)  BY BodyRunsFit
      <3> QED  BY <3>1, <3>3, <3>4, <1>3
    <2>4. CASE ~(table <= s /\ s - table < Chained)
      <3>1. w = Zero  BY <2>1, <2>2, <2>4
      <3>2. ~(table <= s /\ s < tend)  BY <2>4, <1>1
      <3> QED  BY <3>1, <3>2, <1>4 DEF Spared
    <2> QED  BY <2>3, <2>4
  <1>5. CASE ~(s < heap) /\ InRun(s, at.bitmap_cluster, SectorsOf(at.bitmap_bytes))
    <2>1. w = IF (s - heap) * S * 8 < UsedClusters THEN <<"bitmap", 0>> ELSE Zero
      BY <1>2, <1>5, HeapPoints DEF Wanted
    <2>2. heap <= s /\ s < bend /\ bend \in Nat
      BY <1>1, <1>5, HeapPoints DEF InRun
    <2>3. s - heap \in Nat /\ Marked \in Nat  BY <1>1, <2>2, MarkedFirst
    <2>4. s - heap < Marked <=> (s - heap) * S * 8 < UsedClusters  BY <2>3, MarkedFirst
    <2>5. s < heap + Marked <=> s - heap < Marked  BY <1>1, <2>3
    <2>6. w = IF s < heap + Marked THEN <<"bitmap", 0>> ELSE Zero  BY <2>1, <2>4, <2>5
    <2>7. s \in heap..(bend - 1)  BY <2>2, <1>1
    <2>8. Covers(BitmapRuns, s, IF s < heap + Marked THEN <<"bitmap", 0>> ELSE Zero)
      BY <2>7, BitmapRunsFit
    <2>9. Pieces(BitmapRuns) \subseteq Pieces(BodyRuns)  BY BodyRunsFit
    <2>10. Covers(BitmapRuns, s, w)  BY <2>6, <2>8
    <2> QED  BY <2>9, <2>10, <1>3
  <1>6. CASE /\ ~(s < heap) /\ ~InRun(s, at.bitmap_cluster, SectorsOf(at.bitmap_bytes))
             /\ InRun(s, at.upcase_cluster, SectorsOf(UpcaseBytes))
    <2>1. w = <<"upcase", 0>>  BY <1>2, <1>6 DEF Wanted
    <2>2. up <= s /\ s < uend /\ up \in Nat /\ uend \in Nat
      BY <1>6, HeapPoints DEF InRun, Positive
    <2>3. s \in up..(uend - 1)  BY <2>2
    <2>4. Covers(UpcaseRuns, s, <<"upcase", 0>>)  BY <2>3, UpcaseRunsFit
    <2>5. Pieces(UpcaseRuns) \subseteq Pieces(BodyRuns)  BY BodyRunsFit
    <2> QED  BY <2>1, <2>4, <2>5, <1>3
  <1>7. CASE /\ ~(s < heap) /\ ~InRun(s, at.bitmap_cluster, SectorsOf(at.bitmap_bytes))
             /\ ~InRun(s, at.upcase_cluster, SectorsOf(UpcaseBytes))
    <2>1. PICK k \in Items : InRun(s, FirstOf(k), Length(k)) /\ w = <<"item", k>>
      BY <1>2, <1>7 DEF Wanted, Length
    <2> DEFINE c == ClusterStart(FirstOf(k))
    <2>2. c \in Nat /\ Length(k) \in Nat
      <3>1. k \in 1..(Len(contents) + 1) /\ k \in 1..k  BY PlacedTree DEF Placed, Positive
      <3> QED  BY <3>1, Clustered
    <2>3. c <= s /\ s < c + Length(k)  BY <2>1 DEF InRun
    <2>4. ItemRun(k) = [from |-> c, to |-> c + Length(k), what |-> w]  BY <2>1, ItemRunIs DEF Piece
    <2>5. Length(k) > 0  BY <2>2, <2>3
    <2>6. IsPiece(ItemRun(k))  BY <2>5, ItemRunIs
    <2> HIDE DEF c
    <2>7. s \in Sectors(ItemRun(k)) /\ ItemRun(k).what = w  BY <2>2, <2>3, <2>4 DEF Sectors
    <2>8. ItemRun(k) \in Pieces(BodyRuns)  BY <2>6, ItemRunsAscend, BodyRunsFit
    <2> QED  BY <2>7, <2>8 DEF Covers
  <1> QED  BY <1>4, <1>5, <1>6, <1>7

LEMMA BootRunsFit ==
    ASSUME NEW offset \in Nat, NEW from \in Nat, NEW to \in Nat, from <= to
    PROVE  LET end == offset + (to - from)
               r == BootRuns(offset, from, to)
           IN  /\ Ascending(r, offset, end, {<<"boot", k>> : k \in from..(to - 1)})
               /\ \A s \in offset..(end - 1) : Covers(r, s, <<"boot", from + (s - offset)>>)
  <1> DEFINE n == to - from
             r == BootRuns(offset, from, to)
             w == {<<"boot", k>> : k \in from..(to - 1)}
  <1>1. n \in Nat  OBVIOUS
  <1>2. DOMAIN r = 1..n /\ r \in [1..n -> {r[k] : k \in 1..n}]
        /\ \A k \in 1..n : r[k] = [from |-> offset + k - 1, to |-> offset + k, what |-> <<"boot", from + k - 1>>]
    BY DEF BootRuns, Piece
  <1> HIDE DEF r
  <1>3. ASSUME NEW k \in 1..n
        PROVE  r[k] \in Run(w) /\ r[k].from = offset + k - 1 /\ r[k].to = offset + k
               /\ r[k].what = <<"boot", from + k - 1>>
    <2>1. from + k - 1 \in from..(to - 1) /\ offset + k - 1 \in Nat /\ offset + k \in Nat  BY <1>1
    <2>2. <<"boot", from + k - 1>> \in w  BY <2>1
    <2> DEFINE x == offset + k - 1
               y == offset + k
               z == <<"boot", from + k - 1>>
    <2>3. r[k] = [from |-> x, to |-> y, what |-> z]  BY <1>2
    <2> HIDE DEF w, x, y, z
    <2>4. r[k] \in Run(w) /\ r[k].from = x /\ r[k].to = y /\ r[k].what = z
      BY <2>1, <2>2, <2>3 DEF Run, x, y, z
    <2> QED  BY <2>4 DEF x, y, z
  <1> HIDE DEF w
  <1>4. r \in Seq(Run(w))
    <2> DEFINE W == Run(w)
    <2>1. \A k \in 1..n : r[k] \in W  BY <1>3
    <2> HIDE DEF W
    <2>2. r \in [1..n -> W]  BY <2>1, <1>2
    <2>3. r \in Seq(W)  BY <2>2, <1>1
    <2> QED  BY <2>3 DEF W
  <1>5. Ascending(r, offset, offset + n, w)
    <2>1. \A i \in 1..n : offset <= r[i].from /\ r[i].from < r[i].to /\ r[i].to <= offset + n
      BY <1>1, <1>3
    <2>2. \A i, j \in 1..n : i < j => r[i].to <= r[j].from  BY <1>1, <1>3
    <2> QED  BY <1>2, <1>4, <2>1, <2>2 DEF Ascending
  <1>6. ASSUME NEW s \in offset..(offset + n - 1) PROVE Covers(r, s, <<"boot", from + (s - offset)>>)
    <2> DEFINE k == s - offset + 1
    <2>1. k \in 1..n  BY <1>1
    <2>2. r[k] \in Pieces(r)  BY <2>1, <1>2 DEF Pieces
    <2>3. r[k].from = offset + k - 1 /\ r[k].to = offset + k /\ r[k].what = <<"boot", from + k - 1>>
      BY <2>1, <1>3
    <2>4. offset + k - 1 = s /\ offset + k = s + 1 /\ from + k - 1 = from + (s - offset)  BY <1>1
    <2>5. s \in Sectors(r[k])  BY <2>3, <2>4 DEF Sectors
    <2>6. r[k].what = <<"boot", from + (s - offset)>>  BY <2>3, <2>4
    <2> QED  BY <2>2, <2>5, <2>6 DEF Covers
  <1> QED  BY <1>5, <1>6 DEF r, w

-----------------------------------------------------------------------------
\* What is due of each sector.

BootWhats == {<<"boot", k>> : k \in Nat}
Whats == BodyWhats \cup BootWhats

LEMMA WhatsAreNew ==
    /\ \A w \in Whats : w # Old
    /\ \A w \in BodyWhats : w # <<"boot", 0>> /\ w # Old
  <1>1. \A w \in BodyWhats : w # <<"boot", 0>> /\ w # Old
    BY DEF BodyWhats, ItemWhats, Zero, Old
  <1>2. \A w \in BootWhats : w # Old  BY DEF BootWhats, Old
  <1> QED  BY <1>1, <1>2 DEF Whats

\* From where on every sector is as a reader wants it, before a stage.
Behind(n) == IF n = 3 THEN 2 * BootSectors ELSE IF n = 4 THEN BootSectors ELSE IF n = 5 THEN 1 ELSE 0

\* What a sector holds before a stage, 6 being after the last.
Due(n, s) ==
    IF n = 2 THEN {v \in {Zero} : 2 * BootSectors <= s /\ Spared(s)}
    ELSE {v \in Wanted(s) : Behind(n) <= s}

LEMMA Stages == StageRuns(1) = InvalidateRuns /\ StageRuns(2) = BodyRuns
             /\ StageRuns(3) = BootRuns(BootSectors, 0, BootSectors)
             /\ StageRuns(4) = BootRuns(1, 1, BootSectors) /\ StageRuns(5) = BootRuns(0, 0, 1)
  BY DEF StageRuns

\* The runs of a stage ascend inside the volume, and leave alone what earlier stages settled.
LEMMA StageFits ==
    ASSUME Placed, NEW n \in 1..5
    PROVE  /\ Ascending(StageRuns(n), 0, AllSectors, Whats)
           /\ \A p \in Pieces(StageRuns(n)) :
                 /\ n >= 2 => \A s \in Sectors(p) : Due(n, s) = {}
                 /\ n < 5 /\ 0 \in Sectors(p) => p.what # <<"boot", 0>>
  <1> DEFINE B == BootSectors
             heap == at.cluster_heap_offset
             all == AllSectors
             fat1 == at.fat_offset
  <1>1. /\ B \in Nat /\ B >= 1 /\ 2 * B <= fat1 /\ fat1 \in Nat /\ Chained \in Nat
        /\ fat1 + Chained <= heap /\ heap \in Nat
    BY Units, ChainedFits
  <1>2. heap <= FreeFrom /\ FreeFrom \in Nat /\ FreeFrom <= all /\ all \in Nat /\ all >= 1
    BY Units, Ends, VolumeIsWhole
  <1>3. 2 * B <= all /\ heap <= all  BY <1>1, <1>2
  <1> HIDE DEF B, heap, all, fat1
  <1>4. CASE n = 1
    <2>1. Ascending(InvalidateRuns, 0, all, {Zero})  BY InvalidateRunsFit DEF all
    <2>2. {Zero} \subseteq Whats  BY DEF Whats, BodyWhats
    <2>3. Ascending(InvalidateRuns, 0, all, Whats)  BY <2>1, <2>2, <1>2, Wider
    <2>4. ASSUME NEW p \in Pieces(InvalidateRuns) PROVE p.what # <<"boot", 0>>
      <3>1. p.what = Zero  BY <2>1, <1>2, Inside DEF Run
      <3> QED  BY <3>1 DEF Zero
    <2> QED  BY <2>3, <2>4, <1>4, Stages DEF all
  <1>5. CASE n = 2
    <2>1. Ascending(BodyRuns, fat1, FreeFrom, BodyWhats)  BY BodyRunsFit DEF fat1
    <2>2. Ascending(BodyRuns, 0, all, Whats)
      <3>1. BodyWhats \subseteq Whats  BY DEF Whats
      <3>2. Ascending(BodyRuns, fat1, FreeFrom, Whats)  BY <2>1, <3>1, <1>1, <1>2, Wider
      <3>3. BodyRuns \in Seq(Run(Whats))  BY <3>2 DEF Ascending
      <3>4. ASSUME NEW i \in DOMAIN BodyRuns
            PROVE  0 <= BodyRuns[i].from /\ BodyRuns[i].from < BodyRuns[i].to /\ BodyRuns[i].to <= all
        <4>1. BodyRuns[i] \in Pieces(BodyRuns)  BY DEF Pieces
        <4>2. fat1 <= BodyRuns[i].from /\ BodyRuns[i].from < BodyRuns[i].to /\ BodyRuns[i].to <= FreeFrom
              /\ BodyRuns[i].from \in Nat /\ BodyRuns[i].to \in Nat
          BY <4>1, <3>2, <1>1, <1>2, Inside
        <4> QED  BY <4>2, <1>1, <1>2
      <3> QED  BY <3>2, <3>3, <3>4 DEF Ascending
    <2>3. ASSUME NEW p \in Pieces(BodyRuns), NEW s \in Sectors(p) PROVE Due(2, s) = {}
      <3>1. p.to <= fat1 + Chained \/ heap <= p.from  BY BodyRunsFit DEF fat1, heap
      <3>2. fat1 <= p.from /\ p.from \in Nat /\ p.to \in Nat  BY <2>1, <1>1, <1>2, Inside
      <3>3. s \in Nat /\ p.from <= s /\ s < p.to  BY <3>2 DEF Sectors
      <3>4. ~Spared(s)
        <4>1. (fat1 <= s /\ s < fat1 + Chained) \/ heap <= s  BY <3>1, <3>2, <3>3, <1>1
        <4> QED  BY <4>1, <3>3, <1>1 DEF Spared, fat1, heap
      <3> QED  BY <3>4 DEF Due
    <2>4. ASSUME NEW p \in Pieces(BodyRuns) PROVE p.what # <<"boot", 0>>
      <3>1. p.what \in BodyWhats  BY <2>1, <1>1, <1>2, Inside DEF Run
      <3> QED  BY <3>1, WhatsAreNew
    <2> QED  BY <2>2, <2>3, <2>4, <1>5, Stages DEF all
  <1>6. ASSUME NEW o \in Nat, NEW a \in Nat, NEW b \in Nat, a <= b, o + (b - a) <= all
        PROVE  /\ Ascending(BootRuns(o, a, b), 0, all, Whats)
               /\ \A p \in Pieces(BootRuns(o, a, b)) : \A s \in Sectors(p) :
                     s \in Nat /\ o <= s /\ s < o + (b - a)
    <2> DEFINE e == o + (b - a)
               r == BootRuns(o, a, b)
               v == {<<"boot", k>> : k \in a..(b - 1)}
    <2>0. Ascending(r, o, e, v)  BY <1>6, BootRunsFit
    <2>1. Ascending(r, o, e, v) /\ e \in Nat /\ e <= all
      <3>1. e \in Nat /\ e <= all  BY <1>6
      <3> QED  BY <2>0, <3>1
    <2>2. v \subseteq Whats
      <3>1. a..(b - 1) \subseteq Nat  OBVIOUS
      <3> QED  BY <3>1 DEF Whats, BootWhats
    <2> HIDE DEF r, v, e
    <2>3. Ascending(r, o, e, Whats)  BY <2>1, <2>2, Wider
    <2>4. ASSUME NEW i \in DOMAIN r
          PROVE  0 <= r[i].from /\ r[i].from < r[i].to /\ r[i].to <= all
      <3>1. r[i] \in Pieces(r)  BY DEF Pieces
      <3>2. o <= r[i].from /\ r[i].from < r[i].to /\ r[i].to <= e /\ r[i].from \in Nat /\ r[i].to \in Nat
        BY <3>1, <2>1, <2>3, Inside
      <3> QED  BY <3>2, <2>1, <1>2
    <2>5. Ascending(r, 0, all, Whats)  BY <2>3, <2>4 DEF Ascending
    <2>6. ASSUME NEW p \in Pieces(r), NEW s \in Sectors(p) PROVE s \in Nat /\ o <= s /\ s < e
      <3>1. o <= p.from /\ p.to <= e /\ p.from \in Nat /\ p.to \in Nat  BY <2>1, <2>3, Inside
      <3> QED  BY <3>1, <2>1 DEF Sectors
    <2> QED  BY <2>5, <2>6 DEF r, e
  <1>7. ASSUME NEW s \in Nat, NEW m \in {3, 4, 5}, s < Behind(m) PROVE Due(m, s) = {}
    <2>1. Behind(m) \in Nat  BY <1>1 DEF Behind, B
    <2> QED  BY <2>1, <1>7 DEF Due
  <1>8. CASE n = 3
    <2>1. B + (B - 0) <= all /\ 0 \in Nat /\ 0 <= B /\ B + (B - 0) = 2 * B  BY <1>1, <1>3
    <2>2. /\ Ascending(BootRuns(B, 0, B), 0, all, Whats)
          /\ \A p \in Pieces(BootRuns(B, 0, B)) : \A s \in Sectors(p) : s \in Nat /\ B <= s /\ s < 2 * B
      BY <2>1, <1>1, <1>6
    <2>3. Behind(3) = 2 * B  BY DEF Behind, B
    <2>4. \A p \in Pieces(BootRuns(B, 0, B)) : \A s \in Sectors(p) : Due(3, s) = {} /\ s # 0
      BY <2>2, <2>3, <1>1, <1>7
    <2> QED  BY <2>2, <2>4, <1>8, Stages DEF all, B
  <1>9. CASE n = 4
    <2>1. 1 + (B - 1) <= all /\ 1 \in Nat /\ 1 <= B /\ 1 + (B - 1) = B  BY <1>1, <1>2, <1>3
    <2>2. /\ Ascending(BootRuns(1, 1, B), 0, all, Whats)
          /\ \A p \in Pieces(BootRuns(1, 1, B)) : \A s \in Sectors(p) : s \in Nat /\ 1 <= s /\ s < B
      BY <2>1, <1>1, <1>6
    <2>3. Behind(4) = B  BY DEF Behind, B
    <2>4. \A p \in Pieces(BootRuns(1, 1, B)) : \A s \in Sectors(p) : Due(4, s) = {} /\ s # 0
      BY <2>2, <2>3, <1>7
    <2> QED  BY <2>2, <2>4, <1>9, Stages DEF all, B
  <1>10. CASE n = 5
    <2>1. 0 + (1 - 0) <= all /\ 0 \in Nat /\ 1 \in Nat /\ 0 <= 1 /\ 0 + (1 - 0) = 1  BY <1>2
    <2>2. /\ Ascending(BootRuns(0, 0, 1), 0, all, Whats)
          /\ \A p \in Pieces(BootRuns(0, 0, 1)) : \A s \in Sectors(p) : s \in Nat /\ 0 <= s /\ s < 1
      BY <2>1, <1>6
    <2>3. Behind(5) = 1  BY DEF Behind
    <2>4. \A p \in Pieces(BootRuns(0, 0, 1)) : \A s \in Sectors(p) : Due(5, s) = {}
      BY <2>2, <2>3, <1>7
    <2> QED  BY <2>2, <2>4, <1>10, Stages DEF all
  <1> QED  BY <1>4, <1>5, <1>8, <1>9, <1>10

\* A boot region's sectors, main or backup, are numbered alike.
LEMMA WantedOfBoot ==
    ASSUME Placed, NEW s \in Nat, s < 2 * BootSectors
    PROVE  Wanted(s) = {<<"boot", IF s < BootSectors THEN s ELSE s - BootSectors>>}
  <1> DEFINE B == BootSectors
  <1>1. B \in Nat /\ B >= 1  BY Units
  <1>2. Wanted(s) = {<<"boot", s % B>>}  BY DEF Wanted
  <1> HIDE DEF B
  <1>3. s % B = IF s < B THEN s ELSE s - B
    <2> DEFINE q == s \div B
               x == s % B
    <2>1. s = q * B + x /\ x \in Nat /\ x < B /\ q \in Nat
      <3>1. B \in Positive  BY <1>1 DEF Positive
      <3>2. q \in Nat /\ x \in 0..(B - 1) /\ s = B * q + x  BY <1>1
      <3> HIDE DEF q, x
      <3>3. B * q = q * B  BY <1>1, <3>2
      <3> QED  BY <3>2, <3>3, <1>1
    <2> HIDE DEF q, x
    <2>2. s < 2 * B  BY DEF B
    <2>3. q = 0 \/ q = 1
      <3>1. SUFFICES ASSUME q >= 2 PROVE FALSE  BY <2>1
      <3>2. 2 * B <= q * B  BY <3>1, <2>1, <1>1, Larger
      <3>3. q * B \in Nat  BY <2>1, <1>1
      <3> QED  BY <3>2, <3>3, <2>1, <2>2, <1>1
    <2>4. CASE q = 0
      <3>1. s = x  BY <2>1, <2>4, <1>1
      <3> QED  BY <3>1, <2>1 DEF x
    <2>5. CASE q = 1
      <3>1. s = B + x  BY <2>1, <2>5, <1>1
      <3>2. x = s - B /\ ~(s < B)  BY <3>1, <2>1, <1>1
      <3> QED  BY <3>2 DEF x
    <2> QED  BY <2>3, <2>4, <2>5
  <1> QED  BY <1>2, <1>3 DEF B

\* A boot region's sectors are laid one by one.
LEMMA BootRunsLay ==
    ASSUME NEW offset \in Nat, NEW from \in Nat, NEW to \in Nat, from <= to,
           NEW s \in Nat, offset <= s, NEW k, k = from + (s - offset), k < to
    PROVE  Covers(BootRuns(offset, from, to), s, <<"boot", k>>)
  <1> DEFINE end == offset + (to - from)
             r == BootRuns(offset, from, to)
  <1>1. \A t \in offset..(end - 1) : Covers(r, t, <<"boot", from + (t - offset)>>)  BY BootRunsFit
  <1>2. s \in offset..(end - 1)  OBVIOUS
  <1> HIDE DEF end, r
  <1>3. Covers(r, s, <<"boot", from + (s - offset)>>)  BY <1>1, <1>2
  <1> QED  BY <1>3 DEF r

\* What is due after a stage is laid by it or was due before it.
LEMMA StageLays ==
    ASSUME Placed, NEW n \in 1..5, NEW s \in 0..(AllSectors - 1), NEW v \in Due(n + 1, s)
    PROVE  Covers(StageRuns(n), s, v) \/ (n >= 2 /\ v \in Due(n, s))
  <1> DEFINE B == BootSectors
  <1>1. B \in Nat /\ B >= 1 /\ s \in Nat  BY Units, VolumeIsWhole
  <1>2. CASE n = 1
    <2>1. v = Zero /\ s < at.cluster_heap_offset  BY <1>2 DEF Due, Spared
    <2> QED  BY <2>1, <1>2, InvalidateRunsFit, Stages
  <1>3. CASE n = 2
    <2>1. v \in Wanted(s) /\ 2 * BootSectors <= s  BY <1>3 DEF Due, Behind
    <2>2. Covers(BodyRuns, s, v) \/ (Spared(s) /\ v = Zero)  BY <2>1, <1>1, BodyLays
    <2> QED  BY <2>1, <2>2, <1>3, Stages DEF Due
  <1>4. ASSUME NEW m \in {3, 4, 5}, NEW w \in Wanted(s), Behind(m) <= s PROVE w \in Due(m, s)
    BY <1>4 DEF Due
  <1>5. CASE n = 3
    <2>1. v \in Wanted(s) /\ B <= s  BY <1>5 DEF Due, Behind
    <2>2. CASE 2 * B <= s
      <3>1. v \in Due(3, s)  BY <2>1, <2>2, <1>4 DEF Behind
      <3> QED  BY <3>1, <1>5
    <2>3. CASE ~(2 * B <= s)
      <3>1. s < 2 * BootSectors /\ ~(s < BootSectors)  BY <1>1, <2>1, <2>3
      <3>2. v = <<"boot", s - B>>  BY <3>1, <1>1, <2>1, WantedOfBoot
      <3> DEFINE k == s - B
      <3>3. B <= s /\ k = 0 + (s - B) /\ k < B /\ 0 \in Nat /\ 0 <= B  BY <3>1, <1>1
      <3> HIDE DEF k, B
      <3>4. Covers(BootRuns(B, 0, B), s, <<"boot", k>>)  BY <3>3, <1>1, BootRunsLay
      <3> USE DEF k, B
      <3> QED  BY <3>2, <3>3, <3>4, <1>5, Stages
    <2> QED  BY <2>2, <2>3
  <1>6. CASE n = 4
    <2>1. v \in Wanted(s) /\ 1 <= s  BY <1>6 DEF Due, Behind
    <2>2. CASE B <= s
      <3>1. v \in Due(4, s)  BY <2>1, <2>2, <1>4 DEF Behind
      <3> QED  BY <3>1, <1>6
    <2>3. CASE ~(B <= s)
      <3>1. s < 2 * BootSectors /\ s < BootSectors  BY <1>1, <2>1, <2>3
      <3>2. v = <<"boot", s>>  BY <3>1, <1>1, <2>1, WantedOfBoot
      <3>3. s = 1 + (s - 1) /\ s < B /\ 1 \in Nat /\ 1 <= B  BY <2>1, <3>1, <1>1
      <3>4. Covers(BootRuns(1, 1, B), s, <<"boot", s>>)  BY <3>3, <2>1, <1>1, BootRunsLay
      <3> QED  BY <3>2, <3>3, <3>4, <1>6, Stages
    <2> QED  BY <2>2, <2>3
  <1>7. CASE n = 5
    <2>1. v \in Wanted(s)  BY <1>7 DEF Due
    <2>2. CASE 1 <= s
      <3>1. v \in Due(5, s)  BY <2>1, <2>2, <1>4 DEF Behind
      <3> QED  BY <3>1, <1>7
    <2>3. CASE ~(1 <= s)
      <3>1. s = 0 /\ s < 2 * BootSectors /\ s < BootSectors  BY <1>1, <2>3
      <3>2. v = <<"boot", s>>  BY <3>1, <1>1, <2>1, WantedOfBoot
      <3>3. s = 0 + (s - 0) /\ s < 1 /\ 0 <= s /\ 0 \in Nat /\ 1 \in Nat /\ 0 <= 1  BY <3>1, <1>1
      <3>4. Covers(BootRuns(0, 0, 1), s, <<"boot", s>>)  BY <3>3, <1>1, BootRunsLay
      <3> QED  BY <3>2, <3>3, <3>4, <1>7, Stages
    <2> QED  BY <2>2, <2>3
  <1> QED  BY <1>2, <1>3, <1>5, <1>6, <1>7

-----------------------------------------------------------------------------
\* What holds while a volume is written.

\* The stage every earlier one of which is durable.
Reached == IF status = "done" THEN LastStage + 1 ELSE stage

\* The disk: once the first stage is durable nothing before the heap or at the free end is as
\* it was, what is due of a sector is there, and a main boot sector is the last thing down.
OnDisk ==
    /\ DOMAIN disk = 0..(AllSectors - 1)
    /\ Reached > 1 => \A s \in DOMAIN disk :
          /\ s < at.cluster_heap_offset \/ s >= TailFrom => disk[s] # Old
          /\ \A v \in Due(Reached, s) : disk[s] = v
    /\ status \in {"writing", "failed"} => disk[0] # <<"boot", 0>>
    /\ status = "lost" /\ disk[0] = <<"boot", 0>> => Whole

\* The cache holds pieces of this stage only, but for the zero that made the destination long.
InCache ==
    \A s \in DOMAIN cache :
        /\ s \in 0..(AllSectors - 1)
        /\ Covers(StageRuns(stage), s, cache[s]) \/ (stage = 1 /\ cache[s] = <<"cut", 0>>)

\* The pieces not yet to come are in the cache as they were laid.
Laid ==
    LET runs == StageRuns(stage)
        laid == Len(runs) - Len(todo)
    IN  /\ todo \in Seq(Run(Whats)) /\ laid \in Nat
        /\ \A k \in DOMAIN todo : todo[k] = runs[laid + k]
        /\ \A i \in 1..laid : \A s \in Sectors(runs[i]) : s \in DOMAIN cache /\ cache[s] = runs[i].what

Untouched ==
    /\ stage = 0 /\ disk = [s \in 0..(AllSectors - 1) |-> Old] /\ cache = NoWrites
    /\ status = "asked" => layout = Unplanned
    /\ status = "planned" => Placed

StagesInv ==
    /\ request \in Requests /\ contents \in Trees
    /\ \/ status \in {"asked", "planned", "refused"} /\ Untouched
       \/ /\ status \in {"writing", "failed", "lost", "done"} /\ Placed /\ stage \in 1..LastStage
          /\ OnDisk /\ InCache
          /\ status = "writing" => Laid
          /\ status = "done" => stage = LastStage

-----------------------------------------------------------------------------
\* Nothing but a plan changes where things are to go.
LEMMA Frozen ==
    ASSUME request' = request, layout' = layout, contents' = contents
    PROVE  /\ Placed => Placed'
           /\ AllSectors' = AllSectors /\ TailFrom' = TailFrom /\ at' = at
           /\ \A s : Wanted(s)' = Wanted(s)
           /\ \A n : stage' = n => StageRuns(stage)' = StageRuns(n)
           /\ \A n, s : Reached' = n => Due(Reached, s)' = Due(n, s)
  <1>1. at' = at /\ S' = S /\ Per' = Per /\ AllSectors' = AllSectors /\ Items' = Items
    BY DEF at, S, Per, AllSectors, SectorsOf, SectorsPerCluster, Items
  <1>2. ASSUME NEW b PROVE SectorsOf(b)' = SectorsOf(b)  BY <1>1 DEF SectorsOf
  <1>3. ASSUME NEW i PROVE Need(i)' = Need(i)  BY DEF Need
  <1>4. ASSUME NEW l, NEW k PROVE FirstIn(l, k)' = FirstIn(l, k)  BY DEF FirstIn, Need
  <1>5. ASSUME NEW k PROVE ClusterStart(k)' = ClusterStart(k)  BY <1>1 DEF ClusterStart
  <1>6. ASSUME NEW k PROVE FirstOf(k)' = FirstOf(k)  BY <1>1 DEF FirstOf, FirstIn, Need
  <1>7. UsedClusters' = UsedClusters  BY <1>1 DEF UsedClusters, UsedIn, FirstIn, Need
  <1>8. /\ FreeFrom' = FreeFrom /\ HeapEnd' = HeapEnd /\ BeforeTail' = BeforeTail
        /\ LastChained' = LastChained
    BY <1>1, <1>7 DEF FreeFrom, HeapEnd, BeforeTail, LastChained, Need
  <1>9. TailFrom' = TailFrom  BY <1>8 DEF TailFrom
  <1>10. Placed => Placed'  BY <1>1, <1>7 DEF Placed
  <1>11. InvalidateRuns' = InvalidateRuns  BY <1>1, <1>9 DEF InvalidateRuns
  <1>12. TableRuns' = TableRuns  BY <1>1, <1>8 DEF TableRuns, SectorsOf
  <1>13. BitmapRuns' = BitmapRuns  BY <1>1, <1>7 DEF BitmapRuns, ClusterStart, SectorsOf
  <1>14. UpcaseRuns' = UpcaseRuns  BY <1>1 DEF UpcaseRuns, ClusterStart, SectorsOf
  <1>15. ItemRuns' = ItemRuns
    BY <1>1 DEF ItemRuns, ItemRun, ClusterStart, FirstOf, FirstIn, Need, SectorsOf
  <1>16. BodyRuns' = BodyRuns  BY <1>12, <1>13, <1>14, <1>15 DEF BodyRuns
  <1>17. ASSUME NEW s PROVE Wanted(s)' = Wanted(s)
    BY <1>1, <1>7, <1>8
       DEF Wanted, InRun, ClusterStart, FirstOf, FirstIn, Need, SectorsOf
  <1>18. ASSUME NEW n, stage' = n PROVE StageRuns(stage)' = StageRuns(n)
    BY <1>11, <1>16, <1>18 DEF StageRuns
  <1>19. ASSUME NEW s PROVE Spared(s)' = Spared(s)  BY <1>1, <1>8 DEF Spared, Chained, SectorsOf
  <1>20. ASSUME NEW n, NEW s, Reached' = n PROVE Due(Reached, s)' = Due(n, s)
    BY <1>17, <1>19, <1>20 DEF Due, Behind
  <1> QED  BY <1>1, <1>9, <1>10, <1>17, <1>18, <1>20

-----------------------------------------------------------------------------
\* The piece at hand is one of the stage's, and shares no sector with one laid.
LEMMA AtHand ==
    ASSUME Placed, stage \in 1..LastStage, Laid, todo # << >>
    PROVE  LET runs == StageRuns(stage)
               laid == Len(runs) - Len(todo)
           IN  /\ laid \in Nat /\ laid + 1 \in DOMAIN runs
               /\ Head(todo) = runs[laid + 1] /\ Head(todo) \in Pieces(runs)
               /\ Sectors(Head(todo)) \subseteq 0..(AllSectors - 1)
               /\ \A i \in 1..laid : i \in DOMAIN runs /\ Sectors(runs[i]) \cap Sectors(Head(todo)) = {}
               /\ Tail(todo) \in Seq(Run(Whats)) /\ Len(runs) - Len(Tail(todo)) = laid + 1
               /\ \A k \in DOMAIN Tail(todo) : Tail(todo)[k] = runs[laid + 1 + k]
  <1> DEFINE runs == StageRuns(stage)
             laid == Len(runs) - Len(todo)
             w == Run(Whats)
             p == Head(todo)
  <1>1. Ascending(runs, 0, AllSectors, Whats)  BY StageFits DEF LastStage
  <1>2. runs \in Seq(w) /\ todo \in Seq(w) /\ laid \in Nat
        /\ \A k \in DOMAIN todo : todo[k] = runs[laid + k]
    BY <1>1 DEF Ascending, Laid
  <1> HIDE DEF runs, w
  <1>3. /\ Len(todo) \in Nat /\ Len(todo) >= 1 /\ Len(runs) \in Nat /\ DOMAIN runs = 1..Len(runs)
        /\ DOMAIN todo = 1..Len(todo) /\ p = todo[1]
    BY <1>2
  <1>4. laid + 1 \in DOMAIN runs /\ p = runs[laid + 1]  BY <1>2, <1>3
  <1>5. p \in Pieces(runs)  BY <1>4 DEF Pieces
  <1>6. /\ Tail(todo) \in Seq(w) /\ DOMAIN Tail(todo) = 1..(Len(todo) - 1)
        /\ Len(Tail(todo)) = Len(todo) - 1
        /\ \A k \in 1..(Len(todo) - 1) : Tail(todo)[k] = todo[k + 1]
    BY <1>2, <1>3
  <1>7. Len(runs) - Len(Tail(todo)) = laid + 1  BY <1>3, <1>6
  <1>8. ASSUME NEW k \in DOMAIN Tail(todo) PROVE Tail(todo)[k] = runs[laid + 1 + k]
    <2>1. k + 1 \in DOMAIN todo /\ Tail(todo)[k] = todo[k + 1]  BY <1>3, <1>6
    <2>2. todo[k + 1] = runs[laid + (k + 1)]  BY <2>1, <1>2
    <2>3. laid + (k + 1) = laid + 1 + k  BY <1>2, <1>3, <1>6
    <2> QED  BY <2>1, <2>2, <2>3
  <1>9. AllSectors \in Nat  BY VolumeIsWhole
  <1>10. 0 <= p.from /\ p.to <= AllSectors /\ p.from \in Nat /\ p.to \in Nat
    BY <1>1, <1>5, <1>9, Inside
  <1>11. Sectors(p) \subseteq 0..(AllSectors - 1)  BY <1>9, <1>10 DEF Sectors
  <1>12. ASSUME NEW i \in 1..laid PROVE i \in DOMAIN runs /\ Sectors(runs[i]) \cap Sectors(p) = {}
    <2>1. i \in DOMAIN runs /\ i < laid + 1  BY <1>2, <1>3
    <2>2. runs[i].to <= p.from  BY <2>1, <1>4, <1>1 DEF Ascending
    <2>3. runs[i] \in Pieces(runs)  BY <2>1 DEF Pieces
    <2>4. runs[i].to \in Nat /\ runs[i].from \in Nat  BY <2>3, <1>1, <1>9, Inside
    <2> QED  BY <2>1, <2>2, <2>4, <1>10 DEF Sectors
  <1> QED  BY <1>2, <1>4, <1>5, <1>6, <1>7, <1>8, <1>11, <1>12 DEF runs, w

\* What holds of the disk holds whatever of the cache reaches it.
LEMMA AnyReaches ==
    ASSUME Placed, stage \in 1..LastStage, OnDisk, InCache, status \in {"writing", "failed"},
           NEW w, DOMAIN w \subseteq DOMAIN cache, \A s \in DOMAIN w : w[s] = cache[s]
    PROVE  LET d == Overlaid(disk, w)
           IN  /\ DOMAIN d = 0..(AllSectors - 1)
               /\ \A s \in DOMAIN w : s \in DOMAIN d /\ d[s] = cache[s] /\ d[s] # Old
               /\ \A s \in DOMAIN d \ DOMAIN w : d[s] = disk[s]
               /\ stage > 1 => \A s \in DOMAIN d :
                     /\ s < at.cluster_heap_offset \/ s >= TailFrom => d[s] # Old
                     /\ \A v \in Due(stage, s) : s \notin DOMAIN cache /\ d[s] = v
               /\ stage < LastStage => d[0] # <<"boot", 0>>
  <1> DEFINE d == Overlaid(disk, w)
             runs == StageRuns(stage)
  <1>0. Reached = stage /\ stage \in 1..5  BY DEF Reached, LastStage
  <1>1. DOMAIN disk = 0..(AllSectors - 1)  BY DEF OnDisk
  <1>2. disk[0] # <<"boot", 0>>  BY DEF OnDisk
  <1>3. stage > 1 => \A s \in DOMAIN disk :
            /\ s < at.cluster_heap_offset \/ s >= TailFrom => disk[s] # Old
            /\ \A v \in Due(stage, s) : disk[s] = v
    BY <1>0 DEF OnDisk
  <1>4. \A s \in DOMAIN cache : /\ s \in 0..(AllSectors - 1)
                                /\ Covers(runs, s, cache[s]) \/ (stage = 1 /\ cache[s] = <<"cut", 0>>)
    BY DEF InCache
  <1>5. /\ Ascending(runs, 0, AllSectors, Whats)
        /\ \A p \in Pieces(runs) : /\ stage >= 2 => \A s \in Sectors(p) : Due(stage, s) = {}
                                   /\ stage < 5 /\ 0 \in Sectors(p) => p.what # <<"boot", 0>>
    BY <1>0, StageFits
  <1> HIDE DEF runs
  <1>6. AllSectors \in Nat /\ AllSectors >= 1  BY VolumeIsWhole
  <1>7. ASSUME NEW s \in DOMAIN cache
        PROVE  /\ cache[s] # Old
               /\ stage > 1 => Due(stage, s) = {}
               /\ stage < 5 /\ s = 0 => cache[s] # <<"boot", 0>>
    <2>1. CASE stage = 1 /\ cache[s] = <<"cut", 0>>  BY <2>1 DEF Old
    <2>2. CASE Covers(runs, s, cache[s])
      <3>1. PICK p \in Pieces(runs) : s \in Sectors(p) /\ p.what = cache[s]  BY <2>2 DEF Covers
      <3>2. p.what \in Whats  BY <1>5, <1>6, Inside DEF Run
      <3>3. cache[s] # Old  BY <3>1, <3>2, WhatsAreNew
      <3>4. stage > 1 => stage >= 2  BY <1>0
      <3> QED  BY <3>1, <3>3, <3>4, <1>5
    <2> QED  BY <2>1, <2>2, <1>4
  <1>8. DOMAIN d = 0..(AllSectors - 1)
        /\ \A s \in DOMAIN d : d[s] = IF s \in DOMAIN w THEN w[s] ELSE disk[s]
    <2>1. DOMAIN d = DOMAIN disk  BY DEF Overlaid
    <2>2. \A s \in DOMAIN disk : d[s] = IF s \in DOMAIN w THEN w[s] ELSE disk[s]  BY DEF Overlaid
    <2> QED  BY <2>1, <2>2, <1>1
  <1> HIDE DEF d
  <1>9. ASSUME NEW s \in DOMAIN w PROVE s \in DOMAIN d /\ d[s] = cache[s] /\ d[s] # Old
    BY <1>4, <1>7, <1>8
  <1>10. ASSUME NEW s \in DOMAIN d \ DOMAIN w PROVE d[s] = disk[s]  BY <1>8
  <1>11. ASSUME stage > 1, NEW s \in DOMAIN d
        PROVE  /\ s < at.cluster_heap_offset \/ s >= TailFrom => d[s] # Old
               /\ \A v \in Due(stage, s) : s \notin DOMAIN cache /\ d[s] = v
    <2>1. CASE s \in DOMAIN w  BY <2>1, <1>7, <1>9, <1>11
    <2>2. CASE s \notin DOMAIN w
      <3>1. d[s] = disk[s] /\ s \in DOMAIN disk  BY <2>2, <1>1, <1>8
      <3>2. \A v \in Due(stage, s) : s \notin DOMAIN cache  BY <1>7, <1>11
      <3> QED  BY <3>1, <3>2, <1>3, <1>11
    <2> QED  BY <2>1, <2>2
  <1>12. ASSUME stage < LastStage PROVE d[0] # <<"boot", 0>>
    <2>1. 0 \in DOMAIN d /\ stage < 5  BY <1>6, <1>8, <1>12 DEF LastStage
    <2>2. CASE 0 \in DOMAIN w
      <3>1. d[0] = cache[0] /\ 0 \in DOMAIN cache  BY <2>2, <1>9
      <3> QED  BY <3>1, <2>1, <1>7
    <2>3. CASE 0 \notin DOMAIN w
      <3>1. d[0] = disk[0]  BY <2>1, <2>3, <1>8
      <3> QED  BY <3>1, <1>2
    <2> QED  BY <2>2, <2>3
  <1> QED  BY <1>8, <1>9, <1>10, <1>11, <1>12 DEF d

\* A stage that is flushed leaves what is due after it.
LEMMA StageEnds ==
    ASSUME Placed, stage \in 1..LastStage, OnDisk, InCache, status = "writing", Laid, todo = << >>
    PROVE  LET d == Overlaid(disk, cache)
           IN  /\ DOMAIN d = 0..(AllSectors - 1)
               /\ \A s \in DOMAIN d :
                     /\ s < at.cluster_heap_offset \/ s >= TailFrom => d[s] # Old
                     /\ \A v \in Due(stage + 1, s) : d[s] = v
               /\ stage < LastStage => d[0] # <<"boot", 0>>
  <1> DEFINE d == Overlaid(disk, cache)
             runs == StageRuns(stage)
  <1>0. stage \in 1..5  BY DEF LastStage
  <1>1. /\ DOMAIN d = 0..(AllSectors - 1)
        /\ \A s \in DOMAIN cache : s \in DOMAIN d /\ d[s] = cache[s] /\ d[s] # Old
        /\ stage > 1 => \A s \in DOMAIN d :
              /\ s < at.cluster_heap_offset \/ s >= TailFrom => d[s] # Old
              /\ \A v \in Due(stage, s) : d[s] = v
        /\ stage < LastStage => d[0] # <<"boot", 0>>
    BY AnyReaches
  <1>2. \A i \in DOMAIN runs : \A s \in Sectors(runs[i]) : s \in DOMAIN cache /\ cache[s] = runs[i].what
    <2>1. runs \in Seq(Run(Whats))  BY <1>0, StageFits DEF Ascending
    <2>2. Len(runs) \in Nat /\ DOMAIN runs = 1..Len(runs)  BY <2>1
    <2>3. Len(todo) = 0  OBVIOUS
    <2>4. \A i \in 1..(Len(runs) - Len(todo)) : \A s \in Sectors(runs[i]) :
             s \in DOMAIN cache /\ cache[s] = runs[i].what
      BY DEF Laid
    <2> HIDE DEF runs
    <2>5. Len(runs) - Len(todo) = Len(runs)  BY <2>2, <2>3
    <2> QED  BY <2>2, <2>4, <2>5
  <1> HIDE DEF d, runs
  <1>3. ASSUME NEW s, NEW v, Covers(runs, s, v) PROVE d[s] = v /\ s \in DOMAIN cache
    <2>1. PICK p \in Pieces(runs) : s \in Sectors(p) /\ p.what = v  BY <1>3 DEF Covers
    <2>2. PICK i \in DOMAIN runs : p = runs[i]  BY <2>1 DEF Pieces
    <2> QED  BY <2>1, <2>2, <1>1, <1>2
  <1>4. ASSUME NEW s \in DOMAIN d, s < at.cluster_heap_offset \/ s >= TailFrom PROVE d[s] # Old
    <2>1. CASE stage > 1  BY <2>1, <1>1, <1>4
    <2>2. CASE ~(stage > 1)
      <3>1. stage = 1  BY <2>2, <1>0
      <3>2. runs = InvalidateRuns  BY <3>1, Stages DEF runs
      <3>3. Covers(runs, s, Zero)  BY <3>2, <1>1, <1>4, InvalidateRunsFit
      <3>4. s \in DOMAIN cache  BY <3>3, <1>3
      <3> QED  BY <3>4, <1>1
    <2> QED  BY <2>1, <2>2
  <1>5. ASSUME NEW s \in DOMAIN d, NEW v \in Due(stage + 1, s) PROVE d[s] = v
    <2>1. Covers(runs, s, v) \/ (stage >= 2 /\ v \in Due(stage, s))  BY <1>0, <1>1, StageLays DEF runs
    <2>2. CASE Covers(runs, s, v)  BY <2>2, <1>3
    <2>3. CASE stage >= 2 /\ v \in Due(stage, s)
      <3>1. stage > 1  BY <2>3, <1>0
      <3> QED  BY <3>1, <2>3, <1>1
    <2> QED  BY <2>1, <2>2, <2>3
  <1> QED  BY <1>1, <1>4, <1>5 DEF d

-----------------------------------------------------------------------------
\* The steps.

LEMMA StagesStart == StagesInit => StagesInv
  BY DEF StagesInit, LayoutInit, StagesInv, Untouched, NoWrites

LEMMA PlansAre ==
    ASSUME StagesInv, PlanFormat PROVE StagesInv'
  <1>1. status = "asked" /\ layout = Unplanned /\ Untouched
    BY DEF PlanFormat, StagesInv, Untouched
  <1>2. request' = request /\ contents' = contents /\ disk' = disk /\ cache' = cache /\ stage' = stage
    BY DEF PlanFormat, Plan, Refuse
  <1>3. AllSectors' = AllSectors  BY <1>2 DEF AllSectors, SectorsOf, S
  <1>4. status' \in {"planned", "refused"}  BY DEF PlanFormat
  <1>5. ASSUME status' = "planned" PROVE Placed'
    <2>1. Plan /\ UsedIn(LayoutOf(request)) <= LayoutOf(request).cluster_count
      BY <1>5 DEF PlanFormat
    <2>2. layout' = Planned(request) /\ Refusal(request) = "none"  BY <2>1 DEF Plan
    <2>3. at' = LayoutOf(request)  BY <2>2 DEF at, Planned
    <2>4. ASSUME NEW l, at' = l PROVE UsedClusters' = UsedIn(l)
      BY <1>2, <2>4 DEF UsedClusters, UsedIn, FirstIn, Need
    <2>5. UsedClusters' = UsedIn(LayoutOf(request))  BY <2>3, <2>4
    <2>6. request \in Requests /\ contents \in Trees  BY DEF StagesInv
    <2> QED  BY <1>2, <2>1, <2>2, <2>3, <2>5, <2>6 DEF Placed
  <1>6. Untouched'  BY <1>1, <1>2, <1>3, <1>4, <1>5 DEF Untouched, NoWrites
  <1> QED  BY <1>2, <1>4, <1>6 DEF StagesInv

\* The destination is made long: nothing is on the disk yet.
LEMMA Begins ==
    ASSUME StagesInv, Extend PROVE StagesInv'
  <1>1. Placed /\ Untouched /\ request \in Requests /\ contents \in Trees
    BY DEF Extend, StagesInv, Untouched
  <1>2. /\ request' = request /\ layout' = layout /\ contents' = contents /\ disk' = disk
        /\ status' = "writing" /\ stage' = 1 /\ todo' = StageRuns(1)
        /\ cache' = And(cache, {AllSectors - 1}, <<"cut", 0>>)
    BY DEF Extend, layoutVars
  <1>3. Placed' /\ AllSectors' = AllSectors /\ StageRuns(stage)' = StageRuns(1)
    BY <1>1, <1>2, Frozen
  <1>4. AllSectors \in Nat /\ AllSectors >= 1  BY <1>1, VolumeIsWhole
  <1>5. DOMAIN disk = 0..(AllSectors - 1) /\ disk[0] = Old  BY <1>1, <1>4 DEF Untouched
  <1>6. OnDisk'
    <2>1. Reached' = 1  BY <1>2 DEF Reached
    <2> QED  BY <1>2, <1>3, <1>5, <2>1 DEF OnDisk, Old
  <1>7. InCache'
    <2>1. DOMAIN cache' = {AllSectors - 1} /\ cache'[AllSectors - 1] = <<"cut", 0>>
      BY <1>1, <1>2 DEF And, Untouched, NoWrites
    <2>2. AllSectors - 1 \in 0..(AllSectors - 1)  BY <1>4
    <2> QED  BY <1>2, <1>3, <2>1, <2>2 DEF InCache
  <1>8. Laid'
    <2> DEFINE runs == StageRuns(1)
    <2>1. runs \in Seq(Run(Whats))  BY <1>1, StageFits DEF Ascending
    <2>2. Len(runs) \in Nat /\ Len(runs) - Len(runs) = 0 /\ \A k \in DOMAIN runs : k = 0 + k
      BY <2>1
    <2>3. todo' = runs /\ StageRuns(stage)' = runs  BY <1>2, <1>3
    <2>4. Run(Whats)' = Run(Whats)
      BY <1>2 DEF Run, Whats, BodyWhats, ItemWhats, BootWhats, Items
    <2> HIDE DEF runs
    <2> QED  BY <2>1, <2>2, <2>3, <2>4 DEF Laid
  <1> QED  BY <1>1, <1>2, <1>3, <1>6, <1>7, <1>8 DEF StagesInv, LastStage

LEMMA PiecesGoDown ==
    ASSUME StagesInv, WritePiece \/ WriteFails PROVE StagesInv'
  <1>1. /\ Placed /\ stage \in 1..LastStage /\ OnDisk /\ InCache /\ Laid /\ todo # << >>
        /\ request \in Requests /\ contents \in Trees /\ status = "writing"
    BY DEF WritePiece, WriteFails, StagesInv
  <1> DEFINE runs == StageRuns(stage)
             laid == Len(runs) - Len(todo)
             p == Head(todo)
  <1>2. /\ request' = request /\ layout' = layout /\ contents' = contents
        /\ disk' = disk /\ stage' = stage
        /\ status' \in {"writing", "failed"}
        /\ status' = "writing" => todo' = Tail(todo) /\ cache' = And(cache, Sectors(p), p.what)
    BY DEF WritePiece, WriteFails, layoutVars
  <1>3. PICK part \in SUBSET Sectors(p) : cache' = And(cache, part, p.what)
    <2>1. CASE WritePiece  BY <2>1 DEF WritePiece
    <2>2. CASE WriteFails
      <3>1. PICK to \in Sectors(p) : cache' = And(cache, p.from..(to - 1), p.what)
        BY <2>2 DEF WriteFails
      <3>2. p.from \in Nat /\ p.to \in Nat
        <4>1. p \in Pieces(runs)  BY <1>1, AtHand
        <4>2. Ascending(runs, 0, AllSectors, Whats) /\ AllSectors \in Nat
          BY <1>1, StageFits, VolumeIsWhole DEF LastStage
        <4> QED  BY <4>1, <4>2, Inside
      <3>3. p.from..(to - 1) \subseteq Sectors(p)  BY <3>1, <3>2 DEF Sectors
      <3> QED  BY <3>1, <3>3
    <2> QED  BY <2>1, <2>2
  <1>4. /\ laid \in Nat /\ laid + 1 \in DOMAIN runs
        /\ p = runs[laid + 1] /\ p \in Pieces(runs)
        /\ Sectors(p) \subseteq 0..(AllSectors - 1)
        /\ \A i \in 1..laid : i \in DOMAIN runs /\ Sectors(runs[i]) \cap Sectors(p) = {}
        /\ Tail(todo) \in Seq(Run(Whats)) /\ Len(runs) - Len(Tail(todo)) = laid + 1
        /\ \A k \in DOMAIN Tail(todo) : Tail(todo)[k] = runs[laid + 1 + k]
    BY <1>1, AtHand
  <1>5. /\ Placed' /\ AllSectors' = AllSectors /\ TailFrom' = TailFrom /\ at' = at
        /\ \A s : Wanted(s)' = Wanted(s)
        /\ StageRuns(stage)' = runs
        /\ \A s : Due(Reached, s)' = Due(Reached, s)
    <2>1. Reached' = Reached  BY <1>1, <1>2 DEF Reached
    <2> QED  BY <1>1, <1>2, <2>1, Frozen
  <1>6. OnDisk'
    <2>1. Reached' = Reached /\ status' # "lost"  BY <1>1, <1>2 DEF Reached
    <2> QED  BY <1>1, <1>2, <1>5, <2>1 DEF OnDisk
  <1>7. InCache'
    <2>1. ASSUME NEW s \in DOMAIN cache'
          PROVE  /\ s \in 0..(AllSectors - 1)
                 /\ Covers(runs, s, cache'[s]) \/ (stage = 1 /\ cache'[s] = <<"cut", 0>>)
      <3>1. CASE s \in part
        <4>1. cache'[s] = p.what  BY <1>3, <3>1 DEF And
        <4> QED  BY <3>1, <4>1, <1>4 DEF Covers
      <3>2. CASE s \notin part
        <4>1. s \in DOMAIN cache /\ cache'[s] = cache[s]  BY <1>3, <3>2 DEF And
        <4> QED  BY <4>1, <1>1 DEF InCache
      <3> QED  BY <3>1, <3>2
    <2> HIDE DEF runs
    <2> QED  BY <2>1, <1>2, <1>5 DEF InCache
  <1>8. ASSUME status' = "writing" PROVE Laid'
    <2>1. todo' = Tail(todo) /\ cache' = And(cache, Sectors(p), p.what)  BY <1>2, <1>8
    <2>2. \A i \in 1..laid : \A s \in Sectors(runs[i]) : s \in DOMAIN cache /\ cache[s] = runs[i].what
      BY <1>1 DEF Laid
    <2>3. Run(Whats)' = Run(Whats)
      BY <1>2 DEF Run, Whats, BodyWhats, ItemWhats, BootWhats, Items
    <2> HIDE DEF runs, laid, p
    <2>4. ASSUME NEW i \in 1..(laid + 1), NEW s \in Sectors(runs[i])
          PROVE  s \in DOMAIN cache' /\ cache'[s] = runs[i].what
      <3>1. CASE i = laid + 1
        <4>1. s \in Sectors(p) /\ runs[i] = p  BY <3>1, <1>4
        <4> QED  BY <4>1, <2>1 DEF And
      <3>2. CASE i # laid + 1
        <4>1. i \in 1..laid  BY <3>2, <1>4
        <4>2. s \notin Sectors(p) /\ s \in DOMAIN cache /\ cache[s] = runs[i].what
          BY <4>1, <1>4, <2>2
        <4> QED  BY <4>2, <2>1 DEF And
      <3> QED  BY <3>1, <3>2
    <2>5. laid + 1 \in Nat  BY <1>4
    <2> DEFINE more == laid + 1
    <2>6. \A k \in DOMAIN Tail(todo) : Tail(todo)[k] = runs[more + k]  BY <1>4
    <2>7. Len(runs) - Len(Tail(todo)) = more /\ Tail(todo) \in Seq(Run(Whats))  BY <1>4
    <2> HIDE DEF more
    <2> QED  BY <1>5, <2>1, <2>3, <2>4, <2>5, <2>6, <2>7 DEF Laid, more
  <1> QED  BY <1>1, <1>2, <1>5, <1>6, <1>7, <1>8 DEF StagesInv

LEMMA StageIsFlushed ==
    ASSUME StagesInv, Flush PROVE StagesInv'
  <1>1. /\ Placed /\ stage \in 1..LastStage /\ OnDisk /\ InCache /\ Laid /\ todo = << >>
        /\ request \in Requests /\ contents \in Trees /\ status = "writing"
    BY DEF Flush, StagesInv
  <1>2. /\ request' = request /\ layout' = layout /\ contents' = contents
        /\ disk' = Overlaid(disk, cache) /\ cache' = NoWrites
        /\ NextStage
    BY DEF Flush, layoutVars
  <1> DEFINE m == stage + 1
  <1>3. Reached' = m /\ m > 1 /\ status' # "lost" /\ m \in Nat
        /\ \/ stage < LastStage /\ stage' = m /\ todo' = StageRuns(m) /\ status' = "writing"
           \/ stage = LastStage /\ stage' = stage /\ status' = "done"
    <2>1. CASE stage < LastStage  BY <2>1, <1>1, <1>2 DEF NextStage, Reached, LastStage
    <2>2. CASE ~(stage < LastStage)
      <3>1. stage = LastStage  BY <2>2, <1>1 DEF LastStage
      <3>2. status' = "done" /\ stage' = stage  BY <2>2, <1>2 DEF NextStage
      <3> QED  BY <3>1, <3>2, <1>1 DEF Reached, LastStage
    <2> QED  BY <2>1, <2>2
  <1>4. /\ DOMAIN disk' = 0..(AllSectors - 1)
        /\ \A s \in DOMAIN disk' :
              /\ s < at.cluster_heap_offset \/ s >= TailFrom => disk'[s] # Old
              /\ \A v \in Due(m, s) : disk'[s] = v
    BY <1>1, <1>2, StageEnds
  <1>5. stage < LastStage => disk'[0] # <<"boot", 0>>  BY <1>1, <1>2, StageEnds
  <1> HIDE DEF m
  <1>6. /\ Placed' /\ AllSectors' = AllSectors /\ TailFrom' = TailFrom /\ at' = at
        /\ \A s : Due(Reached, s)' = Due(m, s)
    BY <1>1, <1>2, <1>3, Frozen
  <1>7. OnDisk'
    <2>1. DOMAIN disk' = 0..(AllSectors' - 1)  BY <1>4, <1>6
    <2>2. \A s \in DOMAIN disk' :
             /\ s < at'.cluster_heap_offset \/ s >= TailFrom' => disk'[s] # Old
             /\ \A v \in Due(Reached, s)' : disk'[s] = v
      BY <1>4, <1>6
    <2>3. status' \in {"writing", "failed"} => disk'[0] # <<"boot", 0>>  BY <1>3, <1>5
    <2> QED  BY <1>3, <2>1, <2>2, <2>3 DEF OnDisk
  <1>8. InCache'  BY <1>2 DEF InCache, NoWrites
  <1>9. ASSUME stage < LastStage PROVE Laid'
    <2> DEFINE runs == StageRuns(m)
    <2>1. m \in 1..5  BY <1>1, <1>9 DEF m, LastStage
    <2>2. runs \in Seq(Run(Whats))  BY <2>1, <1>1, StageFits DEF Ascending
    <2>3. Len(runs) \in Nat /\ Len(runs) - Len(runs) = 0 /\ \A k \in DOMAIN runs : k = 0 + k
      BY <2>2
    <2>4. todo' = runs /\ stage' = m
      <3>1. stage # LastStage  BY <1>1, <1>9 DEF LastStage
      <3> QED  BY <1>3, <3>1
    <2>5. StageRuns(stage)' = runs  BY <2>4, <1>2, Frozen
    <2>6. Run(Whats)' = Run(Whats)
      BY <1>2 DEF Run, Whats, BodyWhats, ItemWhats, BootWhats, Items
    <2> HIDE DEF runs
    <2> QED  BY <2>2, <2>3, <2>4, <2>5, <2>6 DEF Laid
  <1>10. CASE stage < LastStage
    <2>1. stage' \in 1..LastStage /\ status' = "writing"  BY <1>1, <1>3, <1>10 DEF m, LastStage
    <2> QED  BY <2>1, <1>1, <1>2, <1>6, <1>7, <1>8, <1>9, <1>10 DEF StagesInv
  <1>11. CASE ~(stage < LastStage)
    <2>1. stage' \in 1..LastStage /\ status' = "done" /\ stage' = LastStage
      BY <1>1, <1>3, <1>11 DEF LastStage
    <2> QED  BY <2>1, <1>1, <1>2, <1>6, <1>7, <1>8 DEF StagesInv
  <1> QED  BY <1>10, <1>11

\* After the last stage's writes, kept or lost, the main boot sector is down over a whole volume.
LEMMA LastOfAll ==
    ASSUME Placed, NEW d, DOMAIN d = 0..(AllSectors - 1), d[0] = <<"boot", 0>>,
           \A s \in DOMAIN d : \A v \in Due(5, s) : d[s] = v,
           NEW s \in DOMAIN d, NEW v \in Wanted(s)
    PROVE  d[s] = v
  <1>1. s \in Nat /\ BootSectors \in Nat /\ BootSectors >= 1  BY VolumeIsWhole, Units
  <1>2. CASE s >= 1
    <2>1. v \in Due(5, s)  BY <1>2 DEF Due, Behind
    <2> QED  BY <2>1
  <1>3. CASE ~(s >= 1)
    <2>1. s = 0 /\ s < 2 * BootSectors /\ s < BootSectors  BY <1>1, <1>3
    <2>2. Wanted(s) = {<<"boot", s>>}  BY <2>1, <1>1, WantedOfBoot
    <2> QED  BY <2>1, <2>2
  <1> QED  BY <1>2, <1>3

LEMMA PowerIsLost ==
    ASSUME StagesInv, PowerLoss PROVE StagesInv'
  <1>1. /\ Placed /\ stage \in 1..LastStage /\ OnDisk /\ InCache /\ status \in {"writing", "failed"}
        /\ request \in Requests /\ contents \in Trees
    BY DEF PowerLoss, StagesInv
  <1>2. /\ request' = request /\ layout' = layout /\ contents' = contents
        /\ cache' = NoWrites /\ stage' = stage /\ status' = "lost"
    BY DEF PowerLoss, layoutVars
  <1>3. PICK kept \in SUBSET DOMAIN cache : disk' = Overlaid(disk, [s \in kept |-> cache[s]])
    <2>1. PICK few \in AtMostTwo(DOMAIN cache) : \E kept \in {few, DOMAIN cache \ few} :
             disk' = Overlaid(disk, [s \in kept |-> cache[s]])
      BY DEF PowerLoss
    <2>2. few \subseteq DOMAIN cache  BY <2>1 DEF AtMostTwo
    <2> QED  BY <2>1, <2>2
  <1> DEFINE w == [s \in kept |-> cache[s]]
  <1>4. DOMAIN w \subseteq DOMAIN cache /\ \A s \in DOMAIN w : w[s] = cache[s]  OBVIOUS
  <1> HIDE DEF w
  <1>5. /\ DOMAIN disk' = 0..(AllSectors - 1)
        /\ stage > 1 => \A s \in DOMAIN disk' :
              /\ s < at.cluster_heap_offset \/ s >= TailFrom => disk'[s] # Old
              /\ \A v \in Due(stage, s) : disk'[s] = v
        /\ stage < LastStage => disk'[0] # <<"boot", 0>>
    <2>1. disk' = Overlaid(disk, w)  BY <1>3 DEF w
    <2> QED  BY <1>1, <1>4, <2>1, AnyReaches
  <1>6. /\ Placed' /\ AllSectors' = AllSectors /\ TailFrom' = TailFrom /\ at' = at
        /\ \A s : Wanted(s)' = Wanted(s)
        /\ Reached' = stage
        /\ \A s : Due(Reached, s)' = Due(stage, s)
    <2>1. Reached' = stage  BY <1>2 DEF Reached
    <2> QED  BY <1>1, <1>2, <2>1, Frozen
  <1>7. ASSUME disk'[0] = <<"boot", 0>> PROVE Whole'
    <2>1. stage = 5  BY <1>1, <1>5, <1>7 DEF LastStage
    <2>2. \A s \in DOMAIN disk' : \A v \in Due(5, s) : disk'[s] = v  BY <2>1, <1>5
    <2>3. \A s \in DOMAIN disk' : \A v \in Wanted(s) : disk'[s] = v
      BY <2>2, <1>1, <1>5, <1>7, LastOfAll
    <2> QED  BY <2>3, <1>6 DEF Whole
  <1>8. OnDisk'
    <2>1. DOMAIN disk' = 0..(AllSectors' - 1)  BY <1>5, <1>6
    <2>2. Reached' > 1 => \A s \in DOMAIN disk' :
             /\ s < at'.cluster_heap_offset \/ s >= TailFrom' => disk'[s] # Old
             /\ \A v \in Due(Reached, s)' : disk'[s] = v
      BY <1>5, <1>6
    <2> QED  BY <1>2, <1>7, <2>1, <2>2 DEF OnDisk
  <1>9. InCache'  BY <1>2 DEF InCache, NoWrites
  <1> QED  BY <1>1, <1>2, <1>6, <1>8, <1>9 DEF StagesInv

LEMMA NothingGoesDown ==
    ASSUME StagesInv, RefuseDeclared \/ FlushFails \/ Stopped \/ UNCHANGED stagesVars
    PROVE  StagesInv'
  <1>1. /\ request' = request /\ layout' = layout /\ contents' = contents /\ disk' = disk
        /\ cache' = cache /\ stage' = stage /\ todo' = todo
        /\ \/ status' = status
           \/ status = "planned" /\ status' = "refused"
           \/ status = "writing" /\ status' = "failed"
    BY DEF RefuseDeclared, FlushFails, Stopped, stagesVars, layoutVars
  <1>2. /\ Placed => Placed'
        /\ AllSectors' = AllSectors /\ TailFrom' = TailFrom /\ at' = at
        /\ \A s : Wanted(s)' = Wanted(s)
        /\ StageRuns(stage)' = StageRuns(stage)
        /\ Reached' = Reached
        /\ \A s : Due(Reached, s)' = Due(Reached, s)
    <2>1. Reached' = Reached  BY <1>1 DEF Reached
    <2> QED  BY <1>1, <2>1, Frozen
  <1>3. Untouched => Untouched'  BY <1>1, <1>2 DEF Untouched, NoWrites
  <1>4. Whole => Whole'  BY <1>1, <1>2 DEF Whole
  <1>5. OnDisk => OnDisk'  BY <1>1, <1>2, <1>4 DEF OnDisk
  <1>6. InCache => InCache'  BY <1>1, <1>2 DEF InCache
  <1>7. Laid => Laid'
    <2>1. Run(Whats)' = Run(Whats)
      BY <1>1 DEF Run, Whats, BodyWhats, ItemWhats, BootWhats, Items
    <2> QED  BY <1>1, <1>2, <2>1 DEF Laid
  <1> QED  BY <1>1, <1>2, <1>3, <1>5, <1>6, <1>7 DEF StagesInv

LEMMA StagesHold == StagesSpec => []StagesInv
  <1>1. StagesInit => StagesInv  BY StagesStart
  <1>2. StagesInv /\ [StagesNext]_stagesVars => StagesInv'
    <2> SUFFICES ASSUME StagesInv, [StagesNext]_stagesVars PROVE StagesInv'  OBVIOUS
    <2>1. CASE PlanFormat  BY <2>1, PlansAre
    <2>2. CASE Extend  BY <2>2, Begins
    <2>3. CASE WritePiece \/ WriteFails  BY <2>3, PiecesGoDown
    <2>4. CASE Flush  BY <2>4, StageIsFlushed
    <2>5. CASE PowerLoss  BY <2>5, PowerIsLost
    <2>6. CASE RefuseDeclared \/ FlushFails \/ Stopped \/ UNCHANGED stagesVars
      BY <2>6, NothingGoesDown
    <2> QED  BY <2>1, <2>2, <2>3, <2>4, <2>5, <2>6 DEF StagesNext, Write
  <1> QED  BY <1>1, <1>2, PTL DEF StagesSpec

\* However a run of write_to is cut short, once the first stage is durable nothing a driver
\* would mount is left before the heap or at the free end, and a main boot sector stands only
\* over the whole volume; a run that finishes leaves it, and one that refuses writes nothing.
THEOREM InterruptedOrWhole == StagesSpec => []NothingOrWhole
  <1>1. StagesInv => NothingOrWhole
    <2> SUFFICES ASSUME StagesInv PROVE NothingOrWhole  OBVIOUS
    <2>1. CASE status \in {"asked", "planned", "refused"} /\ Untouched
      <3>1. stage = 0 /\ \A s \in DOMAIN disk : disk[s] = Old  BY <2>1 DEF Untouched
      <3> QED  BY <2>1, <3>1 DEF NothingOrWhole
    <2>2. CASE /\ status \in {"writing", "failed", "lost", "done"} /\ Placed /\ stage \in 1..LastStage
               /\ OnDisk
               /\ status = "done" => stage = LastStage
      <3>1. stage > 1 => Reached > 1 /\ (status = "done" => Reached = 6 /\ stage > 1)
        BY <2>2 DEF Reached, LastStage
      <3>2. AllSectors \in Nat /\ AllSectors >= 1 /\ DOMAIN disk = 0..(AllSectors - 1)
        BY <2>2, VolumeIsWhole DEF OnDisk
      <3>3. ASSUME stage > 1, NEW s \in DOMAIN disk,
                   s < at.cluster_heap_offset \/ (s >= BeforeTail /\ s >= FreeFrom)
            PROVE  disk[s] # Old
        <4>1. s < at.cluster_heap_offset \/ s >= TailFrom  BY <2>2, <3>2, <3>3, Ends
        <4> QED  BY <2>2, <3>1, <3>3, <4>1 DEF OnDisk
      <3>4. status = "done" => Whole /\ disk[0] = <<"boot", 0>>
        <4> SUFFICES ASSUME status = "done" PROVE Whole /\ disk[0] = <<"boot", 0>>  OBVIOUS
        <4>1. Reached = 6  BY <2>2 DEF Reached, LastStage
        <4>2. \A s \in DOMAIN disk : \A v \in Due(6, s) : disk[s] = v  BY <2>2, <4>1 DEF OnDisk
        <4>3. ASSUME NEW s \in DOMAIN disk, NEW v \in Wanted(s) PROVE disk[s] = v
          <5>1. v \in Due(6, s)  BY <3>2, <4>3 DEF Due, Behind
          <5> QED  BY <5>1, <4>2
        <4>4. 0 \in DOMAIN disk /\ Wanted(0) = {<<"boot", 0>>}
          <5>1. BootSectors \in Nat /\ BootSectors >= 1  BY <2>2, Units
          <5>2. 0 < 2 * BootSectors /\ 0 < BootSectors /\ 0 \in Nat  BY <5>1
          <5> QED  BY <2>2, <3>2, <5>2, WantedOfBoot
        <4> QED  BY <4>3, <4>4 DEF Whole
      <3>5. disk[0] = <<"boot", 0>> => Whole  BY <2>2, <3>4 DEF OnDisk
      <3> QED  BY <2>2, <3>3, <3>4, <3>5 DEF NothingOrWhole
    <2> QED  BY <2>1, <2>2 DEF StagesInv
  <1> QED  BY <1>1, StagesHold, PTL

\* The pieces of a stage are none of them empty, lie inside the volume and share no sector,
\* whatever the tree and the geometry: they may be written in any order.
THEOREM PiecesMayGoInAnyOrder == StagesSpec => []PiecesStandApart
  <1>1. StagesInv => PiecesStandApart
    <2> SUFFICES ASSUME StagesInv, stage > 0,
                        NEW i \in DOMAIN StageRuns(stage), NEW j \in DOMAIN StageRuns(stage)
                 PROVE  LET runs == StageRuns(stage)
                        IN  /\ IsPiece(runs[i]) /\ runs[i].from >= 0 /\ runs[i].to <= AllSectors
                            /\ i < j => Sectors(runs[i]) \cap Sectors(runs[j]) = {}
      BY DEF PiecesStandApart
    <2> DEFINE runs == StageRuns(stage)
    <2>1. Placed /\ stage \in 1..5  BY DEF StagesInv, Untouched, LastStage
    <2>2. Ascending(runs, 0, AllSectors, Whats) /\ AllSectors \in Nat  BY <2>1, StageFits, VolumeIsWhole
    <2> HIDE DEF runs
    <2>3. i \in DOMAIN runs /\ j \in DOMAIN runs  BY DEF runs
    <2>4. runs[i] \in Pieces(runs) /\ runs[j] \in Pieces(runs)  BY <2>3 DEF Pieces
    <2>5. /\ 0 <= runs[i].from /\ runs[i].from < runs[i].to /\ runs[i].to <= AllSectors
          /\ runs[i].from \in Nat /\ runs[i].to \in Nat
      BY <2>2, <2>4, Inside
    <2>6. runs[j].from \in Nat /\ runs[j].to \in Nat  BY <2>2, <2>4, Inside
    <2>7. i < j => runs[i].to <= runs[j].from  BY <2>2, <2>3 DEF Ascending
    <2>8. i < j => Sectors(runs[i]) \cap Sectors(runs[j]) = {}  BY <2>5, <2>6, <2>7 DEF Sectors
    <2> QED  BY <2>5, <2>8 DEF IsPiece, runs
  <1> QED  BY <1>1, StagesHold, PTL
=============================================================================
