----------------------------- MODULE FreeSpace ------------------------------
(***************************************************************************)
(* What the block allocator promises: a set of free blocks it only takes   *)
(* from. A request for n blocks gets the n lowest and is refused only when *)
(* fewer are free; a request for a run gets the first run that is long     *)
(* enough and is refused only when there is none.                          *)
(***************************************************************************)
EXTENDS Integers, FiniteSets

CONSTANTS Blocks, Counts

VARIABLES free, answer

vars == <<free, answer>>

Silence == [kind |-> "none", asked |-> 0, blocks |-> {}, available |-> 0]
Runs(n) == {s \in Blocks : \A b \in s..(s + n - 1) : b \in free}

Init == free \in SUBSET Blocks /\ answer = Silence

\* A request arrives, or blocks are taken out of the pool from outside.
Ask == answer' = Silence /\ UNCHANGED free
Withdraw == answer' = Silence /\ free' \in SUBSET free

Grant(n) == \E taken \in SUBSET free :
    /\ Cardinality(taken) = n
    /\ \A b \in taken, f \in free \ taken : b < f
    /\ free' = free \ taken
    /\ answer' = [kind |-> "blocks", asked |-> n, blocks |-> taken, available |-> 0]

Refuse(n) ==
    /\ Cardinality(free) < n
    /\ answer' = [kind |-> "out_of_space", asked |-> n, blocks |-> {},
                  available |-> Cardinality(free)]
    /\ UNCHANGED free

GrantRun(n) == \E s \in Blocks :
    /\ s \in Runs(n)
    /\ \A t \in Runs(n) : s <= t
    /\ free' = free \ (s..(s + n - 1))
    /\ answer' = [kind |-> "run", asked |-> n, blocks |-> s..(s + n - 1), available |-> 0]

RefuseRun(n) ==
    /\ n > 0 /\ Runs(n) = {}
    /\ answer' = [kind |-> "no_run", asked |-> n, blocks |-> {}, available |-> 0]
    /\ UNCHANGED free

Next == \/ Ask \/ Withdraw
        \/ \E n \in Counts : Grant(n) \/ Refuse(n) \/ GrantRun(n) \/ RefuseRun(n)

Spec == Init /\ [][Next]_vars
=============================================================================
