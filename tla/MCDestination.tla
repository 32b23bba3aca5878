--------------------------- MODULE MCDestination ----------------------------
(***************************************************************************)
(* Destination with two runs at once over one destination and one source,  *)
(* every pair of requests, and a rename by another process anywhere.       *)
(***************************************************************************)
EXTENDS Destination, TLC

MCRequests ==
    {[command |-> "format", atomic |-> a, source |-> s] : a \in BOOLEAN, s \in {"held", "walked", "memory"}}
    \cup {[command |-> "extract", atomic |-> a, source |-> "held"] : a \in BOOLEAN}

RunSymmetry == Permutations(Runs)
=============================================================================
