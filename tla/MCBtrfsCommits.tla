--------------------------- MODULE MCBtrfsCommits ---------------------------
(* BtrfsCommits over a root tree that leads to one tree of two blocks. *)
EXTENDS BtrfsCommits, TLC

CONSTANTS a1, a2, a3, a4, a5

MCAddresses == {a1, a2, a3, a4, a5}
Names == {"roots", "files", "leaf"}
Heights == [n \in Names |-> IF n = "files" THEN 1 ELSE 0]
Pointing == [n \in Names |-> CASE n = "roots" -> <<"files">> [] n = "files" -> <<"leaf">> [] OTHER -> << >>]

Symmetry == Permutations(MCAddresses)
=============================================================================
