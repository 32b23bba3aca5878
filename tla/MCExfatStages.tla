--------------------------- MODULE MCExfatStages ----------------------------
(***************************************************************************)
(* ExfatStages over volumes of tens of sectors: sizes cut inside a sector  *)
(* and sizes nothing fits in, clusters of one and two sectors, a heap with *)
(* room, full to the last cluster, and with a bitmap of two sectors; trees *)
(* with an empty directory, an empty file, and a file ending inside a      *)
(* cluster.                                                                *)
(***************************************************************************)
EXTENDS ExfatStages

File(bytes) == [kind |-> "file", bytes |-> bytes, declared |-> FALSE]
Dir(bytes) == [kind |-> "directory", bytes |-> bytes, declared |-> FALSE]
DeclaredFile(bytes) == [kind |-> "file", bytes |-> bytes, declared |-> TRUE]

MCTrees == {<<Dir(16)>>,
            <<Dir(20), File(0), File(17), Dir(0), File(33)>>,
            <<Dir(16), File(100)>>,
            <<Dir(16), DeclaredFile(0)>>, <<Dir(16), DeclaredFile(1)>>}

MCRequests ==
    {[volume |-> v, sector |-> 16, cluster |-> c, align |-> a] :
        v \in {100, 160, 281, 288, 400}, c \in {16, 32}, a \in {16, 64}}
    \cup {[volume |-> v, sector |-> 8, cluster |-> 8, align |-> 8] : v \in 100..130}
    \cup {[volume |-> 170 * 16, sector |-> 16, cluster |-> 16, align |-> 16]}
=============================================================================
