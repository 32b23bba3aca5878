----------------------------- MODULE MCFatScan -----------------------------
(***************************************************************************)
(* FatScan over volumes of three clusters and one entry of padding.  Most  *)
(* have one table, every one there is but for which number a broken link   *)
(* has, and a root region of up to two entries; some have two copies,      *)
(* equal, or apart in one entry, and a root chain with the flags that say  *)
(* which copy is live.                                                     *)
(***************************************************************************)
EXTENDS FatScan

Past == Clusters + 2    \* the number of the padding's entry

Entries ==
    [kind : {"dir"}, start : {0, 2, 3, Past}, size : {0}]
      \cup [kind : {"file"}, start : {2, 3, Past}, size : {1, 2}]
      \cup [kind : {"file"}, start : {0}, size : {0, 1}]

MCSlots ==
    {<<>>} \cup {<<[kind |-> "dir", start |-> c, size |-> 0]>> : c \in {2, 3}}
           \cup {<<[kind |-> "file", start |-> c, size |-> 1]>> : c \in {0, 3, Past}}

\* Clusters are alike, so the first entry of the root starts at none, at the
\* first cluster or past the last.
Firsts == {e \in Entries : e.start # 3}

RootRegions == {<<>>} \cup {<<d>> : d \in Firsts}
                  \cup {<<d, e>> : d \in Firsts, e \in Entries}

Tables == [Cluster -> {FREE, BAD, EOC} \cup Cluster]

Padded(t, entry) == [c \in Indices |-> IF c \in Cluster THEN t[c] ELSE entry]

OneTable ==
    {[fats |-> <<Padded(t, EOC)>>, mirrored |-> TRUE, named |-> 0,
      root |-> 0, region |-> r] : t \in Tables, r \in RootRegions}

\* Tables two copies of which may be apart.
Kept == {Padded(<<FREE, EOC, 4, EOC>>, EOC), Padded(<<FREE, 3, EOC, FREE>>, FREE)}

Apart(fat) == {[fat EXCEPT ![c] = e] : c \in Indices, e \in {FREE, EOC, 3}}

TwoTables ==
    {[fats |-> <<a, b>>, mirrored |-> f.mirrored, named |-> f.named,
      root |-> 2, region |-> <<>>] :
        a \in Kept, b \in UNION {Apart(k) : k \in Kept},
        f \in [mirrored : {TRUE}, named : {0}]
                \cup [mirrored : {FALSE}, named : 0..2]}

MCVolumes == OneTable \cup TwoTables

MCReadVolumes == {v \in OneTable : v.region = <<>>} \cup TwoTables

MCLimits == {[findings |-> 8, names |-> 8], [findings |-> 1, names |-> 8],
             [findings |-> 8, names |-> 1]}
=============================================================================
