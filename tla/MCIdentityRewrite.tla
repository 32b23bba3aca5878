------------------------- MODULE MCIdentityRewrite --------------------------
(***************************************************************************)
(* A primary, one backup and a log. The primary is without metadata_csum,  *)
(* with it, or with its seed recorded; the backup agrees, is stale         *)
(* (another label and no seed recorded, or another UUID and its seed),     *)
(* damaged or missing; the log is checksummed soundly, unsoundly, by       *)
(* another checksum, or not.                                               *)
(***************************************************************************)
EXTENDS IdentityRewrite, TLC

MCCrc(x) == x
MCSeedOf(u) == <<u>>
MCUuids == {"u0", "u1"}
MCLabels == {"l0", "l1"}
MCSeeds == {<<u>> : u \in MCUuids}
MCFields == [uuid : MCUuids, label : MCLabels, csum : BOOLEAN, seeded : BOOLEAN, seed : MCSeeds,
             rest : {"now", "then"}]
MCLogFields == [uuid : MCUuids, declared : BOOLEAN, crc32c : BOOLEAN]
MCBad == [bad |-> TRUE]
MCWords == MCFields \cup MCLogFields \cup {MCBad}

MCChanges == [uuid : {"u1", Keep}, label : {"l1", Keep}, setSeed : BOOLEAN]
                 \ {[uuid |-> Keep, label |-> Keep, setSeed |-> FALSE]}

MCWith(fields) == [magic |-> TRUE, is |-> fields, sum |-> fields]

MCPrimaries ==
    {[uuid |-> "u0", label |-> "l0", csum |-> c, seeded |-> s, seed |-> <<IF s THEN "u0" ELSE "u1">>,
      rest |-> "now"] : <<c, s>> \in {<<FALSE, FALSE>>, <<TRUE, FALSE>>, <<TRUE, TRUE>>}}

MCBackups(f) ==
    {MCWith([f EXCEPT !.rest = "then"]),
     MCWith([f EXCEPT !.rest = "then", !.label = "l1", !.seeded = FALSE, !.seed = <<"u1">>]),
     MCWith([f EXCEPT !.rest = "then", !.uuid = "u1", !.seed = <<"u1">>]),
     [MCWith(f) EXCEPT !.sum = MCBad],
     [MCWith(f) EXCEPT !.magic = FALSE]}

MCLogs ==
    {[is |-> [uuid |-> "u0", declared |-> d, crc32c |-> k],
      sum |-> IF s THEN [uuid |-> "u0", declared |-> d, crc32c |-> k] ELSE MCBad] :
        <<d, k, s>> \in {<<TRUE, TRUE, TRUE>>, <<TRUE, TRUE, FALSE>>, <<TRUE, FALSE, TRUE>>,
                         <<FALSE, FALSE, FALSE>>}}

MCImages ==
    UNION {{0 :> MCWith(f) @@ 1 :> b @@ 2 :> l : b \in MCBackups(f), l \in MCLogs} : f \in MCPrimaries}
=============================================================================
