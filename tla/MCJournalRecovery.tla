------------------------- MODULE MCJournalRecovery --------------------------
(***************************************************************************)
(* JournalRecovery with three filesystem blocks on a short ring: the       *)
(* superblock, the inode table, and a block that may be freed and whose    *)
(* content begins with the jbd2 magic. The logs nobody vouches for are     *)
(* every ring made of whole records of two sequences - commits, revokes,   *)
(* descriptors with their copies, one copy with a bad checksum and one     *)
(* past the filesystem - so that a log may end early, run on or go round   *)
(* for ever; and each block that stops a scan outright.                    *)
(***************************************************************************)
EXTENDS JournalRecovery

MCVersions == 0..(2 * MaxTx)

MCAfter == (FirstSeq + 1) % SeqMod

MCBlock(kind, seq, names, revokes, sound) ==
    [kind |-> kind, seq |-> seq, names |-> names, revokes |-> revokes,
     content |-> [ver |-> 1, magic |-> FALSE], sound |-> sound]

MCName(b) == [home |-> b, escaped |-> b = Table]
MCData(sound) == MCBlock("data", 0, << >>, {}, sound)
MCNaming(seq, b) == MCBlock("descriptor", seq, <<MCName(b)>>, {}, TRUE)

MCRecords ==
    {<<MCBlock("commit", q, << >>, {}, TRUE)>> : q \in {FirstSeq, MCAfter}}
    \cup {<<MCBlock("revoke", FirstSeq, << >>, {Table}, TRUE)>>}
    \cup {<<MCNaming(FirstSeq, Table), MCData(s)>> : s \in BOOLEAN}
    \cup {<<MCNaming(MCAfter, Table), MCData(TRUE)>>, <<MCNaming(FirstSeq, Wild), MCData(TRUE)>>}

MCRings[n \in 0..Span] ==
    IF n = 0 THEN {<< >>}
    ELSE UNION {{r \o t : t \in MCRings[n - Len(r)]} : r \in {x \in MCRecords : Len(x) <= n}}

MCStops ==
    {MCBlock("other", FirstSeq, << >>, {}, TRUE), MCBlock("commit", FirstSeq, << >>, {}, FALSE),
     MCBlock("revoke", FirstSeq, << >>, {Table}, FALSE), MCBlock("descriptor", FirstSeq, << >>, {}, TRUE),
     MCBlock("descriptor", FirstSeq, <<MCName(Table)>>, {}, FALSE),
     MCBlock("descriptor", FirstSeq, <<MCName(Super), MCName(Table)>>, {}, TRUE)}

\* A transaction that logs the table, with each of its blocks made to stop the scan.
MCSound == <<MCNaming(FirstSeq, Table), MCData(TRUE), MCBlock("commit", FirstSeq, << >>, {}, TRUE)>>
               \o [i \in 1..(Span - 3) |-> MCData(TRUE)]

\* A descriptor in the last block of the ring, whose copy is the first one again.
MCOverrun == [i \in 1..(Span - 1) |-> MCBlock("revoke", FirstSeq, << >>, {Table}, TRUE)]
                 \o <<MCNaming(FirstSeq, Table)>>

MCLogs ==
    LET ring(r) == [p \in Positions |-> r[1 + ((p - First + 3) % Span)]]
    IN  {ring(r) : r \in MCRings[Span]}
        \cup {[p \in Positions |-> MCOverrun[1 + ((p - s + Span) % Span)]] : s \in Positions}
        \cup {ring([MCSound EXCEPT ![i] = b]) : i \in {1, 3}, b \in MCStops}

MCImages == {[b \in Homes |-> [ver |-> 0, magic |-> b # Super]]}
=============================================================================
