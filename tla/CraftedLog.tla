----------------------------- MODULE CraftedLog -----------------------------
(***************************************************************************)
(* LogReplay over logs nobody vouches for: any blocks, any start, any      *)
(* sequence. What holds here holds however the journal's fields are set.   *)
(***************************************************************************)
EXTENDS LogReplay

CONSTANTS
    Logs,       \* the logs opened: [Positions -> LogBlocks]
    Images,     \* the homes opened: [Homes -> Contents]
    Starts,     \* the values of s_start
    StartSeqs   \* the values of s_sequence

ASSUME LogsAssumption ==
    Logs \subseteq [Positions -> LogBlocks] /\ Images \subseteq [Homes -> Contents]
ASSUME StartsAssumption == Starts \subseteq Nat /\ StartSeqs \subseteq Sequences32

openVars == <<disk, reader>>

CraftedInit ==
    /\ log \in Logs
    /\ start \in Starts
    /\ startseq \in StartSeqs
    /\ layoutOK \in BOOLEAN
    /\ home \in Images
    /\ ReaderInit

OpenNext == Replay \/ ReadTable \/ (Opened /\ UNCHANGED openVars)

-----------------------------------------------------------------------------

ReaderTypeOK ==
    /\ log \in [Positions -> LogBlocks]
    /\ start \in Nat
    /\ startseq \in Sequences32
    /\ at \in Positions
    /\ visited \in Nat
    /\ current \in Transactions
    /\ committed \in Seq(Transactions)

\* replay.rs, "Purity": the scan visits no more blocks than the journal spans
\* however its fields are set, a log that goes round and round included.
ScanBounded == visited <= Span

\* The transactions one after another, each writing its copies in order and then
\* dropping what it revokes.
Written(m, i, skip) ==
    LET tags == committed[i].tags
        mine(h) == {j \in 1..Len(tags) : tags[j].home = h /\ <<i, j>> \notin skip}
        last(h) == CHOOSE j \in mine(h) : \A k \in mine(h) : k <= j
        homes == {h \in Homes : mine(h) # {}}
    IN  [h \in ((DOMAIN m) \cup homes) \ committed[i].revokes |->
            IF h \in homes THEN [at |-> tags[last(h)].at, escaped |-> tags[last(h)].escaped]
            ELSE m[h]]

InOrder(skip) ==
    LET m[i \in 0..Len(committed)] == IF i = 0 THEN Nothing ELSE Written(m[i - 1], i, skip)
    IN  m[Len(committed)]

\* What the plan arrives at from the last revocation of each block is what replaying
\* the transactions one by one would leave.
ReplaysInOrder ==
    outcome = "replayed" =>
        overlay = InOrder({e \in Entries : ~Holds(log[TagOf(e).at])})

\* What opening still has to do: blocks of the ring to visit, and phases to go through.
Remaining ==
    CASE phase = "closed" -> Span + 5
      [] phase = "scanning" -> Span - visited + 4
      [] phase = "applying" -> 3
      [] phase = "installing" -> 2
      [] phase = "rereading" -> 1
      [] OTHER -> 0

\* Opening ends whatever the log says, and goes on until it has: no step of it leaves as much
\* to do, and only the open reader's own reads leave what is done as it is.
OpeningEnds == [][phase = "open" \/ (Remaining' \in Nat /\ Remaining' < Remaining)]_reader
=============================================================================
