--------------------------- MODULE JournalRecovery --------------------------
(***************************************************************************)
(* LogReplay over the logs a jbd2 writer leaves: a machine that loses      *)
(* power at any moment, an image that loses a block afterwards, and a      *)
(* reader that opens what is left. The writer is outside this repository   *)
(* and is modelled from what replay.rs takes of it: transactions written   *)
(* to a ring with the commit block last, blocks freed with a revoke record *)
(* and then reused without the journal, checkpoints and a moving tail. The *)
(* image may also come from anywhere, its log as CraftedLog has it.        *)
(***************************************************************************)
EXTENDS CraftedLog

CONSTANTS
    MaxTx,      \* transactions the writer runs
    FirstSeq,   \* the sequence it starts at
    MagicHomes, \* blocks whose content begins with the jbd2 magic
    Freeable    \* blocks the filesystem may free

ASSUME WriterAssumption ==
    /\ IsFiniteSet(Homes) /\ Freeable \subseteq Homes
    /\ FirstSeq \in Sequences32
    /\ MaxTx \in Nat /\ 0..(2 * MaxTx) \subseteq Versions

VARIABLES
    live,       \* committed transactions still in the log, oldest first
    writing,    \* the transaction being written
    head,       \* where the next transaction starts
    count,      \* transactions begun
    released,   \* freed blocks, which are written at home without the journal
    crashed,    \* whether the machine has stopped
    damage,     \* what was damaged after it stopped
    store       \* history: what the filesystem holds, as of its last commit

writer == <<live, writing, head, count, released, store>>
vars == <<disk, reader, writer, crashed, damage>>

Value(v, b) == [ver |-> v, magic |-> b \in MagicHomes]
Logged(v) == [ver |-> v, magic |-> FALSE]
NextSeq == (FirstSeq + count) % SeqMod

LogBlock(kind, seq, names, revokes, content) ==
    [kind |-> kind, seq |-> seq, names |-> names, revokes |-> revokes,
     content |-> content, sound |-> TRUE]
Unwritten == LogBlock("none", 0, << >>, {}, Logged(0))
Idle == [seq |-> 0, homes |-> {}, revokes |-> {}, len |-> 0, todo |-> {}]

Fresh ==
    /\ log = [p \in Positions |-> Unwritten]
    /\ start = 0
    /\ startseq = FirstSeq
    /\ layoutOK = TRUE
    /\ home = [b \in Homes |-> Value(0, b)]
    /\ ReaderInit
    /\ crashed = FALSE
    /\ damage = "none"

Init ==
    /\ Fresh \/ (CraftedInit /\ crashed = TRUE /\ damage = "crafted")
    /\ live = << >>
    /\ writing = Idle
    /\ head = First
    /\ count = 0
    /\ released = {}
    /\ store = home

-----------------------------------------------------------------------------
\* The jbd2 writer.

Used == LET sum[i \in 0..Len(live)] == IF i = 0 THEN 0 ELSE sum[i - 1] + live[i].len
        IN  sum[Len(live)]

Running == ~crashed /\ UNCHANGED <<layoutOK, reader, crashed, damage>>

\* The blocks of a transaction in log order: a revoke block, then descriptors with
\* their copies, then the commit. One descriptor names every copy, or each its own.
Order(S) == CHOOSE f \in [1..Cardinality(S) -> S] : \A x \in S : \E i \in DOMAIN f : f[i] = x
Name(b) == [home |-> b, escaped |-> b \in MagicHomes]
Body(seq, v, homes, revokes, split) ==
    LET order == Order(homes)
        n == Len(order)
        desc(names) == LogBlock("descriptor", seq, names, {}, Logged(0))
        copy == LogBlock("data", 0, << >>, {}, Logged(v))
    IN  (IF revokes = {} THEN << >> ELSE <<LogBlock("revoke", seq, << >>, revokes, Logged(0))>>)
        \o (IF n = 0 THEN << >>
            ELSE IF split
            THEN [i \in 1..(2 * n) |->
                     IF i % 2 = 1 THEN desc(<<Name(order[(i + 1) \div 2])>>) ELSE copy]
            ELSE <<desc([i \in 1..n |-> Name(order[i])])>> \o [i \in 1..n |-> copy])

\* A transaction logs some blocks and frees others; it never fills the ring. The
\* first one after an empty log names itself in the superblock.
Begin(homes, revokes, split) ==
    LET body == Body(NextSeq, 2 * count + 1, homes, revokes, split)
        len == Len(body) + 1
    IN  /\ Running
        /\ writing = Idle
        /\ count < MaxTx
        /\ Used + len < Span
        /\ writing' = [seq |-> NextSeq, homes |-> homes, revokes |-> revokes, len |-> len,
                       todo |-> {<<After(head, i - 1), body[i]>> : i \in 1..Len(body)}]
        /\ count' = count + 1
        /\ IF start = 0 THEN start' = head /\ startseq' = NextSeq
           ELSE UNCHANGED <<start, startseq>>
        /\ UNCHANGED <<log, home, live, head, released, store>>

BeginSome ==
    \E homes \in SUBSET Homes, revokes \in SUBSET (Freeable \ released), split \in BOOLEAN :
        /\ homes \cap revokes = {}
        /\ homes \cup revokes # {}
        /\ split => Cardinality(homes) > 1
        /\ Begin(homes, revokes, split)

\* The blocks before the commit reach the disk in any order.
Write ==
    /\ Running
    /\ \E w \in writing.todo :
          /\ log' = [log EXCEPT ![w[1]] = w[2]]
          /\ writing' = [writing EXCEPT !.todo = @ \ {w}]
    /\ UNCHANGED <<start, startseq, home, live, head, count, released, store>>

\* The commit block is written once they all have.
Commit ==
    /\ Running
    /\ writing # Idle /\ writing.todo = {}
    /\ log' = [log EXCEPT ![After(head, writing.len - 1)] =
                  LogBlock("commit", writing.seq, << >>, {}, Logged(0))]
    /\ live' = Append(live, [homes |-> writing.homes, revokes |-> writing.revokes,
                             len |-> writing.len])
    /\ head' = After(head, writing.len)
    /\ released' = (released \cup writing.revokes) \ writing.homes
    /\ store' = [b \in Homes |-> IF b \in writing.homes THEN Value(2 * count - 1, b)
                                 ELSE IF b \in writing.revokes THEN home[b] ELSE store[b]]
    /\ writing' = Idle
    /\ UNCHANGED <<start, startseq, home, count>>

\* A freed block is given to a file and written where it is.
WriteDirectly ==
    /\ Running
    /\ \E b \in released \ writing.homes :
          /\ home' = [home EXCEPT ![b] = Value(2 * count, b)]
          /\ store' = [store EXCEPT ![b] = home'[b]]
    /\ UNCHANGED <<log, start, startseq, live, writing, head, count, released>>

Checkpoint ==
    /\ Running
    /\ \E b \in Homes \ released :
          home[b] # store[b] /\ home' = [home EXCEPT ![b] = store[b]]
    /\ UNCHANGED <<log, start, startseq, live, writing, head, count, released, store>>

\* The oldest transaction leaves the log once nothing it logged is needed from it.
AdvanceTail ==
    /\ Running
    /\ live # << >>
    /\ \A b \in Head(live).homes :
          \/ b \in released \/ home[b] = store[b]
          \/ \E i \in 2..Len(live) : b \in live[i].homes \cup live[i].revokes
    /\ start' = After(start, Head(live).len)
    /\ startseq' = (startseq + 1) % SeqMod
    /\ live' = Tail(live)
    /\ UNCHANGED <<log, home, writing, head, count, released, store>>

MarkEmpty ==
    /\ Running
    /\ live = << >> /\ writing = Idle /\ start # 0
    /\ start' = 0
    /\ UNCHANGED <<log, startseq, home, writer>>

\* What the machine held in memory is gone.
Crash ==
    /\ ~crashed
    /\ crashed' = TRUE
    /\ live' = << >> /\ writing' = Idle /\ head' = First /\ count' = 0 /\ released' = {}
    /\ UNCHANGED <<disk, reader, store, damage>>

\* One block of what the log holds goes bad: its checksum, or the one its tag
\* records of it, no longer holds.
Damage ==
    /\ crashed /\ damage = "none" /\ phase = "closed"
    /\ \E p \in Positions :
          /\ log[p].kind # "none"
          /\ log' = [log EXCEPT ![p].sound = FALSE]
          /\ damage' = log[p].kind
    /\ UNCHANGED <<start, startseq, layoutOK, home, reader, writer, crashed>>

-----------------------------------------------------------------------------

Recover == crashed /\ Replay /\ UNCHANGED <<writer, crashed, damage>>
Read == crashed /\ ReadTable /\ UNCHANGED <<writer, crashed, damage>>
Settled == Opened /\ UNCHANGED vars

Next == \/ BeginSome \/ Write \/ Commit \/ WriteDirectly \/ Checkpoint \/ AdvanceTail
        \/ MarkEmpty \/ Crash \/ Damage \/ Recover \/ Read \/ Settled

Spec == Init /\ [][Next]_vars
-----------------------------------------------------------------------------

\* What the reader presents is what a mount would: every block as of the last
\* commit, whatever had reached its home, whatever of an unfinished transaction had
\* reached the log, and no old copy over a block freed and reused since.
RecoversCommitted ==
    outcome = "replayed" /\ damage = "none" => \A b \in Homes : View(b) = store[b]

\* A log its writer left is never refused: only a damaged block, or a superblock
\* the reader would not have opened, makes a replay fail.
SoundLogReplays ==
    outcome = "not_replayed" /\ damage = "none" => Super \in DOMAIN plan.copies

\* A crash costs nothing that was committed, the replay of it included.
CrashLosesNothing == RecoversCommitted /\ SoundLogReplays

\* No copy whose checksum fails is presented, and one that is skipped is reported
\* rather than passed over: a strict read does not open.
DamageIsNotServed ==
    /\ \A b \in DOMAIN overlay : Holds(log[overlay[b].at])
    /\ outcome = "replayed" /\ strict => plan.skipped = {}

\* A replay that fails leaves the homes as they are, whole: nothing of the plan.
FailureLeavesHomes ==
    outcome = "not_replayed" => (\A b \in Homes : View(b) = home[b]) /\ sb = home[Super]

\* Whatever is damaged and wherever recovery stops, what is read is the homes or a replay of
\* copies that verify, never part of one.
NothingHalfServed == DamageIsNotServed /\ FailureLeavesHomes

\* Nothing read before the overlay was installed outlives it: the superblock the
\* reader works from and its cached tables are what the overlay presents, within the
\* cache's bound and each block held once, whatever is read and given up.
CachesFollowOverlay ==
    phase = "open" =>
        /\ sb = View(Super)
        /\ \A i \in 1..Len(cache) : cache[i].value = View(cache[i].key)
        /\ Len(cache) <= Capacity /\ Cardinality(Keys(cache)) = Len(cache)

=============================================================================
