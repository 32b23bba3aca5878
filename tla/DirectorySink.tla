--------------------------- MODULE DirectorySink ---------------------------
(***************************************************************************)
(* Extracting a filesystem into a directory of the host: `write_tree` and  *)
(* what it calls in host/sink.rs. The walk hands over a tree's names,      *)
(* parents first (TreeWalk); directories are filled through handles held   *)
(* on a stack and take their own metadata last.                            *)
(*                                                                         *)
(* The host is outside this repository: it may refuse any call, and its    *)
(* chown, chmod and create disturb what other calls set. A path is the     *)
(* sequence of its names' places, so << >> is the root.                    *)
(***************************************************************************)
EXTENDS Integers, Sequences, FiniteSets

CONSTANTS
    Trees,          \* the trees extracted, each a function from its paths
    LostFound,      \* the name of /lost+found
    MaxDeferred,    \* MAX_DEFERRED_DIRECTORIES
    MaxSkipped,     \* ExtractReport::MAX_SKIPPED
    MaxRefusals     \* bound on what the host refuses in one run

ASSUME BoundsAssumption == MaxDeferred \in Nat /\ MaxSkipped \in Nat /\ MaxRefusals \in Nat

Parent(p) == SubSeq(p, 1, Len(p) - 1)

\* A name is in a directory of the tree, and a directory has one name.
IsTree(t) ==
    /\ DOMAIN t \subseteq Seq(Nat \ {0}) /\ IsFiniteSet(DOMAIN t) /\ << >> \in DOMAIN t
    /\ \A p \in DOMAIN t :
          /\ t[p].shared \in BOOLEAN /\ t[p].search \in BOOLEAN
          /\ t[p].kind = "directory" => ~t[p].shared
          /\ p # << >> => Parent(p) \in DOMAIN t /\ t[Parent(p)].kind = "directory"
    /\ t[<< >>].kind = "directory"

ASSUME TreesAssumption == \A t \in Trees : IsTree(t)

VARIABLES
    tree, ext,                          \* what is extracted, and whether from an ext image
    skip_privileged, skip_unsupported,  \* what the caller opted into
    left,                               \* paths the walk has still to hand over
    open, held,                         \* directories being filled, and put off to the end
    left_out,                           \* the directory left out last, or NoPath
    named,                              \* the first name of each shared node
    report,
    names, inodes,                      \* the destination: its names and their inodes
    status,
    refusals                            \* observer: refusals so far

input == <<tree, ext, skip_privileged, skip_unsupported>>
vars == <<input, left, open, held, left_out, named, report, names, inodes, status, refusals>>

NoPath == <<0>>
Under(p, d) == Len(p) > Len(d) /\ SubSeq(p, 1, Len(d)) = d

\* The walk's order: a parent before its children, siblings in directory order.
Before(p, q) ==
    \/ Under(q, p)
    \/ \E k \in 1..Len(p) : /\ k <= Len(q) /\ p[k] < q[k]
                            /\ SubSeq(p, 1, k - 1) = SubSeq(q, 1, k - 1)
Entry == CHOOSE p \in left : \A q \in left \ {p} : Before(p, q)

MadeByTheFormat(p) == ext /\ p # << >> /\ Head(p) = LostFound

-----------------------------------------------------------------------------
\* The host.

Fresh == [owner |-> "own", mode |-> "building", attrs |-> "none", times |-> "now"]

\* Changing an owner clears set-user bits and capabilities, changing a mode rewrites an
\* ACL, and both change a time.
Chown(m) == [owner |-> "recorded", times |-> "now",
             mode |-> IF m.mode = "recorded" THEN "cleared" ELSE m.mode,
             attrs |-> IF m.attrs = "recorded" THEN "cleared" ELSE m.attrs]
Chmod(m) == [m EXCEPT !.mode = "recorded", !.times = "now",
                      !.attrs = IF @ = "recorded" THEN "rewritten" ELSE @]
SetXattrs(m) == [m EXCEPT !.attrs = "recorded"]
Utimens(m) == [m EXCEPT !.times = "recorded"]

\* A name made, linked or removed in a directory changes its time.
Touched(p) == [inodes EXCEPT ![Parent(p)].times = "now"]
Created(p) == [q \in DOMAIN inodes \cup {p} |-> IF q = p THEN Fresh ELSE Touched(p)[q]]
NamesWith(p, i) == [q \in DOMAIN names \cup {p} |-> IF q = p THEN i ELSE names[q]]

\* What is linked from needs search permission on every directory above it.
Searchable(d) == inodes[d].mode = "building" \/ tree[d].search
Reachable(p) == \A n \in 0..(Len(p) - 1) : Searchable(SubSeq(p, 1, n))

-----------------------------------------------------------------------------

Init ==
    /\ tree \in Trees
    /\ ext \in BOOLEAN /\ skip_privileged \in BOOLEAN /\ skip_unsupported \in BOOLEAN
    /\ left = DOMAIN tree
    /\ open = << >> /\ held = << >> /\ left_out = NoPath
    /\ named = [n \in {} |-> NoPath]
    /\ report = [written |-> 0, skipped |-> {}, more_skipped |-> FALSE, dropped |-> {}]
    /\ names = [p \in {<< >>} |-> p] /\ inodes = [p \in {<< >>} |-> Fresh]
    /\ status = "walking"
    /\ refusals = 0

Fail == status' = "failed"
Refused == refusals < MaxRefusals /\ refusals' = refusals + 1
Dropping(what) == [report EXCEPT !.dropped = @ \cup {what}]
Counted(r) == [r EXCEPT !.written = @ + 1]

NoteSkipped(p) ==
    report' = IF Cardinality(report.skipped) < MaxSkipped
              THEN [report EXCEPT !.skipped = @ \cup {p}] ELSE [report EXCEPT !.more_skipped = TRUE]

\* Mutant: the attributes are set before the owner.
FinishedAttrsFirst(m, refused) ==
    LET set == IF refused \in {"reserved", "unheld"} THEN m ELSE SetXattrs(m)
        owned == Chmod(IF refused = "owner" THEN set ELSE Chown(set))
    IN  IF refused = "times" THEN owned ELSE Utimens(owned)

\* finish_fd and finish_name: owner, mode, attributes and times, in that order.
Finished(m, refused) ==
    LET owned == Chmod(IF refused = "owner" THEN m ELSE Chown(m))
        set == IF refused \in {"reserved", "unheld"} THEN owned ELSE SetXattrs(owned)
    IN  IF refused = "times" THEN set ELSE Utimens(set)

\* Which opt-in steps past a refusal: took_ownership, took_xattr, took_times, refused_name,
\* make_node, held_device, link and note_flags.
OptedIn(refused) ==
    \/ refused \in {"owner", "reserved", "forbidden"} /\ skip_privileged
    \/ refused \in {"unheld", "times", "long", "device", "flags"} /\ skip_unsupported

\* What can go wrong with a node that was made.
Late == {"owner", "reserved", "unheld", "times", "error"}

\* apply_directory
ApplyDirectory(d) ==
    \/ inodes' = [inodes EXCEPT ![d] = Finished(@, "none")] /\ UNCHANGED <<report, status, refusals>>
    \/ /\ Refused
       /\ \E refused \in Late :
             IF OptedIn(refused)
             THEN /\ inodes' = [inodes EXCEPT ![d] = Finished(@, refused)]
                  /\ report' = Dropping(refused) /\ UNCHANGED status
             ELSE Fail /\ UNCHANGED <<inodes, report>>

-----------------------------------------------------------------------------
\* Directories.

\* Mutant: every directory is finished as the walk leaves it.
FinishDirectoryAtOnce(d) == ApplyDirectory(d) /\ UNCHANGED held

\* A directory its owner may not search keeps its building mode until the walk is over.
FinishDirectory(d) ==
    IF tree[d].search THEN ApplyDirectory(d) /\ UNCHANGED held
    ELSE IF Len(held) >= MaxDeferred
         THEN Fail /\ UNCHANGED <<held, inodes, report, refusals>>
         ELSE held' = Append(held, d) /\ UNCHANGED <<inodes, report, status, refusals>>

Top == open[Len(open)]
Pop == open' = SubSeq(open, 1, Len(open) - 1)

Walking == status = "walking" /\ left # {}
Handled == left' = left \ {Entry}

\* BSD flags no destination holds are asked about before an entry is made.
FlagsDropped == Refused /\ OptedIn("flags") /\ UNCHANGED status

\* The destination itself stands for the root.
Root ==
    /\ Walking /\ Entry = << >>
    /\ Handled
    /\ \/ open' = << << >> >> /\ UNCHANGED <<report, status, refusals>>
       \/ FlagsDropped /\ open' = << << >> >> /\ report' = Dropping("flags")
       \/ Refused /\ Fail /\ UNCHANGED <<open, report>>
    /\ UNCHANGED <<input, held, left_out, named, names, inodes>>

PassOver ==
    /\ Walking /\ MadeByTheFormat(Entry)
    /\ Handled
    /\ UNCHANGED <<input, open, held, left_out, named, report, names, inodes, status, refusals>>

IsLeftOut(p) == Under(p, left_out)

LeaveOut ==
    /\ Walking /\ ~MadeByTheFormat(Entry) /\ IsLeftOut(Entry)
    /\ Handled
    /\ UNCHANGED <<input, open, held, left_out, named, report, names, inodes, status, refusals>>

Writing == Walking /\ Entry # << >> /\ ~MadeByTheFormat(Entry) /\ ~IsLeftOut(Entry)

\* The walk has left the directory on top of the stack.
LeaveDirectory ==
    /\ Writing /\ Len(open) > 1 /\ Top # Parent(Entry)
    /\ left_out' = NoPath
    /\ FinishDirectory(Top)
    /\ Pop
    /\ UNCHANGED <<input, left, named, names>>

-----------------------------------------------------------------------------
\* Entries.

\* An entry whose parent is not on top is refused as out of order; a walk hands none over,
\* so no run stops here.
InPlace == Writing /\ Top = Parent(Entry)

Seen(e) == e.shared /\ e.node \in DOMAIN named

\* A later name of a shared node is linked to the first.
Link ==
    /\ InPlace /\ Seen(tree[Entry])
    /\ Handled /\ left_out' = NoPath
    /\ LET first == named[tree[Entry].node]
       IN  \/ /\ Reachable(first)
              /\ names' = NamesWith(Entry, names[first])
              /\ inodes' = Touched(Entry)
              /\ report' = Counted(report)
              /\ UNCHANGED <<status, refusals>>
           \/ /\ ~Reachable(first)
              /\ Fail /\ UNCHANGED <<names, inodes, report, refusals>>
           \/ /\ Refused
              /\ \E refused \in {"forbidden", "long", "error"} :
                    IF OptedIn(refused) THEN NoteSkipped(Entry) /\ UNCHANGED status
                    ELSE Fail /\ UNCHANGED report
              /\ UNCHANGED <<names, inodes>>
    /\ UNCHANGED <<input, open, held, named>>

NewEntry == InPlace /\ ~Seen(tree[Entry])

\* What can stop an entry before it has a name that stays: its flags, its name, a file
\* past the size cap, a node this process may not make or the host made another of.
Early(kind) ==
    {"long", "error"} \cup (IF OptedIn("flags") THEN {} ELSE {"flags"})
    \cup (IF kind = "file" THEN {"size"} ELSE {})
    \cup (IF kind = "special" THEN {"forbidden", "device"} ELSE {})

\* The entry is left out and named in the report, a directory with everything under it.
Unmade ==
    /\ NewEntry
    /\ Refused
    /\ Handled
    /\ left_out' = IF tree[Entry].kind = "directory" THEN Entry ELSE NoPath
    /\ \E refused \in Early(tree[Entry].kind) :
          /\ inodes' = IF refused = "device" THEN Touched(Entry) ELSE inodes
          /\ IF OptedIn(refused) THEN NoteSkipped(Entry) /\ UNCHANGED status
             ELSE Fail /\ UNCHANGED report
    /\ UNCHANGED <<input, open, held, named, names>>

MakeDirectory ==
    /\ NewEntry /\ tree[Entry].kind = "directory"
    /\ Handled /\ left_out' = NoPath
    /\ names' = NamesWith(Entry, Entry) /\ inodes' = Created(Entry)
    /\ open' = Append(open, Entry)
    /\ \/ report' = Counted(report) /\ UNCHANGED <<status, refusals>>
       \/ FlagsDropped /\ report' = Counted(Dropping("flags"))
    /\ UNCHANGED <<input, held, named>>

\* The name a later one links to, known only once it exists.
NamedWith(p) ==
    IF tree[p].shared
    THEN [n \in DOMAIN named \cup {tree[p].node} |-> IF n = tree[p].node THEN p ELSE named[n]]
    ELSE named

\* A file is created and filled, a special node made; its name is recorded, and its
\* metadata is set at once.
MakeLeaf ==
    /\ NewEntry /\ tree[Entry].kind # "directory"
    /\ Handled /\ left_out' = NoPath
    /\ names' = NamesWith(Entry, Entry)
    /\ \/ /\ inodes' = [Created(Entry) EXCEPT ![Entry] = Finished(@, "none")]
          /\ named' = NamedWith(Entry)
          /\ \/ report' = Counted(report) /\ UNCHANGED <<status, refusals>>
             \/ FlagsDropped /\ report' = Counted(Dropping("flags"))
       \/ /\ Refused
          /\ \E refused \in Late \cup {"short"} :
                IF OptedIn(refused)
                THEN /\ inodes' = [Created(Entry) EXCEPT ![Entry] = Finished(@, refused)]
                     /\ named' = NamedWith(Entry)
                     /\ report' = Counted(Dropping(refused)) /\ UNCHANGED status
                ELSE Fail /\ inodes' = Created(Entry) /\ UNCHANGED <<named, report>>
    /\ UNCHANGED <<input, open, held>>

-----------------------------------------------------------------------------
\* The end of the walk.

Drain ==
    /\ status = "walking" /\ left = {} /\ open # << >>
    /\ FinishDirectory(Top)
    /\ Pop
    /\ UNCHANGED <<input, left, left_out, named, names>>

ApplyHeld ==
    /\ status = "walking" /\ left = {} /\ open = << >> /\ held # << >>
    /\ ApplyDirectory(Head(held))
    /\ held' = Tail(held)
    /\ UNCHANGED <<input, left, open, left_out, named, names>>

Finish ==
    /\ status = "walking" /\ left = {} /\ open = << >> /\ held = << >>
    /\ status' = "done"
    /\ UNCHANGED <<input, left, open, held, left_out, named, report, names, inodes, refusals>>

Step == \/ Root \/ PassOver \/ LeaveOut \/ LeaveDirectory \/ Link \/ Unmade
        \/ MakeDirectory \/ MakeLeaf \/ Drain \/ ApplyHeld \/ Finish

Returned == status # "walking" /\ UNCHANGED vars

Next == Step \/ Returned

Spec == Init /\ [][Next]_vars

-----------------------------------------------------------------------------

Fields == [owner : {"own", "recorded"}, mode : {"building", "recorded", "cleared"},
           attrs : {"none", "recorded", "cleared", "rewritten"}, times : {"now", "recorded"}]

TypeOK ==
    /\ left \subseteq DOMAIN tree
    /\ DOMAIN names \subseteq DOMAIN tree /\ DOMAIN inodes \subseteq DOMAIN names
    /\ \A p \in DOMAIN names : names[p] \in DOMAIN inodes
    /\ \A p \in DOMAIN inodes : inodes[p] \in Fields
    /\ \A k \in 1..Len(open) : open[k] \in DOMAIN inodes
    /\ \A k \in 1..Len(held) : held[k] \in DOMAIN inodes
    /\ status \in {"walking", "done", "failed"}
    /\ report.written \in Nat /\ report.skipped \subseteq DOMAIN tree

\* An inode carries what the image records but for what the report says was dropped.
Carries(m) ==
    /\ m.mode = "recorded"
    /\ m.owner = "recorded" \/ "owner" \in report.dropped
    /\ m.attrs = "recorded" \/ (m.attrs = "none" /\ {"reserved", "unheld"} \cap report.dropped # {})
    /\ m.times = "recorded" \/ "times" \in report.dropped

Kept == {p \in DOMAIN tree : ~MadeByTheFormat(p)}
Reported(p) == report.more_skipped \/ \E q \in report.skipped : q = p \/ Under(p, q)

\* "an extraction that cannot reproduce the tree says so instead of quietly producing a
\* different one": a run that succeeds has written every name it does not report as left
\* out, one inode for each node with its metadata as it was recorded, whatever was made or
\* linked after it, and counted them.
FaithfulOrReported ==
    status = "done" =>
        /\ \A p \in Kept : p \in DOMAIN names \/ Reported(p)
        /\ DOMAIN names \subseteq Kept
        /\ \A p \in DOMAIN names : Carries(inodes[names[p]])
        /\ \A p, q \in DOMAIN names :
              names[p] = names[q] <=>
                  p = q \/ (tree[p].shared /\ tree[q].shared /\ tree[p].node = tree[q].node)
        /\ report.written = Cardinality(DOMAIN names) - 1

\* "Every directory along the way is one that can be searched": while entries remain, the
\* first name of every shared node can be reached.
FirstNamesReachable ==
    status = "walking" /\ left # {} => \A n \in DOMAIN named : Reachable(named[n])
=============================================================================
