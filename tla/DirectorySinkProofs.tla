------------------------ MODULE DirectorySinkProofs ------------------------
(***************************************************************************)
(* An extraction into a directory is faithful or says that it is not, and  *)
(* what a hard link is made from can be reached, proved for every tree,    *)
(* option and bound, and however often the host refuses.                   *)
(***************************************************************************)
EXTENDS DirectorySink, FiniteSetTheorems, SequenceTheorems, WellFoundedInduction, TLAPS

Handed == DOMAIN tree \ left
Began == << >> \notin left
IsDirectory(p) == tree[p].kind = "directory"
Opened == {open[k] : k \in 1..Len(open)}
Waiting == {held[k] : k \in 1..Len(held)}

\* What was handed over comes before what is left.
InOrder == left \subseteq DOMAIN tree /\ \A p \in Handed, q \in left : Before(p, q)

\* The directories being filled lie one in the other, and are not yet among those put off.
Stacked ==
    /\ open \in Seq(DOMAIN names) /\ held \in Seq(DOMAIN names)
    /\ \A k \in 1..Len(open) : Len(open[k]) = k - 1 /\ IsDirectory(open[k])
    /\ \A k \in 1..Len(held) : IsDirectory(held[k]) /\ ~tree[held[k]].search
    /\ \A j, k \in 1..Len(held) : held[j] = held[k] => j = k
    /\ Opened \cap Waiting = {}
    /\ ~Began => open = << >> /\ held = << >>
    /\ Began /\ left # {} => open # << >>

\* Nothing is left of a directory that was made and is not being filled, nor of one that was
\* not made unless it is the one left out last.
NothingBehind ==
    /\ Began => \A d \in DOMAIN names \ Opened, q \in left : IsDirectory(d) => ~Under(q, d)
    /\ \A d \in Handed \ DOMAIN names, q \in left :
          Under(q, d) => MadeByTheFormat(d) \/ d = left_out \/ Under(d, left_out)

Reasons == Late \cup {"short", "flags"}

\* Every name handed over was written or is reported, and every name written is counted.
Accounted ==
    /\ report \in [written : Nat, skipped : SUBSET DOMAIN tree, more_skipped : BOOLEAN,
                   dropped : SUBSET Reasons]
    /\ \A p \in Handed \cap Kept : p \in DOMAIN names \/ Reported(p)
    /\ left_out = NoPath \/ (left_out \in Handed /\ (report.more_skipped \/ left_out \in report.skipped))
    /\ << >> \in DOMAIN names /\ DOMAIN names \subseteq Kept \cap (Handed \cup {<< >>})
    /\ report.written = Cardinality(DOMAIN names) - 1

\* A name is its own inode's or, of a shared node, that of the first.
NamedOnce ==
    /\ \A p \in DOMAIN names : \A k \in 0..Len(p) : SubSeq(p, 1, k) \in DOMAIN names
    /\ \A n \in DOMAIN named :
          named[n] \in DOMAIN names /\ tree[named[n]].shared /\ tree[named[n]].node = n
    /\ \A p \in DOMAIN names :
          IF tree[p].shared
          THEN tree[p].node \in DOMAIN named /\ names[p] = named[tree[p].node]
          ELSE names[p] = p
    /\ DOMAIN inodes = {p \in DOMAIN names : names[p] = p}

\* What an inode may lack is what the report says was dropped.
Complete(m, dropped) ==
    /\ m.mode = "recorded"
    /\ m.owner = "recorded" \/ "owner" \in dropped
    /\ m.attrs = "recorded" \/ (m.attrs = "none" /\ {"reserved", "unheld"} \cap dropped # {})
    /\ m.times = "recorded" \/ "times" \in dropped

\* A directory is as it was made until it is finished; all else is as the image records.
Dressed ==
    /\ \A p \in DOMAIN inodes :
          IF p \in Opened \cup Waiting \/ (p = << >> /\ ~Began)
          THEN inodes[p] = Fresh ELSE Complete(inodes[p], report.dropped)
    /\ left # {} => \A p \in DOMAIN inodes : IsDirectory(p) => Searchable(p)

Faithful ==
    /\ InOrder /\ Stacked /\ NothingBehind /\ Accounted /\ NamedOnce /\ Dressed
    /\ status = "done" => left = {} /\ open = << >> /\ held = << >>

SinkInv == tree \in Trees /\ (status # "failed" => Faithful)
-----------------------------------------------------------------------------
\* Paths, and the order a walk hands them over in.

Paths == Seq(Nat \ {0})

\* A set of naturals has a least one.
LEMMA LeastNat ==
    ASSUME NEW T \in SUBSET Nat, T # {}
    PROVE  \E x \in T : \A y \in T : x <= y
<1>1. PICK x \in T : \A y \in T : ~(<<y, x>> \in OpToRel(<, Nat))
  BY NatLessThanWellFounded, WFMin
<1>2. \A y \in T : ~(y < x)
  BY <1>1 DEF OpToRel
<1> QED
  BY <1>2

\* The first names of a path are a path.
LEMMA PrefixFacts ==
    ASSUME NEW p \in Paths, NEW k \in 0..Len(p)
    PROVE  /\ SubSeq(p, 1, k) \in Paths /\ Len(SubSeq(p, 1, k)) = k
           /\ \A i \in 1..k : SubSeq(p, 1, k)[i] = p[i]
<1>1. \A i \in 1..k : p[i] \in Nat \ {0}
  BY DEF Paths
<1>2. k \in Int /\ 1 \in Int
  OBVIOUS
<1>3. /\ SubSeq(p, 1, k) \in Seq(Nat \ {0})
      /\ Len(SubSeq(p, 1, k)) = IF 1 <= k THEN k - 1 + 1 ELSE 0
      /\ \A i \in 1..(k - 1 + 1) : SubSeq(p, 1, k)[i] = p[1 + i - 1]
  BY <1>1, <1>2, SubSeqProperties
<1> QED
  BY <1>3 DEF Paths

\* Two paths of the same names are one.
LEMMA SamePath ==
    ASSUME NEW p \in Paths, NEW q \in Paths, Len(p) = Len(q), \A i \in 1..Len(p) : p[i] = q[i]
    PROVE  p = q
  BY SeqEqual DEF Paths

\* A prefix of a prefix is one.
LEMMA PrefixOfPrefix ==
    ASSUME NEW p \in Paths, NEW k \in 0..Len(p), NEW j \in 0..k
    PROVE  SubSeq(SubSeq(p, 1, k), 1, j) = SubSeq(p, 1, j)
<1> DEFINE q == SubSeq(p, 1, k)
<1>1. q \in Paths /\ Len(q) = k /\ \A i \in 1..k : q[i] = p[i]
  BY PrefixFacts
<1>2. /\ SubSeq(q, 1, j) \in Paths /\ Len(SubSeq(q, 1, j)) = j
      /\ \A i \in 1..j : SubSeq(q, 1, j)[i] = q[i]
  BY <1>1, PrefixFacts
<1>3. /\ SubSeq(p, 1, j) \in Paths /\ Len(SubSeq(p, 1, j)) = j
      /\ \A i \in 1..j : SubSeq(p, 1, j)[i] = p[i]
  BY PrefixFacts
<1> QED
  BY <1>1, <1>2, <1>3, SamePath

LEMMA WholePrefix ==
    ASSUME NEW p \in Paths
    PROVE  SubSeq(p, 1, Len(p)) = p /\ SubSeq(p, 1, 0) = << >>
<1>1. Len(p) \in 0..Len(p) /\ 0 \in 0..Len(p)
  BY DEF Paths
<1>2. SubSeq(p, 1, Len(p)) = p
  BY <1>1, PrefixFacts, SamePath
<1> QED
  BY <1>2, SubSeqEmpty

\* What lies under a directory begins with its names.
LEMMA UnderMeans ==
    ASSUME NEW p \in Paths, NEW d \in Paths
    PROVE  Under(p, d) <=> Len(p) > Len(d) /\ \A i \in 1..Len(d) : p[i] = d[i]
<1>1. Len(p) \in Nat /\ Len(d) \in Nat
  BY DEF Paths
<1> SUFFICES ASSUME Len(p) > Len(d)
             PROVE  SubSeq(p, 1, Len(d)) = d <=> \A i \in 1..Len(d) : p[i] = d[i]
  BY DEF Under
<1>2. Len(d) \in 0..Len(p)
  BY <1>1
<1>3. /\ SubSeq(p, 1, Len(d)) \in Paths /\ Len(SubSeq(p, 1, Len(d))) = Len(d)
      /\ \A i \in 1..Len(d) : SubSeq(p, 1, Len(d))[i] = p[i]
  BY <1>2, PrefixFacts
<1> QED
  BY <1>3, SamePath

\* Where two paths part.
Parts(p, q, k) ==
    /\ k \in 1..Len(p) /\ k <= Len(q) /\ p[k] < q[k] /\ \A i \in 1..(k - 1) : p[i] = q[i]

LEMMA BeforeMeans ==
    ASSUME NEW p \in Paths, NEW q \in Paths
    PROVE  Before(p, q) <=> Under(q, p) \/ \E k \in 1..Len(p) : Parts(p, q, k)
<1> SUFFICES ASSUME NEW k \in 1..Len(p), k <= Len(q)
             PROVE  SubSeq(p, 1, k - 1) = SubSeq(q, 1, k - 1) <=> \A i \in 1..(k - 1) : p[i] = q[i]
  BY DEF Before, Parts
<1>1. Len(p) \in Nat /\ Len(q) \in Nat
  BY DEF Paths
<1>2. k - 1 \in 0..Len(p) /\ k - 1 \in 0..Len(q)
  BY <1>1
<1>3. /\ SubSeq(p, 1, k - 1) \in Paths /\ Len(SubSeq(p, 1, k - 1)) = k - 1
      /\ \A i \in 1..(k - 1) : SubSeq(p, 1, k - 1)[i] = p[i]
  BY <1>2, PrefixFacts
<1>4. /\ SubSeq(q, 1, k - 1) \in Paths /\ Len(SubSeq(q, 1, k - 1)) = k - 1
      /\ \A i \in 1..(k - 1) : SubSeq(q, 1, k - 1)[i] = q[i]
  BY <1>2, PrefixFacts
<1> QED
  BY <1>3, <1>4, SamePath

\* One of two paths comes first, and not both.
LEMMA OneWay ==
    ASSUME NEW p \in Paths, NEW q \in Paths, Before(p, q)
    PROVE  ~Before(q, p)
<1>1. Len(p) \in Nat /\ Len(q) \in Nat /\ (\A i \in 1..Len(p) : p[i] \in Nat) /\ \A i \in 1..Len(q) : q[i] \in Nat
  BY DEF Paths
<1>2. CASE Under(q, p)
  <2>1. ~Under(p, q)
    BY <1>1, <1>2, UnderMeans
  <2>2. ASSUME NEW k \in 1..Len(q), Parts(q, p, k) PROVE FALSE
    <3>1. k \in 1..Len(p) /\ q[k] < p[k]
      BY <2>2, <1>1 DEF Parts
    <3>2. q[k] = p[k]
      BY <3>1, <1>2, UnderMeans
    <3> QED
      BY <3>1, <3>2, <1>1
  <2> QED
    BY <2>1, <2>2, BeforeMeans
<1>3. CASE \E k \in 1..Len(p) : Parts(p, q, k)
  <2>1. PICK k \in 1..Len(p) : Parts(p, q, k)
    BY <1>3
  <2>2. k \in 1..Len(q) /\ p[k] < q[k] /\ \A i \in 1..(k - 1) : p[i] = q[i]
    BY <2>1, <1>1 DEF Parts
  <2>3. ~Under(p, q)
    <3>1. SUFFICES ASSUME Under(p, q) PROVE FALSE
      OBVIOUS
    <3>2. p[k] = q[k]
      BY <3>1, <2>2, UnderMeans
    <3> QED
      BY <3>2, <2>2, <1>1
  <2>4. ASSUME NEW j \in 1..Len(q), Parts(q, p, j) PROVE FALSE
    <3>1. j \in 1..Len(p) /\ q[j] < p[j] /\ \A i \in 1..(j - 1) : q[i] = p[i]
      BY <2>4, <1>1 DEF Parts
    <3>2. CASE j < k
      BY <3>1, <3>2, <2>2, <1>1
    <3>3. CASE k < j
      BY <3>1, <3>3, <2>2, <1>1
    <3>4. CASE j = k
      BY <3>1, <3>4, <2>2, <1>1
    <3> QED
      BY <3>2, <3>3, <3>4, <1>1
  <2> QED
    BY <2>3, <2>4, BeforeMeans
<1> QED
  BY <1>2, <1>3, BeforeMeans

LEMMA EitherWay ==
    ASSUME NEW p \in Paths, NEW q \in Paths, p # q
    PROVE  Before(p, q) \/ Before(q, p)
<1>1. Len(p) \in Nat /\ Len(q) \in Nat /\ (\A i \in 1..Len(p) : p[i] \in Nat) /\ \A i \in 1..Len(q) : q[i] \in Nat
  BY DEF Paths
<1> DEFINE D == {k \in Nat : k \in 1..Len(p) /\ k \in 1..Len(q) /\ p[k] # q[k]}
<1>2. CASE D = {}
  <2>1. \A k \in 1..Len(p) : k \in 1..Len(q) => p[k] = q[k]
    BY <1>2, <1>1
  <2>2. Len(p) # Len(q)
    BY <2>1, SamePath
  <2>3. CASE Len(p) < Len(q)
    <3>1. \A i \in 1..Len(p) : q[i] = p[i]
      BY <2>1, <2>3, <1>1
    <3> QED
      BY <3>1, <2>3, <1>1, UnderMeans, BeforeMeans
  <2>4. CASE Len(q) < Len(p)
    <3>1. \A i \in 1..Len(q) : p[i] = q[i]
      BY <2>1, <2>4, <1>1
    <3> QED
      BY <3>1, <2>4, <1>1, UnderMeans, BeforeMeans
  <2> QED
    BY <2>2, <2>3, <2>4, <1>1
<1>3. CASE D # {}
  <2>1. PICK k \in D : \A j \in D : k <= j
    BY <1>3, LeastNat
  <2>2. \A i \in 1..(k - 1) : p[i] = q[i]
    <3> SUFFICES ASSUME NEW i \in 1..(k - 1) PROVE p[i] = q[i]
      OBVIOUS
    <3>1. i \notin D /\ i \in Nat /\ i \in 1..Len(p) /\ i \in 1..Len(q)
      BY <2>1, <1>1
    <3> QED
      BY <3>1
  <2>3. Parts(p, q, k) \/ Parts(q, p, k)
    BY <2>1, <2>2, <1>1 DEF Parts
  <2>4. k \in 1..Len(p) /\ k \in 1..Len(q)
    OBVIOUS
  <2> QED
    BY <2>3, <2>4, BeforeMeans
<1> QED
  BY <1>2, <1>3

LEMMA Onward ==
    ASSUME NEW p \in Paths, NEW q \in Paths, NEW r \in Paths, Before(p, q), Before(q, r)
    PROVE  Before(p, r)
<1>1. /\ Len(p) \in Nat /\ Len(q) \in Nat /\ Len(r) \in Nat /\ (\A i \in 1..Len(p) : p[i] \in Nat)
      /\ (\A i \in 1..Len(q) : q[i] \in Nat) /\ \A i \in 1..Len(r) : r[i] \in Nat
  BY DEF Paths
<1>2. ASSUME Under(q, p), Under(r, q) PROVE Before(p, r)
  <2>1. Under(r, p)
    <3>1. \A i \in 1..Len(p) : i \in 1..Len(q) /\ q[i] = p[i] /\ r[i] = q[i]
      BY <1>1, <1>2, UnderMeans
    <3> QED
      BY <3>1, <1>1, <1>2, UnderMeans
  <2> QED
    BY <2>1, BeforeMeans
<1>3. ASSUME Under(q, p), NEW k \in 1..Len(q), Parts(q, r, k) PROVE Before(p, r)
  <2>1. k \in 1..Len(r) /\ q[k] < r[k] /\ (\A i \in 1..(k - 1) : q[i] = r[i]) /\ (\A i \in 1..Len(p) : q[i] = p[i])
    BY <1>3, <1>1, UnderMeans DEF Parts
  <2>2. CASE k <= Len(p)
    <3>1. k \in 1..Len(p) /\ p[k] = q[k]
      BY <2>1, <2>2
    <3>2. \A i \in 1..(k - 1) : p[i] = r[i]
      <4> SUFFICES ASSUME NEW i \in 1..(k - 1) PROVE p[i] = r[i]
        OBVIOUS
      <4>1. i \in 1..Len(p)
        BY <3>1, <1>1
      <4> QED
        BY <4>1, <2>1
    <3>3. Parts(p, r, k)
      BY <2>1, <3>1, <3>2 DEF Parts
    <3> QED
      BY <3>1, <3>3, BeforeMeans
  <2>3. CASE k > Len(p)
    <3>1. \A i \in 1..Len(p) : r[i] = p[i]
      BY <2>1, <2>3, <1>1
    <3>2. Len(r) > Len(p)
      BY <2>1, <2>3, <1>1
    <3> QED
      BY <3>1, <3>2, UnderMeans, BeforeMeans
  <2> QED
    BY <2>2, <2>3, <1>1
<1>4. ASSUME NEW k \in 1..Len(p), Parts(p, q, k), Under(r, q) PROVE Before(p, r)
  <2>1. k \in 1..Len(q) /\ p[k] < q[k] /\ (\A i \in 1..(k - 1) : p[i] = q[i])
    BY <1>4, <1>1 DEF Parts
  <2>2. \A i \in 1..Len(q) : r[i] = q[i]
    BY <1>4, UnderMeans
  <2>3. \A i \in 1..(k - 1) : p[i] = r[i]
    <3> SUFFICES ASSUME NEW i \in 1..(k - 1) PROVE p[i] = r[i]
      OBVIOUS
    <3>1. i \in 1..Len(q)
      BY <2>1, <1>1
    <3> QED
      BY <3>1, <2>1, <2>2
  <2>4. Parts(p, r, k)
    BY <2>1, <2>2, <2>3, <1>1, <1>4, UnderMeans DEF Parts
  <2> QED
    BY <2>4, BeforeMeans
<1>5. ASSUME NEW k \in 1..Len(p), Parts(p, q, k), NEW j \in 1..Len(q), Parts(q, r, j) PROVE Before(p, r)
  <2>1. k \in 1..Len(q) /\ p[k] < q[k] /\ (\A i \in 1..(k - 1) : p[i] = q[i])
    BY <1>5, <1>1 DEF Parts
  <2>2. j \in 1..Len(r) /\ q[j] < r[j] /\ (\A i \in 1..(j - 1) : q[i] = r[i])
    BY <1>5, <1>1 DEF Parts
  <2> DEFINE l == IF k <= j THEN k ELSE j
  <2>3. l \in 1..Len(p) /\ l \in 1..Len(r) /\ l <= k /\ l <= j
    BY <2>1, <2>2, <1>1
  <2>4. \A i \in 1..(l - 1) : p[i] = r[i]
    BY <2>1, <2>2, <2>3, <1>1
  <2>5. p[l] < r[l]
    <3>1. p[l] <= q[l] /\ q[l] <= r[l] /\ (p[l] # q[l] \/ q[l] # r[l])
      BY <2>1, <2>2, <1>1
    <3>2. l \in 1..Len(q)
      BY <2>1, <2>2
    <3> QED
      BY <3>1, <3>2, <2>3, <1>1
  <2>6. Parts(p, r, l)
    BY <2>3, <2>4, <2>5, <1>1 DEF Parts
  <2> QED
    BY <2>3, <2>6, BeforeMeans
<1> QED
  BY <1>2, <1>3, <1>4, <1>5, BeforeMeans

\* Of finitely many paths one comes first.
LEMMA FirstOfThem ==
    ASSUME NEW L, L \subseteq Paths, IsFiniteSet(L), L # {}
    PROVE  \E p \in L : \A q \in L \ {p} : Before(p, q)
<1> DEFINE Firstless(S) == ~\E p \in S : \A q \in S \ {p} : Before(p, q)
           T == {n \in Nat : \E S \in SUBSET L : S # {} /\ Cardinality(S) = n /\ Firstless(S)}
<1> SUFFICES ASSUME Firstless(L) PROVE FALSE
  OBVIOUS
<1>1. T \in SUBSET Nat /\ T # {}
  <2>1. Cardinality(L) \in Nat
    BY FS_CardinalityType
  <2> QED
    BY <2>1
<1>2. PICK n \in T : \A m \in T : n <= m
  BY <1>1, LeastNat
<1>3. PICK S \in SUBSET L : S # {} /\ Cardinality(S) = n /\ Firstless(S)
  OBVIOUS
<1>4. PICK x \in S : TRUE
  BY <1>3
<1> DEFINE R == S \ {x}
<1>5. IsFiniteSet(S) /\ IsFiniteSet(R) /\ Cardinality(R) = n - 1 /\ n \in Nat
  BY <1>3, <1>4, FS_Subset, FS_RemoveElement
<1>6. R # {}
  BY <1>3, <1>4
<1>7. ~Firstless(R)
  <2> SUFFICES ASSUME Firstless(R) PROVE FALSE
    OBVIOUS
  <2>1. Cardinality(R) \in Nat
    BY <1>5, FS_CardinalityType
  <2>2. R \in SUBSET L /\ n - 1 \in Nat
    BY <1>5, <2>1
  <2>3. n - 1 \in T
    BY <1>5, <1>6, <2>2
  <2> QED
    BY <2>3, <1>2, <1>5
<1>8. PICK y \in R : \A q \in R \ {y} : Before(y, q)
  BY <1>7
<1>9. x \in Paths /\ y \in Paths /\ x # y
  BY <1>3, <1>4
<1>10. CASE Before(y, x)
  <2>1. \A q \in S \ {y} : Before(y, q)
    BY <1>8, <1>10
  <2> QED
    BY <2>1, <1>3
<1>11. CASE Before(x, y)
  <2>1. ASSUME NEW q \in S \ {x} PROVE Before(x, q)
    <3>1. q = y \/ Before(y, q)
      BY <2>1, <1>8
    <3> QED
      BY <3>1, <1>3, <1>9, <1>11, Onward
  <2> QED
    BY <2>1, <1>3, <1>4
<1> QED
  BY <1>9, <1>10, <1>11, EitherWay

\* Between a directory and what lies under it there is nothing but what lies under it.
LEMMA Between ==
    ASSUME NEW d \in Paths, NEW e \in Paths, NEW q \in Paths,
           Before(d, e), e = q \/ Before(e, q), Under(q, d)
    PROVE  Under(e, d)
<1>1. /\ Len(d) \in Nat /\ Len(e) \in Nat /\ Len(q) \in Nat /\ (\A i \in 1..Len(d) : d[i] \in Nat)
      /\ (\A i \in 1..Len(e) : e[i] \in Nat) /\ \A i \in 1..Len(q) : q[i] \in Nat
  BY DEF Paths
<1> SUFFICES ASSUME ~Under(e, d) PROVE FALSE
  OBVIOUS
<1>2. PICK k \in 1..Len(d) : Parts(d, e, k)
  BY BeforeMeans
<1>3. k \in 1..Len(e) /\ d[k] < e[k] /\ (\A i \in 1..(k - 1) : d[i] = e[i])
  BY <1>2, <1>1 DEF Parts
<1>4. Len(q) > Len(d) /\ \A i \in 1..Len(d) : q[i] = d[i]
  BY UnderMeans
<1>5. \A i \in 1..(k - 1) : q[i] = e[i]
  BY <1>3, <1>4, <1>1
<1>6. Parts(q, e, k)
  BY <1>3, <1>4, <1>5, <1>1 DEF Parts
<1>7. Before(q, e)
  <2>1. k \in 1..Len(q)
    BY <1>4, <1>1
  <2> QED
    BY <2>1, <1>6, BeforeMeans
<1> QED
  BY <1>7, OneWay

\* Under what is under a directory is under it.
LEMMA UnderUnder ==
    ASSUME NEW p \in Paths, NEW q \in Paths, NEW r \in Paths, Under(p, q), Under(q, r)
    PROVE  Under(p, r)
<1>1. /\ Len(p) \in Nat /\ Len(q) \in Nat /\ Len(r) \in Nat
  BY DEF Paths
<1> QED
  BY <1>1, UnderMeans

LEMMA ParentFacts ==
    ASSUME NEW p \in Paths, p # << >>
    PROVE  /\ Len(p) \in Nat \ {0} /\ Len(p) - 1 \in 0..Len(p)
           /\ Parent(p) \in Paths /\ Len(Parent(p)) = Len(p) - 1 /\ Under(p, Parent(p)) /\ Parent(p) # p
           /\ \A d \in Paths : Under(p, d) => d = Parent(p) \/ Under(Parent(p), d)
<1>1. Len(p) \in Nat \ {0}
  BY DEF Paths
<1>2. Len(p) - 1 \in 0..Len(p)
  BY <1>1
<1>3. Parent(p) \in Paths /\ Len(Parent(p)) = Len(p) - 1 /\ \A i \in 1..(Len(p) - 1) : Parent(p)[i] = p[i]
  BY <1>2, PrefixFacts DEF Parent
<1>4. Under(p, Parent(p))
  BY <1>1, <1>3, UnderMeans
<1>5. ASSUME NEW d \in Paths, Under(p, d) PROVE d = Parent(p) \/ Under(Parent(p), d)
  <2>1. Len(d) \in Nat /\ Len(p) > Len(d) /\ \A i \in 1..Len(d) : p[i] = d[i]
    BY <1>5, UnderMeans DEF Paths
  <2>2. \A i \in 1..Len(d) : Parent(p)[i] = d[i]
    BY <2>1, <1>1, <1>3
  <2>3. CASE Len(d) = Len(p) - 1
    BY <2>2, <2>3, <1>3, SamePath
  <2>4. CASE Len(d) < Len(p) - 1
    BY <2>2, <2>4, <1>3, UnderMeans
  <2> QED
    BY <2>1, <2>3, <2>4, <1>1
<1> QED
  BY <1>1, <1>2, <1>3, <1>4, <1>5

-----------------------------------------------------------------------------
\* Trees.

LEMMA TreeFacts ==
    ASSUME tree \in Trees
    PROVE  /\ DOMAIN tree \subseteq Paths /\ IsFiniteSet(DOMAIN tree) /\ << >> \in DOMAIN tree
           /\ \A p \in DOMAIN tree :
                 /\ tree[p].shared \in BOOLEAN /\ tree[p].search \in BOOLEAN
                 /\ IsDirectory(p) => ~tree[p].shared
                 /\ p # << >> => Parent(p) \in DOMAIN tree /\ IsDirectory(Parent(p))
           /\ IsDirectory(<< >>)
  BY TreesAssumption DEF IsTree, Paths, IsDirectory

\* Every directory on the way to a name is one of the tree.
LEMMA WayDown ==
    ASSUME tree \in Trees, NEW p \in DOMAIN tree, NEW k \in 0..Len(p)
    PROVE  /\ SubSeq(p, 1, k) \in DOMAIN tree
           /\ k < Len(p) => IsDirectory(SubSeq(p, 1, k))
<1>1. p \in Paths /\ Len(p) \in Nat
  BY TreeFacts DEF Paths
<1> DEFINE Fine(n) == /\ SubSeq(p, 1, n) \in DOMAIN tree
                      /\ n < Len(p) => IsDirectory(SubSeq(p, 1, n))
           T == {n \in Nat : n <= Len(p) /\ ~Fine(Len(p) - n)}
<1> HIDE DEF Fine
<1>2. SUFFICES ASSUME T # {} PROVE FALSE
  <2>1. Len(p) - k \in Nat /\ Len(p) - k <= Len(p) /\ Len(p) - (Len(p) - k) = k
    BY <1>1
  <2>2. Len(p) - k \notin T => Fine(k)
    BY <2>1
  <2> QED
    BY <1>2, <2>2 DEF Fine
<1>3. PICK n \in T : \A m \in T : n <= m
  BY <1>2, LeastNat
<1>4. n # 0
  <2>1. Fine(Len(p))
    <3>1. SubSeq(p, 1, Len(p)) = p /\ ~(Len(p) < Len(p))
      BY <1>1, WholePrefix
    <3> QED
      BY <3>1 DEF Fine
  <2>2. ASSUME n = 0 PROVE Len(p) - n = Len(p)
    BY <1>1, <2>2
  <2>3. ~Fine(Len(p) - n)
    OBVIOUS
  <2> QED
    BY <2>1, <2>2, <2>3
<1> DEFINE l == Len(p) - (n - 1)
<1>5. n - 1 \in Nat /\ n - 1 <= Len(p) /\ l \in 1..Len(p) /\ l - 1 = Len(p) - n
  BY <1>1, <1>4
<1>6. Fine(l)
  BY <1>3, <1>5
<1> DEFINE q == SubSeq(p, 1, l)
<1>7. q \in DOMAIN tree /\ Len(q) = l /\ q # << >>
  <2>1. q \in DOMAIN tree
    BY <1>6 DEF Fine
  <2>2. Len(q) = l /\ l # 0
    BY <1>5, <1>1, PrefixFacts
  <2> QED
    BY <2>1, <2>2
<1>8. Parent(q) = SubSeq(p, 1, l - 1)
  BY <1>1, <1>5, <1>7, PrefixOfPrefix DEF Parent
<1>9. Fine(l - 1)
  BY <1>7, <1>8, TreeFacts DEF Fine
<1> QED
  BY <1>9, <1>5

\* What something lies under is a directory, and one the walk hands over itself.
LEMMA UnderIsDirectory ==
    ASSUME tree \in Trees, NEW q \in DOMAIN tree, NEW d \in Paths, Under(q, d)
    PROVE  d \in DOMAIN tree /\ IsDirectory(d)
<1>1. q \in Paths /\ Len(q) \in Nat /\ Len(d) \in Nat
  BY TreeFacts DEF Paths
<1>2. Len(d) \in 0..Len(q) /\ Len(d) < Len(q) /\ SubSeq(q, 1, Len(d)) = d
  BY <1>1 DEF Under
<1> QED
  BY <1>2, WayDown

\* No path begins with the place no name has.
LEMMA NotUnderNothing ==
    ASSUME NEW p \in Paths
    PROVE  p # NoPath /\ ~Under(p, NoPath)
<1>1. NoPath[1] = 0 /\ Len(NoPath) = 1 /\ Len(p) \in Nat
  BY DEF NoPath, Paths
<1>2. \A i \in 1..Len(p) : p[i] \in Nat \ {0}
  BY DEF Paths
<1>3. p # NoPath
  BY <1>1, <1>2
<1>4. ASSUME Under(p, NoPath) PROVE FALSE
  <2>1. SubSeq(p, 1, 1) = NoPath /\ 1 \in 0..Len(p)
    BY <1>1, <1>4 DEF Under
  <2>2. SubSeq(p, 1, 1) \in Paths
    BY <2>1, PrefixFacts
  <2>3. SubSeq(p, 1, 1)[1] \in Nat \ {0}
    BY <2>1, <2>2, <1>1 DEF Paths
  <2> QED
    BY <2>1, <2>3, <1>1
<1> QED
  BY <1>3, <1>4

LEMMA RootFirst ==
    ASSUME NEW p \in Paths, p # << >>
    PROVE  Under(p, << >>) /\ Before(<< >>, p) /\ ~Before(p, << >>)
<1>1. << >> \in Paths /\ Len(<< >>) = 0 /\ Len(p) \in Nat \ {0}
  BY DEF Paths
<1>2. Under(p, << >>)
  BY <1>1, UnderMeans
<1> QED
  BY <1>1, <1>2, BeforeMeans, OneWay

\* What the format made holds only what it made.
LEMMA MadeUnder ==
    ASSUME NEW d \in Paths, NEW q \in Paths, Under(q, d), MadeByTheFormat(d)
    PROVE  MadeByTheFormat(q)
<1>1. ext /\ d # << >> /\ Head(d) = LostFound
  BY DEF MadeByTheFormat
<1>2. Len(d) \in Nat \ {0} /\ Len(q) \in Nat /\ Len(q) > Len(d) /\ q[1] = d[1]
  <2>1. Len(d) \in Nat \ {0} /\ Len(q) \in Nat
    BY <1>1 DEF Paths
  <2> QED
    BY <2>1, UnderMeans
<1>3. Head(q) = q[1] /\ Head(d) = d[1] /\ q # << >>
  BY <1>2, <1>1 DEF Paths
<1> QED
  BY <1>1, <1>2, <1>3 DEF MadeByTheFormat

-----------------------------------------------------------------------------
\* What every step can rely on.

\* A node the host made, finished: what it lacks is what was refused.
LEMMA Dressing ==
    ASSUME NEW refused, refused = "none" \/ (refused \in Late \cup {"short"} /\ OptedIn(refused))
    PROVE  LET m == Finished(Fresh, refused)
           IN  /\ m.mode = "recorded"
               /\ m.owner = "recorded" \/ refused = "owner"
               /\ m.attrs = "recorded" \/ (m.attrs = "none" /\ refused \in {"reserved", "unheld"})
               /\ m.times = "recorded" \/ refused = "times"
<1>1. refused \in {"none", "owner", "reserved", "unheld", "times"}
  BY DEF Late, OptedIn
<1>2. CASE refused = "owner"
  BY <1>2 DEF Finished, Fresh, Chown, Chmod, SetXattrs, Utimens
<1>3. CASE refused = "times"
  BY <1>3 DEF Finished, Fresh, Chown, Chmod, SetXattrs, Utimens
<1>4. CASE refused \in {"reserved", "unheld"}
  BY <1>4 DEF Finished, Fresh, Chown, Chmod, SetXattrs, Utimens
<1>5. CASE refused = "none"
  BY <1>5 DEF Finished, Fresh, Chown, Chmod, SetXattrs, Utimens
<1> QED
  BY <1>1, <1>2, <1>3, <1>4, <1>5

Grows ==
    /\ report.skipped \subseteq report'.skipped /\ report.dropped \subseteq report'.dropped
    /\ report.more_skipped => report'.more_skipped

\* What was reported stays so.
LEMMA ReportGrows ==
    ASSUME Grows
    PROVE  /\ \A p : Reported(p) => Reported(p)'
           /\ \A m : Complete(m, report.dropped) => Complete(m, report'.dropped)
<1>1. ASSUME NEW p, Reported(p) PROVE Reported(p)'
  BY <1>1 DEF Reported, Grows
<1>2. ASSUME NEW m, Complete(m, report.dropped) PROVE Complete(m, report'.dropped)
  BY <1>2 DEF Complete, Grows
<1> QED
  BY <1>1, <1>2

LEMMA DressedIsComplete ==
    ASSUME NEW refused, NEW dropped,
           refused = "none" \/ (refused \in Late \cup {"short"} /\ OptedIn(refused) /\ refused \in dropped)
    PROVE  Complete(Finished(Fresh, refused), dropped)
<1> DEFINE m == Finished(Fresh, refused)
<1>1. /\ m.mode = "recorded"
      /\ m.owner = "recorded" \/ refused = "owner"
      /\ m.attrs = "recorded" \/ (m.attrs = "none" /\ refused \in {"reserved", "unheld"})
      /\ m.times = "recorded" \/ refused = "times"
  BY Dressing
<1> HIDE DEF m
<1>2. refused \in {"owner", "reserved", "unheld", "times"} => refused \in dropped
  OBVIOUS
<1>3. Complete(m, dropped)
  BY <1>1, <1>2 DEF Complete
<1> QED
  BY <1>3 DEF m

-----------------------------------------------------------------------------
\* The walk.

LEMMA EntryFacts ==
    ASSUME tree \in Trees, InOrder, left # {}
    PROVE  /\ Entry \in left /\ Entry \in DOMAIN tree /\ Entry \in Paths
           /\ \A q \in left : q = Entry \/ Before(Entry, q)
           /\ Entry # << >> => Began /\ Parent(Entry) \in Handed
<1>1. left \subseteq DOMAIN tree /\ left \subseteq Paths /\ IsFiniteSet(left) /\ DOMAIN tree \subseteq Paths
  BY TreeFacts, FS_Subset DEF InOrder
<1>2. \E p \in left : \A q \in left \ {p} : Before(p, q)
  BY <1>1, FirstOfThem
<1>3. Entry \in left /\ \A q \in left \ {Entry} : Before(Entry, q)
  BY <1>2 DEF Entry
<1>4. ASSUME Entry # << >> PROVE Began /\ Parent(Entry) \in Handed
  <2>1. Entry \in Paths /\ << >> \in DOMAIN tree /\ Parent(Entry) \in DOMAIN tree
    BY <1>1, <1>3, <1>4, TreeFacts
  <2>2. Began
    BY <2>1, <1>3, <1>4, RootFirst DEF Began
  <2>3. Parent(Entry) \in Paths /\ Under(Entry, Parent(Entry)) /\ Parent(Entry) # Entry
    BY <2>1, <1>4, ParentFacts
  <2>4. Before(Parent(Entry), Entry)
    BY <2>1, <2>3, BeforeMeans
  <2>5. Parent(Entry) \notin left
    BY <2>1, <2>3, <2>4, <1>3, OneWay
  <2> QED
    BY <2>1, <2>2, <2>5 DEF Handed
<1> QED
  BY <1>1, <1>3, <1>4

LEMMA HandledFacts ==
    ASSUME tree \in Trees, InOrder, left # {}, Handled, tree' = tree
    PROVE  /\ InOrder' /\ Handed' = Handed \cup {Entry} /\ left' = left \ {Entry} /\ Entry \notin Handed
           /\ Entry # << >> => Began'
<1>1. Entry \in left /\ Entry \in DOMAIN tree /\ \A q \in left : q = Entry \/ Before(Entry, q)
  BY EntryFacts
<1>2. left' = left \ {Entry}
  BY DEF Handled
<1>3. Handed' = Handed \cup {Entry} /\ Entry \notin Handed
  BY <1>1, <1>2 DEF Handed, InOrder
<1>4. InOrder'
  BY <1>1, <1>2, <1>3 DEF InOrder, Handed
<1>5. Entry # << >> => Began'
  BY <1>2, EntryFacts DEF Began
<1> QED
  BY <1>2, <1>3, <1>4, <1>5

\* Past what was left out, nothing is left of it.
LEMMA LeftBehind ==
    ASSUME tree \in Trees, InOrder, NothingBehind, Accounted, left # {}, ~IsLeftOut(Entry),
           NEW d \in Handed \ DOMAIN names, NEW q \in left, Under(q, d)
    PROVE  MadeByTheFormat(d)
<1>1. q \in Paths /\ d \in Paths /\ left \subseteq DOMAIN tree
  BY TreeFacts DEF InOrder, Handed
<1> SUFFICES ASSUME ~MadeByTheFormat(d) PROVE FALSE
  OBVIOUS
<1>2. d = left_out \/ Under(d, left_out)
  BY DEF NothingBehind
<1>3. left_out # NoPath
  BY <1>1, <1>2, NotUnderNothing
<1>4. left_out \in Handed /\ left_out \in Paths
  BY <1>3, TreeFacts DEF Accounted, Handed
<1>5. Under(q, left_out)
  BY <1>1, <1>2, <1>4, UnderUnder
<1>6. Entry \in Paths /\ Before(left_out, Entry) /\ (Entry = q \/ Before(Entry, q))
  BY <1>4, EntryFacts DEF InOrder
<1>7. Under(Entry, left_out)
  BY <1>1, <1>4, <1>5, <1>6, Between
<1> QED
  BY <1>7 DEF IsLeftOut

\* The directory on top.
LEMMA TopFacts ==
    ASSUME tree \in Trees, Stacked, Accounted, open # << >>
    PROVE  /\ Len(open) \in Nat \ {0} /\ Top \in DOMAIN names /\ Top \in Opened /\ IsDirectory(Top)
           /\ Top \in DOMAIN tree /\ Top \in Paths /\ Top \notin Waiting /\ Len(Top) = Len(open) - 1
           /\ Began /\ Top \in Handed
           /\ \A d \in Opened : d # Top => Len(d) < Len(Top)
<1>1. open \in Seq(DOMAIN names) /\ Len(open) \in Nat \ {0}
  BY DEF Stacked
<1>2. Len(open) \in 1..Len(open)
  BY <1>1
<1>3. Top \in DOMAIN names /\ Top \in Opened
  BY <1>1, <1>2 DEF Top, Opened
<1>4. IsDirectory(Top) /\ Len(Top) = Len(open) - 1 /\ Top \notin Waiting /\ Began
  BY <1>2, <1>3 DEF Stacked, Top
<1>5. Top \in Handed /\ Top \in DOMAIN tree
  BY <1>3, <1>4, TreeFacts DEF Accounted, Handed, Began
<1>6. ASSUME NEW d \in Opened, d # Top PROVE Len(d) < Len(Top)
  <2>1. PICK k \in 1..Len(open) : d = open[k]
    BY DEF Opened
  <2>2. k # Len(open) /\ Len(d) = k - 1
    BY <1>6, <2>1 DEF Top, Stacked
  <2> QED
    BY <2>1, <2>2, <1>1, <1>4
<1> QED
  BY <1>1, <1>3, <1>4, <1>5, <1>6, TreeFacts

\* Once the walk has left the directory on top there is nothing left of it.
LEMMA TopIsDone ==
    ASSUME tree \in Trees, InOrder, Stacked, NothingBehind, Accounted, Writing, open # << >>,
           Top # Parent(Entry), NEW q \in left
    PROVE  ~Under(q, Top)
<1> SUFFICES ASSUME Under(q, Top) PROVE FALSE
  OBVIOUS
<1>1. /\ left # {} /\ Entry # << >> /\ ~MadeByTheFormat(Entry) /\ ~IsLeftOut(Entry)
  BY DEF Writing, Walking
<1>2. /\ Entry \in left /\ Entry \in Paths /\ Entry \in DOMAIN tree /\ (Entry = q \/ Before(Entry, q))
      /\ Began /\ Parent(Entry) \in Handed /\ q \in Paths
  BY <1>1, EntryFacts, TreeFacts DEF InOrder
<1>3. Top \in Handed /\ Top \in Paths /\ \A d \in Opened : d # Top => Len(d) < Len(Top)
  BY TopFacts
<1>4. Before(Top, Entry)
  BY <1>2, <1>3 DEF InOrder
<1>5. Under(Entry, Top)
  BY <1>2, <1>3, <1>4, Between
<1> DEFINE d == Parent(Entry)
<1>6. d \in Paths /\ Under(Entry, d) /\ Under(d, Top) /\ IsDirectory(d) /\ Len(d) \in Nat
  BY <1>1, <1>2, <1>3, <1>5, ParentFacts, TreeFacts DEF Paths
<1>7. CASE d \in DOMAIN names
  <2>1. d \in Opened
    BY <1>2, <1>6, <1>7 DEF NothingBehind
  <2>2. Len(d) > Len(Top)
    BY <1>3, <1>6, UnderMeans
  <2>3. Len(Top) \in Nat
    BY <1>3 DEF Paths
  <2> QED
    BY <2>1, <2>2, <2>3, <1>3, <1>6
<1>8. CASE d \notin DOMAIN names
  <2>1. MadeByTheFormat(d)
    BY <1>1, <1>2, <1>6, <1>8, LeftBehind
  <2> QED
    BY <2>1, <1>1, <1>2, <1>6, MadeUnder
<1> QED
  BY <1>7, <1>8

-----------------------------------------------------------------------------
\* A directory is finished.

ReportOK ==
    report \in [written : Nat, skipped : SUBSET DOMAIN tree, more_skipped : BOOLEAN,
                dropped : SUBSET Reasons]

LEMMA DroppingGrows ==
    ASSUME ReportOK, NEW what \in Reasons, tree' = tree, report' = Dropping(what)
    PROVE  /\ ReportOK' /\ Grows /\ what \in report'.dropped /\ report'.written = report.written
           /\ report'.skipped = report.skipped /\ report'.more_skipped = report.more_skipped
  BY DEF ReportOK, Grows, Dropping

LEMMA Applied ==
    ASSUME ReportOK, NEW d \in DOMAIN inodes, inodes[d] = Fresh, ApplyDirectory(d), tree' = tree,
           status' # "failed"
    PROVE  /\ ReportOK' /\ Grows /\ report'.written = report.written /\ status' = status
           /\ report'.skipped = report.skipped /\ report'.more_skipped = report.more_skipped
           /\ DOMAIN inodes' = DOMAIN inodes /\ Complete(inodes'[d], report'.dropped)
           /\ \A p \in DOMAIN inodes : p # d => inodes'[p] = inodes[p]
<1>1. CASE /\ inodes' = [inodes EXCEPT ![d] = Finished(@, "none")]
           /\ UNCHANGED <<report, status, refusals>>
  <2>1. inodes'[d] = Finished(Fresh, "none")
    BY <1>1
  <2>2. Complete(inodes'[d], report'.dropped)
    BY <2>1, DressedIsComplete
  <2> QED
    BY <1>1, <2>2 DEF ReportOK, Grows
<1>2. CASE \E refused \in Late :
              /\ OptedIn(refused) /\ inodes' = [inodes EXCEPT ![d] = Finished(@, refused)]
              /\ report' = Dropping(refused) /\ UNCHANGED status
  <2>1. PICK refused \in Late :
              /\ OptedIn(refused) /\ inodes' = [inodes EXCEPT ![d] = Finished(@, refused)]
              /\ report' = Dropping(refused) /\ UNCHANGED status
    BY <1>2
  <2>2. refused \in Reasons
    BY DEF Reasons
  <2>3. /\ ReportOK' /\ Grows /\ refused \in report'.dropped /\ report'.written = report.written
        /\ report'.skipped = report.skipped /\ report'.more_skipped = report.more_skipped
    BY <2>1, <2>2, DroppingGrows
  <2>4. inodes'[d] = Finished(Fresh, refused)
    BY <2>1
  <2>5. Complete(inodes'[d], report'.dropped)
    BY <2>1, <2>3, <2>4, DressedIsComplete
  <2> QED
    BY <2>1, <2>3, <2>5
<1>3. \/ /\ inodes' = [inodes EXCEPT ![d] = Finished(@, "none")]
         /\ UNCHANGED <<report, status, refusals>>
      \/ \E refused \in Late :
              /\ OptedIn(refused) /\ inodes' = [inodes EXCEPT ![d] = Finished(@, refused)]
              /\ report' = Dropping(refused) /\ UNCHANGED status
  BY DEF ApplyDirectory, Fail
<1> QED
  BY <1>1, <1>2, <1>3

\* The stack without its top.
LEMMA PopFacts ==
    ASSUME tree \in Trees, Stacked, Accounted, open # << >>, Pop
    PROVE  /\ open' \in Seq(DOMAIN names) /\ Len(open') = Len(open) - 1
           /\ \A k \in 1..Len(open') : k \in 1..Len(open) /\ open'[k] = open[k]
           /\ Opened' = Opened \ {Top}
<1>1. open \in Seq(DOMAIN names) /\ Len(open) \in Nat \ {0}
  BY TopFacts DEF Stacked
<1>2. \A k \in 1..(Len(open) - 1) : open[k] \in DOMAIN names
  BY <1>1
<1>3. /\ open' \in Seq(DOMAIN names) /\ Len(open') = Len(open) - 1
      /\ \A k \in 1..Len(open') : k \in 1..Len(open) /\ open'[k] = open[k]
  <2>1. 1 \in Int /\ Len(open) - 1 \in Int
    BY <1>1
  <2>2. /\ SubSeq(open, 1, Len(open) - 1) \in Seq(DOMAIN names)
        /\ Len(SubSeq(open, 1, Len(open) - 1)) =
              IF 1 <= Len(open) - 1 THEN Len(open) - 1 - 1 + 1 ELSE 0
        /\ \A k \in 1..(Len(open) - 1 - 1 + 1) :
              SubSeq(open, 1, Len(open) - 1)[k] = open[1 + k - 1]
    BY <2>1, <1>2, SubSeqProperties
  <2>3. open' = SubSeq(open, 1, Len(open) - 1)
    BY DEF Pop
  <2>4. Len(open') = Len(open) - 1
    <3>1. Len(open') = IF 1 <= Len(open) - 1 THEN Len(open) - 1 - 1 + 1 ELSE 0
      BY <2>2, <2>3
    <3>2. \A n \in Nat \ {0} : (IF 1 <= n - 1 THEN n - 1 - 1 + 1 ELSE 0) = n - 1
      OBVIOUS
    <3> QED
      BY <3>1, <3>2, <1>1
  <2>5. \A k \in 1..Len(open') : k \in 1..(Len(open) - 1 - 1 + 1) /\ k \in 1..Len(open) /\ 1 + k - 1 = k
    BY <2>4, <1>1
  <2> QED
    BY <2>2, <2>3, <2>4, <2>5
<1>4. \A k \in 1..Len(open) : Len(open[k]) = k - 1
  BY DEF Stacked
<1>5. \A k \in 1..Len(open) : k # Len(open) => k \in 1..Len(open') /\ open[k] # Top
  BY <1>1, <1>3, <1>4, TopFacts
<1>6. \A k \in 1..Len(open') : open[k] # Top
  BY <1>1, <1>3, <1>5
<1>7. Opened' = {open'[k] : k \in 1..Len(open')}
  BY DEF Opened
<1>8. Opened' \subseteq Opened \ {Top}
  BY <1>3, <1>6, <1>7 DEF Opened
<1>9. Opened \ {Top} \subseteq Opened'
  <2> SUFFICES ASSUME NEW k \in 1..Len(open), open[k] # Top PROVE open[k] \in Opened'
    BY DEF Opened
  <2>1. k # Len(open)
    BY DEF Top
  <2>2. k \in 1..Len(open') /\ open'[k] = open[k]
    BY <2>1, <1>3, <1>5
  <2> QED
    BY <2>2, <1>7
<1> QED
  BY <1>3, <1>8, <1>9

\* What does not hang on the report or on what is being filled.
LEMMA SameWalk ==
    ASSUME tree' = tree, ext' = ext, left' = left
    PROVE  /\ Handed' = Handed /\ Kept' = Kept /\ (Began' <=> Began) /\ (InOrder => InOrder')
           /\ \A p : (IsDirectory(p)' <=> IsDirectory(p)) /\ (MadeByTheFormat(p)' <=> MadeByTheFormat(p))
<1>1. \A p : (IsDirectory(p)' <=> IsDirectory(p)) /\ (MadeByTheFormat(p)' <=> MadeByTheFormat(p))
  BY DEF IsDirectory, MadeByTheFormat
<1> QED
  BY <1>1 DEF Handed, Kept, Began, InOrder

\* The directory on top is finished, or put off to the end.
LEMMA FinishTop ==
    ASSUME tree \in Trees, Faithful, status = "walking", open # << >>,
           FinishDirectory(Top), Pop, status' # "failed",
           UNCHANGED <<input, left, named, names>>,
           \A q \in left : ~Under(q, Top),
           left_out' \in {left_out, NoPath},
           \A d \in Handed \ DOMAIN names, q \in left :
              Under(q, d) => MadeByTheFormat(d) \/ d = left_out' \/ Under(d, left_out')
    PROVE  Faithful'
<1>1. /\ tree' = tree /\ ext' = ext /\ left' = left /\ named' = named /\ names' = names
      /\ InOrder /\ Stacked /\ NothingBehind /\ Accounted /\ NamedOnce /\ Dressed /\ ReportOK
  BY DEF input, Faithful, Accounted, ReportOK
<1>2. /\ Handed' = Handed /\ Kept' = Kept /\ (Began' <=> Began) /\ InOrder'
      /\ \A p : (IsDirectory(p)' <=> IsDirectory(p)) /\ (MadeByTheFormat(p)' <=> MadeByTheFormat(p))
  BY <1>1, SameWalk
<1>3. /\ Top \in DOMAIN names /\ Top \in Opened /\ IsDirectory(Top) /\ Top \in DOMAIN tree
      /\ Top \notin Waiting /\ Began /\ Len(open) \in Nat \ {0}
  BY <1>1, TopFacts
<1>4. /\ open' \in Seq(DOMAIN names) /\ Len(open') = Len(open) - 1
      /\ \A k \in 1..Len(open') : k \in 1..Len(open) /\ open'[k] = open[k]
      /\ Opened' = Opened \ {Top}
  BY <1>1, PopFacts
<1>5. Top \in DOMAIN inodes /\ inodes[Top] = Fresh
  <2>1. ~tree[Top].shared
    BY <1>3, TreeFacts
  <2> QED
    BY <2>1, <1>1, <1>3 DEF NamedOnce, Dressed
<1> DEFINE Ends == /\ ReportOK' /\ Grows /\ report'.written = report.written /\ status' = status
                   /\ report'.skipped = report.skipped /\ report'.more_skipped = report.more_skipped
                   /\ DOMAIN inodes' = DOMAIN inodes
                   /\ \A p \in DOMAIN inodes : p # Top => inodes'[p] = inodes[p]
           Done == /\ tree[Top].search /\ held' = held /\ Waiting' = Waiting
                   /\ Complete(inodes'[Top], report'.dropped)
           PutOff == /\ ~tree[Top].search /\ held' = Append(held, Top) /\ Waiting' = Waiting \cup {Top}
                     /\ inodes'[Top] = Fresh
<1>6. Ends /\ (Done \/ PutOff)
  <2>1. CASE tree[Top].search
    <3>1. ApplyDirectory(Top) /\ held' = held
      BY <2>1 DEF FinishDirectory
    <3>2. Waiting' = Waiting
      BY <3>1 DEF Waiting
    <3> QED
      BY <2>1, <3>1, <3>2, <1>1, <1>5, Applied
  <2>2. CASE ~tree[Top].search
    <3>1. held' = Append(held, Top) /\ UNCHANGED <<inodes, report, status, refusals>>
      BY <2>2 DEF FinishDirectory, Fail
    <3>2. held \in Seq(DOMAIN names)
      BY <1>1 DEF Stacked
    <3>3. /\ Len(held') = Len(held) + 1 /\ held'[Len(held) + 1] = Top /\ Len(held) \in Nat
          /\ \A k \in 1..Len(held) : held'[k] = held[k]
      BY <3>1, <3>2, <1>3
    <3>4. Waiting' = Waiting \cup {Top}
      <4>1. Waiting' = {held'[k] : k \in 1..Len(held')}
        BY DEF Waiting
      <4>2. 1..Len(held') = 1..Len(held) \cup {Len(held) + 1}
        BY <3>3
      <4> QED
        BY <4>1, <4>2, <3>3 DEF Waiting
    <3> QED
      BY <2>2, <3>1, <3>4, <1>1, <1>5 DEF ReportOK, Grows
  <2> QED
    BY <2>1, <2>2
<1> HIDE DEF Ends
<1>7. Ends
  BY <1>6
<1> USE DEF Ends
<1>8. Stacked'
  <2>1. open' \in Seq(DOMAIN names')
    BY <1>1, <1>4
  <2>2. \A k \in 1..Len(open') : Len(open'[k]) = k - 1 /\ IsDirectory(open'[k])
    BY <1>1, <1>4 DEF Stacked
  <2>3. /\ held' \in Seq(DOMAIN names')
        /\ \A k \in 1..Len(held') : IsDirectory(held'[k]) /\ ~tree[held'[k]].search
        /\ \A j, k \in 1..Len(held') : held'[j] = held'[k] => j = k
    <3>1. CASE Done
      BY <3>1, <1>1 DEF Stacked
    <3>2. CASE PutOff
      <4>1. held \in Seq(DOMAIN names) /\ Len(held) \in Nat
        BY <1>1 DEF Stacked
      <4>2. /\ held' \in Seq(DOMAIN names) /\ Len(held') = Len(held) + 1 /\ held'[Len(held) + 1] = Top
            /\ \A k \in 1..Len(held) : held'[k] = held[k]
        BY <4>1, <3>2, <1>3
      <4>3. \A k \in 1..Len(held) : held[k] # Top
        BY <1>3 DEF Waiting
      <4>4. \A k \in 1..Len(held') : k \in 1..Len(held) \/ k = Len(held) + 1
        BY <4>1, <4>2
      <4>5. \A k \in 1..Len(held') : IsDirectory(held'[k]) /\ ~tree[held'[k]].search
        BY <4>2, <4>4, <3>2, <1>1, <1>3 DEF Stacked
      <4>6. \A j, k \in 1..Len(held') : held'[j] = held'[k] => j = k
        BY <4>2, <4>3, <4>4, <1>1 DEF Stacked
      <4> QED
        BY <4>2, <4>5, <4>6, <1>1
    <3> QED
      BY <3>1, <3>2, <1>6
  <2>4. Opened' \cap Waiting' = {}
    BY <1>1, <1>4, <1>6 DEF Stacked
  <2>5. (~Began => open = << >> /\ held = << >>)' /\ (Began /\ left # {} => open # << >>)'
    <3>1. Began'
      BY <1>2, <1>3
    <3>2. ASSUME left' # {} PROVE open' # << >>
      <4>1. PICK q \in left : q \in Paths /\ q # << >>
        BY <3>1, <3>2, <1>1, <1>2, <1>3, TreeFacts DEF InOrder, Began
      <4>2. Top # << >>
        BY <4>1, RootFirst
      <4>3. Len(Top) # 0
        BY <4>2, <1>3, TreeFacts DEF Paths
      <4>4. Len(open) # 1
        BY <4>3, <1>1, TopFacts
      <4> QED
        BY <4>4, <1>3, <1>4
    <3> QED
      BY <3>1, <3>2
  <2> QED
    BY <2>1, <2>2, <2>3, <2>4, <2>5, <1>1 DEF Stacked, IsDirectory
<1>9. NothingBehind'
  <2>1. \A d \in DOMAIN names \ Opened', q \in left : IsDirectory(d) => ~Under(q, d)
    BY <1>1, <1>3, <1>4 DEF NothingBehind
  <2> QED
    BY <2>1, <1>1, <1>2 DEF NothingBehind
<1>10. Accounted'
  <2>1. \A p : Reported(p) => Reported(p)'
    BY <1>7, ReportGrows
  <2> QED
    BY <2>1, <1>1, <1>2, <1>7 DEF Accounted, ReportOK
<1>11. NamedOnce'
  BY <1>1, <1>7 DEF NamedOnce
<1>12. Dressed'
  <2>1. ASSUME NEW p \in DOMAIN inodes
        PROVE  IF p \in Opened' \cup Waiting' \/ (p = << >> /\ ~Began')
               THEN inodes'[p] = Fresh ELSE Complete(inodes'[p], report'.dropped)
    <3>1. CASE p = Top
      BY <3>1, <1>2, <1>3, <1>4, <1>6
    <3>2. CASE p # Top
      <4>1. inodes'[p] = inodes[p]
        BY <1>7, <3>2
      <4>2. p \in Opened' \cup Waiting' <=> p \in Opened \cup Waiting
        BY <3>2, <1>4, <1>6
      <4>3. Complete(inodes[p], report.dropped) => Complete(inodes[p], report'.dropped)
        BY <1>7, ReportGrows
      <4> QED
        BY <4>1, <4>2, <4>3, <1>1, <1>2 DEF Dressed
    <3> QED
      BY <3>1, <3>2
  <2>2. left' # {} => \A p \in DOMAIN inodes : IsDirectory(p)' => Searchable(p)'
    <3> SUFFICES ASSUME left # {}, NEW p \in DOMAIN inodes, IsDirectory(p) PROVE Searchable(p)'
      BY <1>1, <1>2
    <3>1. CASE p = Top
      <4>1. tree[Top].search \/ inodes'[Top] = Fresh
        BY <1>6
      <4> QED
        BY <4>1, <3>1, <1>1 DEF Searchable, Fresh
    <3>2. CASE p # Top
      BY <3>2, <1>1, <1>7 DEF Dressed, Searchable
    <3> QED
      BY <3>1, <3>2
  <2> QED
    BY <2>1, <2>2, <1>7 DEF Dressed
<1> QED
  BY <1>2, <1>7, <1>8, <1>9, <1>10, <1>11, <1>12 DEF Faithful

-----------------------------------------------------------------------------
\* An entry is handled.

\* A directory being filled has its building metadata: a name made in it changes nothing.
LEMMA TouchedSame ==
    ASSUME tree \in Trees, Faithful, InPlace
    PROVE  /\ Parent(Entry) \in DOMAIN names /\ Parent(Entry) \in Opened /\ open # << >>
           /\ DOMAIN Touched(Entry) = DOMAIN inodes
           /\ \A p \in DOMAIN inodes : Touched(Entry)[p] = inodes[p]
<1>1. /\ InOrder /\ Stacked /\ Accounted /\ NamedOnce /\ Dressed
      /\ left # {} /\ Entry # << >> /\ Top = Parent(Entry)
  BY DEF Faithful, InPlace, Writing, Walking
<1>2. Began
  BY <1>1, EntryFacts
<1>3. open # << >>
  BY <1>1, <1>2 DEF Stacked
<1>4. Top \in DOMAIN names /\ Top \in Opened /\ IsDirectory(Top) /\ Top \in DOMAIN tree
  BY <1>1, <1>3, TopFacts
<1>5. ~tree[Top].shared
  BY <1>4, TreeFacts
<1>6. Top \in DOMAIN inodes /\ inodes[Top] = Fresh
  BY <1>1, <1>4, <1>5 DEF NamedOnce, Dressed
<1>7. [Fresh EXCEPT !.times = "now"] = Fresh
  BY DEF Fresh
<1>8. /\ DOMAIN Touched(Entry) = DOMAIN inodes
      /\ \A p \in DOMAIN inodes : Touched(Entry)[p] = inodes[p]
  BY <1>1, <1>6, <1>7 DEF Touched
<1> QED
  BY <1>1, <1>3, <1>4, <1>8

\* The entry gets no name: the tree's format made it, or it is reported.
LEMMA Skipped ==
    ASSUME tree \in Trees, Faithful, status = "walking", status' = "walking", left # {}, Entry # << >>,
           Handled, UNCHANGED <<input, open, held, named, names>>,
           DOMAIN inodes' = DOMAIN inodes, \A p \in DOMAIN inodes : inodes'[p] = inodes[p],
           ReportOK', Grows, report'.written = report.written,
           \/ MadeByTheFormat(Entry) \/ report'.more_skipped
           \/ \E r \in report'.skipped : r = Entry \/ Under(Entry, r),
           \/ left_out' = NoPath
           \/ /\ left_out' \in Handed \cup {Entry}
              /\ report'.more_skipped \/ left_out' \in report'.skipped,
           \A d \in (Handed \cup {Entry}) \ DOMAIN names, q \in left \ {Entry} :
              Under(q, d) => MadeByTheFormat(d) \/ d = left_out' \/ Under(d, left_out')
    PROVE  Faithful'
<1>1. /\ tree' = tree /\ ext' = ext /\ named' = named /\ names' = names /\ open' = open /\ held' = held
      /\ InOrder /\ Stacked /\ NothingBehind /\ Accounted /\ NamedOnce /\ Dressed
  BY DEF input, Faithful
<1>2. InOrder' /\ Handed' = Handed \cup {Entry} /\ left' = left \ {Entry} /\ Began /\ Began'
  BY <1>1, HandledFacts, EntryFacts
<1>3. /\ Kept' = Kept /\ Opened' = Opened /\ Waiting' = Waiting
      /\ \A p : (IsDirectory(p)' <=> IsDirectory(p)) /\ (MadeByTheFormat(p)' <=> MadeByTheFormat(p))
  BY <1>1 DEF Kept, MadeByTheFormat, IsDirectory, Opened, Waiting
<1>4. Stacked'
  BY <1>1, <1>2, <1>3 DEF Stacked, IsDirectory
<1>5. NothingBehind'
  BY <1>1, <1>2, <1>3 DEF NothingBehind
<1>6. Accounted'
  <2>1. \A p : Reported(p) => Reported(p)'
    BY ReportGrows
  <2>2. \A p \in Handed' \cap Kept' : p \in DOMAIN names' \/ Reported(p)'
    <3> SUFFICES ASSUME NEW p \in Handed', p \in Kept' PROVE p \in DOMAIN names' \/ Reported(p)'
      OBVIOUS
    <3>1. CASE p = Entry
      BY <3>1, <1>3 DEF Kept, Reported
    <3>2. CASE p # Entry
      BY <3>2, <2>1, <1>1, <1>2, <1>3 DEF Accounted
    <3> QED
      BY <3>1, <3>2
  <2> QED
    BY <2>2, <1>1, <1>2, <1>3 DEF Accounted, ReportOK
<1>7. NamedOnce'
  <2>1. \A p : p \in DOMAIN inodes' <=> p \in DOMAIN inodes
    OBVIOUS
  <2> QED
    BY <1>1 DEF NamedOnce
<1>8. Dressed'
  <2>1. \A p \in DOMAIN inodes : Complete(inodes[p], report.dropped) => Complete(inodes'[p], report'.dropped)
    BY ReportGrows
  <2>2. \A p \in DOMAIN inodes' :
           IF p \in Opened' \cup Waiting' \/ (p = << >> /\ ~Began')
           THEN inodes'[p] = Fresh ELSE Complete(inodes'[p], report'.dropped)
    BY <2>1, <1>1, <1>2, <1>3 DEF Dressed
  <2>3. \A p \in DOMAIN inodes' : IsDirectory(p)' => Searchable(p)'
    BY <1>1, <1>3 DEF Dressed, Searchable
  <2> QED
    BY <2>2, <2>3 DEF Dressed
<1> QED
  BY <1>2, <1>4, <1>5, <1>6, <1>7, <1>8 DEF Faithful

\* The entry gets a name: its own inode's, or of a node named before, the inode's of the first.
LEMMA Made ==
    ASSUME tree \in Trees, Faithful, InPlace, status' = "walking",
           Handled, left_out' = NoPath, UNCHANGED <<input, held>>,
           NEW i, names' = NamesWith(Entry, i), i = Entry \/ i \in DOMAIN names,
           DOMAIN inodes' = DOMAIN inodes \cup (IF i = Entry THEN {Entry} ELSE {}),
           \A p \in DOMAIN inodes : p # Entry => inodes'[p] = inodes[p],
           i = Entry => IF IsDirectory(Entry) THEN inodes'[Entry] = Fresh
                        ELSE Complete(inodes'[Entry], report'.dropped),
           open' = IF IsDirectory(Entry) THEN Append(open, Entry) ELSE open,
           ReportOK', Grows, report'.written = report.written + 1,
           IF tree[Entry].shared
           THEN tree[Entry].node \in DOMAIN named' /\ i = named'[tree[Entry].node] ELSE i = Entry,
           \A n \in DOMAIN named : n \in DOMAIN named' /\ named'[n] = named[n],
           \A n \in DOMAIN named' : n \in DOMAIN named
              \/ (named'[n] = Entry /\ tree[Entry].shared /\ n = tree[Entry].node)
    PROVE  Faithful'
<1>1. /\ tree' = tree /\ ext' = ext /\ held' = held
      /\ InOrder /\ Stacked /\ NothingBehind /\ Accounted /\ NamedOnce /\ Dressed
      /\ left # {} /\ Entry # << >> /\ ~MadeByTheFormat(Entry) /\ ~IsLeftOut(Entry) /\ Top = Parent(Entry)
  BY DEF input, Faithful, InPlace, Writing, Walking
<1>2. /\ InOrder' /\ Handed' = Handed \cup {Entry} /\ left' = left \ {Entry} /\ Entry \notin Handed
      /\ Began /\ Began' /\ Entry \in Paths /\ Entry \in DOMAIN tree
  BY <1>1, HandledFacts, EntryFacts
<1>3. /\ Kept' = Kept
      /\ \A p : (IsDirectory(p)' <=> IsDirectory(p)) /\ (MadeByTheFormat(p)' <=> MadeByTheFormat(p))
  BY <1>1 DEF Kept, MadeByTheFormat, IsDirectory
<1>4. /\ Parent(Entry) \in DOMAIN names /\ open # << >>
      /\ DOMAIN names' = DOMAIN names \cup {Entry} /\ names'[Entry] = i /\ Entry \notin DOMAIN names
      /\ \A p \in DOMAIN names : names'[p] = names[p]
  <2>1. Entry \notin DOMAIN names
    BY <1>1, <1>2 DEF Accounted
  <2> QED
    BY <2>1, TouchedSame DEF NamesWith
<1>5. /\ Opened \subseteq DOMAIN names /\ Waiting \subseteq DOMAIN names /\ Waiting' = Waiting
      /\ held \in Seq(DOMAIN names') /\ open' \in Seq(DOMAIN names')
      /\ Opened' = Opened \cup (IF IsDirectory(Entry) THEN {Entry} ELSE {})
      /\ (\A k \in 1..Len(open') : Len(open'[k]) = k - 1 /\ IsDirectory(open'[k]))
      /\ open' # << >>
  <2>1. open \in Seq(DOMAIN names) /\ held \in Seq(DOMAIN names) /\ Len(open) \in Nat \ {0}
    BY <1>1, <1>4 DEF Stacked
  <2>2. Opened \subseteq DOMAIN names /\ Waiting \subseteq DOMAIN names /\ Waiting' = Waiting
    BY <2>1, <1>1 DEF Opened, Waiting
  <2>3. open \in Seq(DOMAIN names') /\ held \in Seq(DOMAIN names')
    BY <2>1, <1>4
  <2>4. CASE IsDirectory(Entry)
    <3>1. /\ Len(open') = Len(open) + 1 /\ open'[Len(open) + 1] = Entry /\ open' \in Seq(DOMAIN names')
          /\ \A k \in 1..Len(open) : open'[k] = open[k]
      BY <2>1, <2>3, <2>4, <1>4
    <3>2. Len(Entry) = Len(open)
      <4>1. Len(Parent(Entry)) = Len(Entry) - 1 /\ Len(Entry) \in Nat
        BY <1>1, <1>2, ParentFacts
      <4>2. Len(Top) = Len(open) - 1
        BY <1>1, <1>4, TopFacts
      <4> QED
        BY <4>1, <4>2, <2>1, <1>1
    <3>3. \A k \in 1..Len(open') : k \in 1..Len(open) \/ k = Len(open) + 1
      BY <3>1, <2>1
    <3>4. \A k \in 1..Len(open') : Len(open'[k]) = k - 1 /\ IsDirectory(open'[k])
      <4> SUFFICES ASSUME NEW k \in 1..Len(open') PROVE Len(open'[k]) = k - 1 /\ IsDirectory(open'[k])
        OBVIOUS
      <4>1. CASE k \in 1..Len(open)
        BY <4>1, <3>1, <1>1 DEF Stacked
      <4>2. CASE k = Len(open) + 1
        BY <4>2, <3>1, <3>2, <2>1, <2>4
      <4> QED
        BY <4>1, <4>2, <3>3
    <3>5. Opened' = Opened \cup {Entry}
      <4>1. Opened' = {open'[k] : k \in 1..Len(open')}
        BY DEF Opened
      <4>2. 1..Len(open') = 1..Len(open) \cup {Len(open) + 1}
        BY <3>1, <2>1
      <4> QED
        BY <4>1, <4>2, <3>1 DEF Opened
    <3>6. open' # << >>
      BY <3>1, <2>1
    <3> QED
      BY <2>2, <2>3, <2>4, <3>1, <3>4, <3>5, <3>6
  <2>5. CASE ~IsDirectory(Entry)
    BY <2>5, <2>2, <2>3, <1>1, <1>4 DEF Stacked, Opened
  <2> QED
    BY <2>4, <2>5
<1>6. Stacked'
  <2>1. \A k \in 1..Len(held') : IsDirectory(held'[k]) /\ ~tree[held'[k]].search
    BY <1>1 DEF Stacked
  <2>2. \A j, k \in 1..Len(held') : held'[j] = held'[k] => j = k
    BY <1>1 DEF Stacked
  <2>3. Opened' \cap Waiting' = {}
    BY <1>1, <1>4, <1>5 DEF Stacked
  <2> QED
    BY <2>1, <2>2, <2>3, <1>1, <1>2, <1>5 DEF Stacked, IsDirectory
<1>7. NothingBehind'
  <2>1. \A d \in DOMAIN names' \ Opened', q \in left' : IsDirectory(d) => ~Under(q, d)
    BY <1>1, <1>2, <1>4, <1>5 DEF NothingBehind
  <2>2. \A d \in Handed' \ DOMAIN names', q \in left' : Under(q, d) => MadeByTheFormat(d)
    <3>1. \A d \in Handed' \ DOMAIN names' : d \in Handed \ DOMAIN names
      BY <1>2, <1>4
    <3> QED
      BY <3>1, <1>1, <1>2, LeftBehind
  <2> QED
    BY <2>1, <2>2, <1>1, <1>3 DEF NothingBehind, IsDirectory
<1>8. Accounted'
  <2>1. \A p : Reported(p) => Reported(p)'
    BY ReportGrows
  <2>2. \A p \in Handed' \cap Kept' : p \in DOMAIN names' \/ Reported(p)'
    BY <2>1, <1>1, <1>2, <1>3, <1>4 DEF Accounted
  <2>3. << >> \in DOMAIN names' /\ DOMAIN names' \subseteq Kept' \cap (Handed' \cup {<< >>})
    BY <1>1, <1>2, <1>3, <1>4 DEF Accounted, Kept
  <2>4. report'.written = Cardinality(DOMAIN names') - 1
    <3>1. IsFiniteSet(DOMAIN names)
      <4>1. DOMAIN names \subseteq DOMAIN tree
        BY <1>1 DEF Accounted, Kept
      <4> QED
        BY <4>1, TreeFacts, FS_Subset
    <3>2. Cardinality(DOMAIN names') = Cardinality(DOMAIN names) + 1 /\ Cardinality(DOMAIN names) \in Nat
      BY <3>1, <1>4, FS_AddElement, FS_CardinalityType
    <3> QED
      BY <3>2, <1>1 DEF Accounted
  <2> QED
    BY <2>2, <2>3, <2>4, <1>1 DEF Accounted, ReportOK
<1>9. NamedOnce'
  <2>1. ASSUME NEW p \in DOMAIN names', NEW k \in 0..Len(p) PROVE SubSeq(p, 1, k) \in DOMAIN names'
    <3>1. CASE p # Entry
      BY <3>1, <1>1, <1>4 DEF NamedOnce
    <3>2. CASE p = Entry
      <4>1. Len(Entry) \in Nat \ {0} /\ Len(Parent(Entry)) = Len(Entry) - 1 /\ Len(Entry) - 1 \in 0..Len(Entry)
        BY <1>1, <1>2, ParentFacts
      <4>2. CASE k = Len(Entry)
        BY <4>2, <3>2, <1>2, <1>4, WholePrefix
      <4>3. CASE k # Len(Entry)
        <5>1. k \in 0..(Len(Entry) - 1)
          BY <4>1, <4>3, <3>2
        <5>2. SubSeq(Parent(Entry), 1, k) = SubSeq(Entry, 1, k)
          BY <4>1, <5>1, <1>2, PrefixOfPrefix DEF Parent
        <5>3. SubSeq(Parent(Entry), 1, k) \in DOMAIN names
          BY <4>1, <5>1, <1>1, <1>4 DEF NamedOnce
        <5> QED
          BY <5>2, <5>3, <3>2, <1>4
      <4> QED
        BY <4>2, <4>3
    <3> QED
      BY <3>1, <3>2
  <2>2. \A n \in DOMAIN named' :
          named'[n] \in DOMAIN names' /\ tree'[named'[n]].shared /\ tree'[named'[n]].node = n
    BY <1>1, <1>4 DEF NamedOnce
  <2>3. \A p \in DOMAIN names' :
          IF tree'[p].shared
          THEN tree'[p].node \in DOMAIN named' /\ names'[p] = named'[tree'[p].node]
          ELSE names'[p] = p
    BY <1>1, <1>4 DEF NamedOnce
  <2>4. DOMAIN inodes' = {p \in DOMAIN names' : names'[p] = p}
    BY <1>1, <1>4 DEF NamedOnce
  <2> QED
    BY <2>1, <2>2, <2>3, <2>4 DEF NamedOnce
<1>10. Dressed'
  <2>1. \A p \in DOMAIN inodes : p # Entry /\ p \in DOMAIN names
    BY <1>1, <1>4 DEF NamedOnce
  <2>2. ASSUME NEW p \in DOMAIN inodes'
        PROVE  IF p \in Opened' \cup Waiting' \/ (p = << >> /\ ~Began')
               THEN inodes'[p] = Fresh ELSE Complete(inodes'[p], report'.dropped)
    <3>1. CASE p = Entry
      <4>1. i = Entry
        BY <3>1, <2>1, <2>2
      <4>2. p \in Opened' \cup Waiting' <=> IsDirectory(Entry)
        BY <3>1, <1>4, <1>5
      <4> QED
        BY <4>1, <4>2, <3>1, <1>2
    <3>2. CASE p # Entry
      <4>1. p \in DOMAIN inodes /\ inodes'[p] = inodes[p]
        BY <3>2, <2>2
      <4>2. p \in Opened' \cup Waiting' <=> p \in Opened \cup Waiting
        BY <3>2, <1>5
      <4>3. Complete(inodes[p], report.dropped) => Complete(inodes[p], report'.dropped)
        BY ReportGrows
      <4> QED
        BY <4>1, <4>2, <4>3, <1>1, <1>2 DEF Dressed
    <3> QED
      BY <3>1, <3>2
  <2>3. ASSUME NEW p \in DOMAIN inodes', IsDirectory(p) PROVE Searchable(p)'
    <3>1. CASE p = Entry
      <4>1. i = Entry
        BY <3>1, <2>1, <2>3
      <4> QED
        BY <4>1, <3>1, <2>3 DEF Searchable, Fresh
    <3>2. CASE p # Entry
      BY <3>2, <2>3, <1>1 DEF Dressed, Searchable
    <3> QED
      BY <3>1, <3>2
  <2> QED
    BY <2>2, <2>3, <1>3 DEF Dressed
<1> QED
  BY <1>2, <1>6, <1>7, <1>8, <1>9, <1>10 DEF Faithful

-----------------------------------------------------------------------------
\* Every step.

LEMMA RootKeeps ==
    ASSUME tree \in Trees, Faithful, Root, status' # "failed"
    PROVE  Faithful'
<1>1. /\ tree' = tree /\ ext' = ext /\ held' = held /\ left_out' = left_out /\ named' = named
      /\ names' = names /\ inodes' = inodes /\ open' = << << >> >> /\ Handled
      /\ status = "walking" /\ left # {} /\ Entry = << >>
      /\ InOrder /\ Stacked /\ NothingBehind /\ Accounted /\ NamedOnce /\ Dressed
  BY DEF Root, input, Faithful, Walking, Fail
<1>2. status' = "walking" /\ ReportOK' /\ Grows /\ report'.written = report.written
  <2>1. ReportOK
    BY <1>1 DEF Accounted, ReportOK
  <2>2. CASE UNCHANGED <<report, status, refusals>>
    BY <2>1, <2>2, <1>1 DEF ReportOK, Grows
  <2>3. CASE FlagsDropped /\ report' = Dropping("flags")
    BY <2>1, <2>3, <1>1, DroppingGrows DEF FlagsDropped, Reasons
  <2> QED
    BY <2>2, <2>3 DEF Root, Fail
<1>3. /\ << >> \in left /\ InOrder' /\ left' = left \ {<< >>} /\ Handed = {} /\ Handed' = {<< >>}
      /\ ~Began /\ Began'
  <2>1. << >> \in left /\ left \subseteq DOMAIN tree /\ DOMAIN tree \subseteq Paths
    BY <1>1, EntryFacts, TreeFacts DEF InOrder
  <2>2. InOrder' /\ left' = left \ {<< >>} /\ Handed' = Handed \cup {<< >>}
    BY <1>1, HandledFacts
  <2>3. Handed = {}
    <3> SUFFICES ASSUME NEW p \in Handed PROVE FALSE
      OBVIOUS
    <3>1. p \in Paths /\ p # << >> /\ Before(p, << >>)
      BY <2>1, <1>1 DEF Handed, InOrder
    <3> QED
      BY <3>1, RootFirst
  <2> QED
    BY <2>1, <2>2, <2>3 DEF Began
<1>4. DOMAIN names = {<< >>} /\ open = << >> /\ held = << >> /\ left_out = NoPath
  BY <1>1, <1>3 DEF Accounted, Stacked
<1>5. Opened = {} /\ Waiting = {} /\ Opened' = {<< >>} /\ Waiting' = {}
  <2>1. Opened' = {open'[k] : k \in 1..Len(open')} /\ Waiting' = {held'[k] : k \in 1..Len(held')}
    BY DEF Opened, Waiting
  <2>2. Len(open') = 1 /\ open'[1] = << >> /\ Len(held') = 0 /\ 1..1 = {1} /\ 1..0 = {}
    BY <1>1, <1>4
  <2> QED
    BY <2>1, <2>2, <1>4 DEF Opened, Waiting
<1>6. Stacked'
  <2>1. IsDirectory(<< >>)
    BY TreeFacts
  <2>2. Len(open') = 1 /\ open'[1] = << >> /\ Len(held') = 0 /\ Len(<< >>) = 0
    BY <1>1, <1>4
  <2>3. open' \in Seq(DOMAIN names') /\ held' \in Seq(DOMAIN names')
    BY <1>1, <1>4
  <2>4. \A k \in 1..Len(open') : Len(open'[k]) = k - 1 /\ IsDirectory(open'[k])
    BY <2>1, <2>2
  <2> QED
    BY <2>2, <2>3, <2>4, <1>1, <1>3, <1>5 DEF Stacked, IsDirectory
<1>7. NothingBehind'
  BY <1>1, <1>3, <1>4, <1>5 DEF NothingBehind
<1>8. Accounted'
  BY <1>1, <1>2, <1>3, <1>4 DEF Accounted, ReportOK, Kept, MadeByTheFormat
<1>9. NamedOnce'
  BY <1>1 DEF NamedOnce
<1>10. Dressed'
  <2>1. DOMAIN inodes \subseteq {<< >>} /\ \A p \in DOMAIN inodes : inodes[p] = Fresh
    BY <1>1, <1>3, <1>4 DEF NamedOnce, Dressed
  <2>2. \A p \in DOMAIN inodes' : Searchable(p)'
    BY <2>1, <1>1 DEF Searchable, Fresh
  <2> QED
    BY <2>1, <2>2, <1>1, <1>5 DEF Dressed
<1> QED
  BY <1>2, <1>3, <1>6, <1>7, <1>8, <1>9, <1>10 DEF Faithful

LEMMA PassOverKeeps ==
    ASSUME tree \in Trees, Faithful, PassOver
    PROVE  Faithful'
<1>1. /\ status = "walking" /\ status' = "walking" /\ left # {} /\ Entry # << >> /\ Handled
      /\ MadeByTheFormat(Entry) /\ left_out' = left_out /\ report' = report /\ inodes' = inodes
      /\ UNCHANGED <<input, open, held, named, names>>
      /\ InOrder /\ NothingBehind /\ Accounted
  BY DEF PassOver, Walking, MadeByTheFormat, Faithful
<1>2. ReportOK' /\ Grows
  BY <1>1 DEF Accounted, ReportOK, Grows, input
<1>3. \A d \in (Handed \cup {Entry}) \ DOMAIN names, q \in left \ {Entry} :
         Under(q, d) => MadeByTheFormat(d) \/ d = left_out' \/ Under(d, left_out')
  BY <1>1 DEF NothingBehind
<1>4. \/ left_out' = NoPath
      \/ left_out' \in Handed \cup {Entry} /\ (report'.more_skipped \/ left_out' \in report'.skipped)
  BY <1>1 DEF Accounted
<1> QED
  BY <1>1, <1>2, <1>3, <1>4, Skipped

LEMMA LeaveOutKeeps ==
    ASSUME tree \in Trees, Faithful, LeaveOut
    PROVE  Faithful'
<1>1. /\ status = "walking" /\ status' = "walking" /\ left # {} /\ Handled
      /\ Under(Entry, left_out) /\ left_out' = left_out /\ report' = report /\ inodes' = inodes
      /\ UNCHANGED <<input, open, held, named, names>>
      /\ InOrder /\ NothingBehind /\ Accounted
  BY DEF LeaveOut, Walking, Faithful, IsLeftOut
<1>2. Entry \in Paths /\ left_out # NoPath
  BY <1>1, EntryFacts, NotUnderNothing
<1>3. left_out \in Handed /\ (report.more_skipped \/ left_out \in report.skipped)
  BY <1>1, <1>2 DEF Accounted
<1>4. Entry # << >>
  <2>1. Len(left_out) \in Nat
    BY <1>3, TreeFacts DEF Handed, Paths
  <2> QED
    BY <2>1, <1>1 DEF Under
<1>5. ReportOK' /\ Grows
  BY <1>1 DEF Accounted, ReportOK, Grows, input
<1>6. \A d \in (Handed \cup {Entry}) \ DOMAIN names, q \in left \ {Entry} :
         Under(q, d) => MadeByTheFormat(d) \/ d = left_out' \/ Under(d, left_out')
  BY <1>1 DEF NothingBehind
<1>7. \/ MadeByTheFormat(Entry) \/ report'.more_skipped
      \/ \E r \in report'.skipped : r = Entry \/ Under(Entry, r)
  BY <1>1, <1>3
<1>8. \/ left_out' = NoPath
      \/ left_out' \in Handed \cup {Entry} /\ (report'.more_skipped \/ left_out' \in report'.skipped)
  BY <1>1, <1>3
<1> QED
  BY <1>1, <1>4, <1>5, <1>6, <1>7, <1>8, Skipped

LEMMA LeaveDirectoryKeeps ==
    ASSUME tree \in Trees, Faithful, LeaveDirectory, status' # "failed"
    PROVE  Faithful'
<1>1. /\ status = "walking" /\ Writing /\ left # {} /\ ~IsLeftOut(Entry) /\ Top # Parent(Entry)
      /\ FinishDirectory(Top) /\ Pop /\ left_out' = NoPath /\ UNCHANGED <<input, left, named, names>>
      /\ InOrder /\ Stacked /\ NothingBehind /\ Accounted
  BY DEF LeaveDirectory, Writing, Walking, Faithful
<1>2. open # << >>
  BY DEF LeaveDirectory
<1>3. \A q \in left : ~Under(q, Top)
  BY <1>1, <1>2, TopIsDone
<1>4. \A d \in Handed \ DOMAIN names, q \in left :
         Under(q, d) => MadeByTheFormat(d) \/ d = left_out' \/ Under(d, left_out')
  BY <1>1, LeftBehind
<1> QED
  BY <1>1, <1>2, <1>3, <1>4, FinishTop

LEMMA DrainKeeps ==
    ASSUME tree \in Trees, Faithful, Drain, status' # "failed"
    PROVE  Faithful'
<1>1. /\ status = "walking" /\ left = {} /\ open # << >> /\ FinishDirectory(Top) /\ Pop
      /\ left_out' = left_out /\ UNCHANGED <<input, left, named, names>>
  BY DEF Drain
<1>2. \A q \in left : ~Under(q, Top)
  BY <1>1
<1>3. \A d \in Handed \ DOMAIN names, q \in left :
         Under(q, d) => MadeByTheFormat(d) \/ d = left_out' \/ Under(d, left_out')
  BY <1>1
<1> QED
  BY <1>1, <1>2, <1>3, FinishTop

\* A name left out is in the report, or is one of more than the report lists.
LEMMA NotedFacts ==
    ASSUME ReportOK, NEW p \in DOMAIN tree, tree' = tree, NoteSkipped(p)
    PROVE  /\ ReportOK' /\ Grows /\ report'.written = report.written
           /\ report'.more_skipped \/ p \in report'.skipped
<1>1. CASE report' = [report EXCEPT !.skipped = @ \cup {p}]
  BY <1>1 DEF ReportOK, Grows
<1>2. CASE report' = [report EXCEPT !.more_skipped = TRUE]
  BY <1>2 DEF ReportOK, Grows
<1> QED
  BY <1>1, <1>2 DEF NoteSkipped

LEMMA CountedFacts ==
    ASSUME ReportOK, tree' = tree,
           \/ report' = Counted(report)
           \/ \E what \in Reasons : report' = Counted(Dropping(what))
    PROVE  ReportOK' /\ Grows /\ report'.written = report.written + 1
<1>1. CASE report' = Counted(report)
  BY <1>1 DEF ReportOK, Grows, Counted
<1>2. ASSUME NEW what \in Reasons, report' = Counted(Dropping(what))
      PROVE  ReportOK' /\ Grows /\ report'.written = report.written + 1
  <2> DEFINE r == Dropping(what)
  <2>1. /\ r \in [written : Nat, skipped : SUBSET DOMAIN tree, more_skipped : BOOLEAN,
                   dropped : SUBSET Reasons]
        /\ r.written = report.written /\ r.skipped = report.skipped
        /\ r.more_skipped = report.more_skipped /\ report.dropped \subseteq r.dropped
    BY DEF ReportOK, Dropping
  <2> HIDE DEF r
  <2> QED
    BY <1>2, <2>1 DEF ReportOK, Grows, Counted, r
<1> QED
  BY <1>1, <1>2

\* An entry in its place that gets no name.
LEMMA LeftOut ==
    ASSUME tree \in Trees, Faithful, InPlace, status' = "walking", Handled,
           UNCHANGED <<input, open, held, named, names>>, NoteSkipped(Entry),
           inodes' = inodes \/ inodes' = Touched(Entry),
           left_out' = IF IsDirectory(Entry) THEN Entry ELSE NoPath
    PROVE  Faithful'
<1>1. /\ status = "walking" /\ left # {} /\ Entry # << >> /\ ~IsLeftOut(Entry) /\ tree' = tree
      /\ InOrder /\ NothingBehind /\ Accounted /\ left \subseteq DOMAIN tree
  BY DEF InPlace, Writing, Walking, Faithful, InOrder, input
<1>2. /\ DOMAIN inodes' = DOMAIN inodes /\ \A p \in DOMAIN inodes : inodes'[p] = inodes[p]
  BY TouchedSame
<1>3. Entry \in Paths /\ Entry \in DOMAIN tree
  BY <1>1, EntryFacts
<1>4. /\ ReportOK' /\ Grows /\ report'.written = report.written
      /\ report'.more_skipped \/ Entry \in report'.skipped
  BY <1>1, <1>3, NotedFacts DEF Accounted, ReportOK
<1>5. ASSUME NEW d \in (Handed \cup {Entry}) \ DOMAIN names, NEW q \in left \ {Entry}, Under(q, d)
      PROVE  MadeByTheFormat(d) \/ d = left_out' \/ Under(d, left_out')
  <2>1. CASE d = Entry
    BY <2>1, <1>1, <1>3, <1>5, UnderIsDirectory
  <2>2. CASE d # Entry
    BY <2>2, <1>1, <1>5, LeftBehind
  <2> QED
    BY <2>1, <2>2
<1>6. \/ left_out' = NoPath
      \/ left_out' \in Handed \cup {Entry} /\ (report'.more_skipped \/ left_out' \in report'.skipped)
  BY <1>4
<1> QED
  BY <1>1, <1>2, <1>4, <1>5, <1>6, Skipped

LEMMA LinkKeeps ==
    ASSUME tree \in Trees, Faithful, Link, status' # "failed"
    PROVE  Faithful'
<1>1. /\ InPlace /\ Handled /\ left_out' = NoPath /\ UNCHANGED <<input, open, held, named>>
      /\ tree' = tree /\ tree[Entry].shared /\ tree[Entry].node \in DOMAIN named
      /\ status = "walking" /\ left # {} /\ Entry # << >> /\ InOrder /\ Accounted /\ NamedOnce
  BY DEF Link, InPlace, Writing, Walking, Faithful, input, Seen
<1>2. Entry \in DOMAIN tree /\ ~IsDirectory(Entry)
  BY <1>1, EntryFacts, TreeFacts
<1> DEFINE first == named[tree[Entry].node]
<1>3. CASE /\ names' = NamesWith(Entry, names[first])
           /\ inodes' = Touched(Entry)
           /\ report' = Counted(report)
           /\ UNCHANGED <<status, refusals>>
  <2>1. first \in DOMAIN names /\ names[first] = first
    BY <1>1 DEF NamedOnce
  <2>2. first # Entry
    BY <2>1, <1>1, EntryFacts DEF Accounted, Handed
  <2>3. ReportOK' /\ Grows /\ report'.written = report.written + 1
    BY <1>1, <1>3, CountedFacts DEF Accounted, ReportOK
  <2>4. DOMAIN inodes' = DOMAIN inodes /\ \A p \in DOMAIN inodes : inodes'[p] = inodes[p]
    BY <1>1, <1>3, TouchedSame
  <2> QED
    BY <2>1, <2>2, <2>3, <2>4, <1>1, <1>2, <1>3, Made
<1>4. CASE NoteSkipped(Entry) /\ UNCHANGED status /\ UNCHANGED <<names, inodes>>
  BY <1>1, <1>2, <1>4, LeftOut
<1> QED
  BY <1>3, <1>4 DEF Link, Fail

LEMMA UnmadeKeeps ==
    ASSUME tree \in Trees, Faithful, Unmade, status' # "failed"
    PROVE  Faithful'
<1>1. /\ InPlace /\ Handled /\ UNCHANGED <<input, open, held, named, names>>
      /\ left_out' = (IF IsDirectory(Entry) THEN Entry ELSE NoPath) /\ status = "walking"
  BY DEF Unmade, NewEntry, IsDirectory, InPlace, Writing, Walking
<1>2. /\ inodes' = inodes \/ inodes' = Touched(Entry)
      /\ NoteSkipped(Entry) /\ UNCHANGED status
  BY DEF Unmade, Fail
<1> QED
  BY <1>1, <1>2, LeftOut

LEMMA MakeDirectoryKeeps ==
    ASSUME tree \in Trees, Faithful, MakeDirectory
    PROVE  Faithful'
<1>1. /\ InPlace /\ Handled /\ left_out' = NoPath /\ UNCHANGED <<input, held, named>> /\ tree' = tree
      /\ names' = NamesWith(Entry, Entry) /\ inodes' = Created(Entry) /\ open' = Append(open, Entry)
      /\ IsDirectory(Entry) /\ status = "walking" /\ left # {} /\ Entry # << >> /\ InOrder
      /\ Accounted /\ NamedOnce
  BY DEF MakeDirectory, NewEntry, InPlace, Writing, Walking, Faithful, input, IsDirectory
<1>2. ~tree[Entry].shared
  BY <1>1, EntryFacts, TreeFacts
<1>3. status' = "walking" /\ ReportOK' /\ Grows /\ report'.written = report.written + 1
  <2>1. \/ report' = Counted(report) /\ UNCHANGED status
        \/ UNCHANGED status /\ report' = Counted(Dropping("flags"))
    BY DEF MakeDirectory, FlagsDropped
  <2>2. "flags" \in Reasons
    BY DEF Reasons
  <2> QED
    BY <2>1, <2>2, <1>1, CountedFacts DEF Accounted, ReportOK
<1>4. /\ DOMAIN inodes' = DOMAIN inodes \cup {Entry} /\ inodes'[Entry] = Fresh
      /\ \A p \in DOMAIN inodes : p # Entry => inodes'[p] = inodes[p]
  BY <1>1, TouchedSame DEF Created
<1> QED
  BY <1>1, <1>2, <1>3, <1>4, Made

LEMMA MakeLeafKeeps ==
    ASSUME tree \in Trees, Faithful, MakeLeaf, status' # "failed"
    PROVE  Faithful'
<1>1. /\ InPlace /\ Handled /\ left_out' = NoPath /\ UNCHANGED <<input, open, held>> /\ tree' = tree
      /\ names' = NamesWith(Entry, Entry) /\ ~IsDirectory(Entry) /\ ~Seen(tree[Entry])
      /\ status = "walking" /\ left # {} /\ Entry # << >> /\ Accounted /\ InOrder
  BY DEF MakeLeaf, NewEntry, InPlace, Writing, Walking, Faithful, input, IsDirectory
<1>2. PICK refused :
         /\ refused = "none" \/ (refused \in Late \cup {"short"} /\ OptedIn(refused))
         /\ inodes' = [Created(Entry) EXCEPT ![Entry] = Finished(@, refused)]
         /\ named' = NamedWith(Entry) /\ status' = status
         /\ \/ report' = Counted(report) /\ refused = "none"
            \/ report' = Counted(Dropping("flags")) /\ refused = "none"
            \/ report' = Counted(Dropping(refused)) /\ refused \in Reasons
  BY DEF MakeLeaf, FlagsDropped, Fail, Reasons
<1>3. ReportOK' /\ Grows /\ report'.written = report.written + 1
  <2>1. ReportOK /\ "flags" \in Reasons
    BY <1>1 DEF Accounted, ReportOK, Reasons
  <2> QED
    BY <2>1, <1>1, <1>2, CountedFacts
<1>4. refused = "none" \/ refused \in report'.dropped
  <2>1. ReportOK
    BY <1>1 DEF Accounted, ReportOK
  <2> QED
    BY <2>1, <1>2 DEF ReportOK, Counted, Dropping
<1>5. /\ DOMAIN Created(Entry) = DOMAIN inodes \cup {Entry} /\ Created(Entry)[Entry] = Fresh
      /\ \A p \in DOMAIN inodes : p # Entry => Created(Entry)[p] = inodes[p]
  BY <1>1, TouchedSame DEF Created
<1>6. /\ DOMAIN inodes' = DOMAIN inodes \cup {Entry} /\ inodes'[Entry] = Finished(Fresh, refused)
      /\ \A p \in DOMAIN inodes : p # Entry => inodes'[p] = inodes[p]
  BY <1>2, <1>5
<1>7. Complete(inodes'[Entry], report'.dropped)
  BY <1>2, <1>4, <1>6, DressedIsComplete
<1>8. tree[Entry].shared \in BOOLEAN
  BY <1>1, EntryFacts, TreeFacts
<1>9. /\ tree[Entry].shared => tree[Entry].node \in DOMAIN named' /\ Entry = named'[tree[Entry].node]
      /\ \A n \in DOMAIN named : n \in DOMAIN named' /\ named'[n] = named[n]
      /\ \A n \in DOMAIN named' : n \in DOMAIN named
            \/ (named'[n] = Entry /\ tree[Entry].shared /\ n = tree[Entry].node)
  BY <1>1, <1>2 DEF NamedWith, Seen
<1> QED
  BY <1>1, <1>2, <1>3, <1>6, <1>7, <1>8, <1>9, Made

LEMMA ApplyHeldKeeps ==
    ASSUME tree \in Trees, Faithful, ApplyHeld, status' # "failed"
    PROVE  Faithful'
<1> DEFINE d == Head(held)
<1>1. /\ tree' = tree /\ ext' = ext /\ left' = left /\ open' = open /\ left_out' = left_out
      /\ named' = named /\ names' = names /\ status = "walking" /\ left = {} /\ open = << >>
      /\ held # << >> /\ ApplyDirectory(d) /\ held' = Tail(held)
      /\ InOrder /\ Stacked /\ NothingBehind /\ Accounted /\ NamedOnce /\ Dressed /\ ReportOK
  BY DEF ApplyHeld, input, Faithful, Accounted, ReportOK
<1>2. /\ Handed' = Handed /\ Kept' = Kept /\ (Began' <=> Began) /\ InOrder' /\ Began /\ Opened' = Opened
      /\ \A p : (IsDirectory(p)' <=> IsDirectory(p)) /\ (MadeByTheFormat(p)' <=> MadeByTheFormat(p))
  BY <1>1, SameWalk DEF Stacked, Opened
<1>3. /\ held \in Seq(DOMAIN names) /\ Len(held) \in Nat \ {0} /\ 1 \in 1..Len(held) /\ d = held[1]
      /\ held' \in Seq(DOMAIN names) /\ Len(held') = Len(held) - 1
      /\ \A k \in 1..Len(held') : k + 1 \in 1..Len(held) /\ held'[k] = held[k + 1]
  <2>1. held \in Seq(DOMAIN names) /\ Len(held) \in Nat \ {0}
    BY <1>1 DEF Stacked
  <2>2. /\ d = held[1] /\ held' \in Seq(DOMAIN names) /\ Len(held') = Len(held) - 1
        /\ \A k \in 1..Len(held') : held'[k] = held[k + 1]
    BY <2>1, <1>1
  <2> QED
    BY <2>1, <2>2
<1>4. /\ d \in DOMAIN names /\ d \in Waiting /\ IsDirectory(d) /\ d \in DOMAIN tree
      /\ \A j, k \in 1..Len(held) : held[j] = held[k] => j = k
  BY <1>1, <1>3 DEF Stacked, Waiting, Accounted, Kept
<1>5. Waiting' = Waiting \ {d}
  <2>1. Waiting' = {held'[k] : k \in 1..Len(held')}
    BY DEF Waiting
  <2>2. \A k \in 1..Len(held') : held'[k] \in Waiting /\ held'[k] # d
    BY <1>3, <1>4 DEF Waiting
  <2>3. ASSUME NEW k \in 1..Len(held), held[k] # d PROVE held[k] \in Waiting'
    <3>1. k # 1 /\ k - 1 \in 1..Len(held') /\ k - 1 + 1 = k
      BY <2>3, <1>3
    <3>2. held'[k - 1] = held[k]
      BY <3>1, <1>3
    <3> QED
      BY <3>1, <3>2, <2>1
  <2> QED
    BY <2>1, <2>2, <2>3 DEF Waiting
<1>6. d \in DOMAIN inodes /\ inodes[d] = Fresh
  <2>1. ~tree[d].shared
    BY <1>4, TreeFacts
  <2> QED
    BY <2>1, <1>1, <1>4 DEF NamedOnce, Dressed
<1>7. /\ ReportOK' /\ Grows /\ report'.written = report.written /\ status' = status
      /\ report'.skipped = report.skipped /\ report'.more_skipped = report.more_skipped
      /\ DOMAIN inodes' = DOMAIN inodes /\ Complete(inodes'[d], report'.dropped)
      /\ \A p \in DOMAIN inodes : p # d => inodes'[p] = inodes[p]
  BY <1>1, <1>6, Applied
<1>8. Stacked'
  <2>1. \A k \in 1..Len(held') : IsDirectory(held'[k]) /\ ~tree[held'[k]].search
    BY <1>1, <1>3 DEF Stacked
  <2>2. \A j, k \in 1..Len(held') : held'[j] = held'[k] => j = k
    BY <1>3, <1>4
  <2>3. Opened' \cap Waiting' = {}
    BY <1>1, <1>2, <1>5 DEF Stacked
  <2>4. \A k \in 1..Len(open') : Len(open'[k]) = k - 1 /\ IsDirectory(open'[k])
    BY <1>1 DEF Stacked
  <2> QED
    BY <2>1, <2>2, <2>3, <2>4, <1>1, <1>2, <1>3 DEF Stacked, IsDirectory
<1>9. NothingBehind'
  BY <1>1 DEF NothingBehind
<1>10. Accounted'
  <2>1. \A p : Reported(p) => Reported(p)'
    BY <1>7, ReportGrows
  <2> QED
    BY <2>1, <1>1, <1>2, <1>7 DEF Accounted, ReportOK
<1>11. NamedOnce'
  BY <1>1, <1>7 DEF NamedOnce
<1>12. Dressed'
  <2>1. ASSUME NEW p \in DOMAIN inodes
        PROVE  IF p \in Opened' \cup Waiting' \/ (p = << >> /\ ~Began')
               THEN inodes'[p] = Fresh ELSE Complete(inodes'[p], report'.dropped)
    <3>1. CASE p = d
      <4>1. p \notin Opened' \cup Waiting'
        BY <3>1, <1>1, <1>2, <1>4, <1>5 DEF Stacked
      <4> QED
        BY <4>1, <3>1, <1>2, <1>7
    <3>2. CASE p # d
      <4>1. Complete(inodes[p], report.dropped) => Complete(inodes[p], report'.dropped)
        BY <1>7, ReportGrows
      <4> QED
        BY <4>1, <3>2, <1>1, <1>2, <1>5, <1>7 DEF Dressed
    <3> QED
      BY <3>1, <3>2
  <2> QED
    BY <2>1, <1>1, <1>7 DEF Dressed
<1> QED
  BY <1>1, <1>2, <1>7, <1>8, <1>9, <1>10, <1>11, <1>12 DEF Faithful

\* Nothing of it changes while nothing the program keeps does.
LEMMA SameKeeps ==
    ASSUME Faithful, UNCHANGED <<input, left, open, held, left_out, named, report, names, inodes>>,
           status' = status \/ (left = {} /\ open = << >> /\ held = << >>)
    PROVE  Faithful'
<1>1. /\ Handed' = Handed /\ Kept' = Kept /\ (Began' <=> Began) /\ Opened' = Opened /\ Waiting' = Waiting
      /\ InOrder /\ Stacked /\ NothingBehind /\ Accounted /\ NamedOnce /\ Dressed
  BY DEF Faithful, Handed, Kept, MadeByTheFormat, Began, Opened, Waiting, input
<1>2. InOrder' /\ NamedOnce'
  BY <1>1 DEF InOrder, NamedOnce, input
<1>3. Stacked'
  BY <1>1 DEF Stacked, IsDirectory, input
<1>4. NothingBehind'
  BY <1>1 DEF NothingBehind, IsDirectory, MadeByTheFormat, input
<1>5. Accounted'
  BY <1>1 DEF Accounted, Reported, input
<1>6. Dressed'
  BY <1>1 DEF Dressed, Searchable, IsDirectory, input
<1> QED
  BY <1>2, <1>3, <1>4, <1>5, <1>6 DEF Faithful

LEMMA SinkStarts ==
    Init => SinkInv
<1> SUFFICES ASSUME Init PROVE tree \in Trees /\ Faithful
  BY DEF SinkInv
<1>1. /\ tree \in Trees /\ left = DOMAIN tree /\ open = << >> /\ held = << >> /\ left_out = NoPath
      /\ named = [n \in {} |-> NoPath] /\ status = "walking"
      /\ report = [written |-> 0, skipped |-> {}, more_skipped |-> FALSE, dropped |-> {}]
      /\ names = [p \in {<< >>} |-> p] /\ inodes = [p \in {<< >>} |-> Fresh]
  BY DEF Init
<1>2. Handed = {} /\ ~Began /\ << >> \in DOMAIN tree /\ Opened = {} /\ Waiting = {} /\ Len(<< >>) = 0
  <2>1. Handed = {} /\ ~Began /\ << >> \in DOMAIN tree
    BY <1>1, TreeFacts DEF Handed, Began
  <2>2. Opened = {} /\ Waiting = {}
    BY <1>1 DEF Opened, Waiting
  <2> QED
    BY <2>1, <2>2
<1>3. InOrder /\ NothingBehind
  BY <1>1, <1>2 DEF InOrder, NothingBehind
<1>4. Stacked
  BY <1>1, <1>2 DEF Stacked
<1>5. Accounted
  <2>1. Cardinality({<< >>}) = 1
    BY FS_Singleton
  <2> QED
    BY <2>1, <1>1, <1>2 DEF Accounted, Kept, MadeByTheFormat
<1>6. NamedOnce
  <2>1. ~tree[<< >>].shared
    BY <1>1, TreeFacts
  <2>2. \A k \in 0..Len(<< >>) : SubSeq(<< >>, 1, k) = << >>
    BY SubSeqEmpty
  <2> QED
    BY <2>1, <2>2, <1>1 DEF NamedOnce
<1>7. Dressed
  BY <1>1, <1>2 DEF Dressed, Searchable, Fresh
<1> QED
  BY <1>1, <1>3, <1>4, <1>5, <1>6, <1>7 DEF Faithful

LEMMA SinkSteps ==
    SinkInv /\ [Next]_vars => SinkInv'
<1> SUFFICES ASSUME SinkInv, [Next]_vars PROVE SinkInv'
  OBVIOUS
<1>1. tree' = tree /\ tree \in Trees
  BY DEF SinkInv, Next, Step, Root, PassOver, LeaveOut, LeaveDirectory, Link, Unmade, MakeDirectory,
         MakeLeaf, Drain, ApplyHeld, Finish, Returned, vars, input
<1> SUFFICES ASSUME status' # "failed" PROVE Faithful'
  BY <1>1 DEF SinkInv
<1>2. ASSUME UNCHANGED vars PROVE Faithful'
  BY <1>2, SameKeeps DEF SinkInv, vars
<1>3. ASSUME Step PROVE Faithful'
  <2>1. Faithful
    BY <1>3 DEF SinkInv, Step, Root, PassOver, LeaveOut, LeaveDirectory, Link, Unmade, MakeDirectory,
         MakeLeaf, Drain, ApplyHeld, Finish, Writing, Walking, InPlace, NewEntry
  <2>2. CASE Root
    BY <2>1, <2>2, <1>1, RootKeeps
  <2>3. CASE PassOver
    BY <2>1, <2>3, <1>1, PassOverKeeps
  <2>4. CASE LeaveOut
    BY <2>1, <2>4, <1>1, LeaveOutKeeps
  <2>5. CASE LeaveDirectory
    BY <2>1, <2>5, <1>1, LeaveDirectoryKeeps
  <2>6. CASE Link
    BY <2>1, <2>6, <1>1, LinkKeeps
  <2>7. CASE Unmade
    BY <2>1, <2>7, <1>1, UnmadeKeeps
  <2>8. CASE MakeDirectory
    BY <2>1, <2>8, <1>1, MakeDirectoryKeeps
  <2>9. CASE MakeLeaf
    BY <2>1, <2>9, <1>1, MakeLeafKeeps
  <2>10. CASE Drain
    BY <2>1, <2>10, <1>1, DrainKeeps
  <2>11. CASE ApplyHeld
    BY <2>1, <2>11, <1>1, ApplyHeldKeeps
  <2>12. CASE Finish
    BY <2>1, <2>12, SameKeeps DEF Finish
  <2> QED
    BY <1>3, <2>2, <2>3, <2>4, <2>5, <2>6, <2>7, <2>8, <2>9, <2>10, <2>11, <2>12 DEF Step
<1> QED
  BY <1>2, <1>3 DEF Next, Returned

-----------------------------------------------------------------------------
\* What it says.

LEMMA SinkIsFaithful ==
    SinkInv => FaithfulOrReported
<1> SUFFICES ASSUME SinkInv, status = "done" PROVE FaithfulOrReported
  BY DEF FaithfulOrReported
<1>1. /\ Accounted /\ NamedOnce /\ Dressed /\ left = {} /\ open = << >> /\ held = << >>
      /\ tree \in Trees
  BY DEF SinkInv, Faithful
<1>2. Handed = DOMAIN tree /\ << >> \in DOMAIN tree /\ Began /\ Opened = {} /\ Waiting = {}
  <2>1. Handed = DOMAIN tree /\ << >> \in DOMAIN tree /\ Began
    BY <1>1, TreeFacts DEF Handed, Began
  <2>2. Opened = {} /\ Waiting = {}
    BY <1>1 DEF Opened, Waiting
  <2> QED
    BY <2>1, <2>2
<1>3. \A p \in Kept : p \in DOMAIN names \/ Reported(p)
  BY <1>1, <1>2 DEF Accounted, Kept
<1>4. DOMAIN names \subseteq Kept /\ report.written = Cardinality(DOMAIN names) - 1
  BY <1>1 DEF Accounted
<1>5. \A p \in DOMAIN names : names[p] \in DOMAIN names /\ names[names[p]] = names[p]
  BY <1>1 DEF NamedOnce
<1>6. \A p \in DOMAIN names : Carries(inodes[names[p]])
  <2> SUFFICES ASSUME NEW p \in DOMAIN names PROVE Carries(inodes[names[p]])
    OBVIOUS
  <2>1. names[p] \in DOMAIN inodes
    BY <1>1, <1>5 DEF NamedOnce
  <2>2. Complete(inodes[names[p]], report.dropped)
    BY <2>1, <1>1, <1>2 DEF Dressed
  <2> QED
    BY <2>2 DEF Complete, Carries
<1>7. ASSUME NEW p \in DOMAIN names, NEW q \in DOMAIN names
      PROVE  names[p] = names[q] <=>
                p = q \/ (tree[p].shared /\ tree[q].shared /\ tree[p].node = tree[q].node)
  <2>1. tree[p].shared \in BOOLEAN /\ tree[q].shared \in BOOLEAN
    BY <1>1, <1>4, TreeFacts DEF Kept
  <2>2. tree[p].shared => tree[names[p]].shared /\ tree[names[p]].node = tree[p].node
    BY <1>1 DEF NamedOnce
  <2>3. tree[q].shared => tree[names[q]].shared /\ tree[names[q]].node = tree[q].node
    BY <1>1 DEF NamedOnce
  <2>4. ~tree[p].shared => names[p] = p
    BY <1>1 DEF NamedOnce
  <2>5. ~tree[q].shared => names[q] = q
    BY <1>1 DEF NamedOnce
  <2>6. tree[p].shared /\ tree[q].shared /\ tree[p].node = tree[q].node => names[p] = names[q]
    BY <1>1 DEF NamedOnce
  <2> QED
    BY <2>1, <2>2, <2>3, <2>4, <2>5, <2>6
<1> QED
  BY <1>3, <1>4, <1>6, <1>7 DEF FaithfulOrReported

LEMMA SinkReaches ==
    SinkInv => FirstNamesReachable
<1> SUFFICES ASSUME SinkInv, status = "walking", left # {}, NEW n \in DOMAIN named
             PROVE  Reachable(named[n])
  BY DEF FirstNamesReachable
<1> DEFINE p == named[n]
<1>1. tree \in Trees /\ Accounted /\ NamedOnce /\ Dressed
  BY DEF SinkInv, Faithful
<1>2. p \in DOMAIN names /\ p \in DOMAIN tree /\ Len(p) \in Nat
  BY <1>1, TreeFacts DEF NamedOnce, Accounted, Kept, Paths
<1>3. ASSUME NEW k \in 0..(Len(p) - 1) PROVE Searchable(SubSeq(p, 1, k))
  <2>1. k \in 0..Len(p) /\ k < Len(p)
    BY <1>2
  <2> DEFINE d == SubSeq(p, 1, k)
  <2>2. d \in DOMAIN tree /\ IsDirectory(d) /\ d \in DOMAIN names
    BY <2>1, <1>1, <1>2, WayDown DEF NamedOnce
  <2>3. ~tree[d].shared
    BY <2>2, <1>1, TreeFacts
  <2>4. d \in DOMAIN inodes
    BY <2>2, <2>3, <1>1 DEF NamedOnce
  <2> QED
    BY <2>2, <2>4, <1>1 DEF Dressed
<1> QED
  BY <1>3 DEF Reachable

\* A run of `write_tree` that succeeds has written every name of the tree or reports it as
\* left out, under one inode for each node, with its metadata as the image records it but for
\* what the report says was dropped: the metadata of each directory outlives every name made
\* in it, and no name is lost between the two stacks of directories.
THEOREM ExtractsFaithfully == Spec => []FaithfulOrReported
<1>1. Init => SinkInv
  BY SinkStarts
<1>2. SinkInv /\ [Next]_vars => SinkInv'
  BY SinkSteps
<1>3. SinkInv => FaithfulOrReported
  BY SinkIsFaithful
<1> QED
  BY <1>1, <1>2, <1>3, PTL DEF Spec

\* While names are left to hand over, the first name of every hard-linked node can be reached:
\* a directory its owner may not search keeps the mode it was made with until the walk is over.
THEOREM FirstNamesAreReachable == Spec => []FirstNamesReachable
<1>1. Init => SinkInv
  BY SinkStarts
<1>2. SinkInv /\ [Next]_vars => SinkInv'
  BY SinkSteps
<1>3. SinkInv => FirstNamesReachable
  BY SinkReaches
<1> QED
  BY <1>1, <1>2, <1>3, PTL DEF Spec
=============================================================================
