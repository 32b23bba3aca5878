-------------------------- MODULE ReadTreeProofs ---------------------------
(***************************************************************************)
(* What the walk and the resolution rest on, proved for every image, cap   *)
(* and policy: TreeWalk first, then PathResolve, then the two together.    *)
(* What a walk hands over is in depth-first order and accounts for every   *)
(* name of the directories it entered; the names it has counted are as     *)
(* many as those directories have, which is when its cap refuses. What a   *)
(* resolution descended through is a way down from the root: an ascent     *)
(* pops its last step and a relative link leaves it alone. A path the walk *)
(* hands out resolves to the node the walk is at, and every path to what   *)
(* PathMeaning says it means.                                              *)
(***************************************************************************)
EXTENDS ReadTree, FiniteSetTheorems, SequenceTheorems, WellFoundedInduction, TLAPS

\* The image walked maps directories to sequences of nodes.
LEMMA Kids == TypeOK => kids \in [Dirs -> Seq(Nodes)]
BY ImagesAssumption DEF TypeOK, kids

\* A directory's names are a sequence of frontier elements, one per entry.
LEMMA NamesType ==
    ASSUME TypeOK, NEW p \in Paths, NEW d \in Dirs
    PROVE  /\ NamesBelow(p, d) \in Seq(Pending)
           /\ Len(NamesBelow(p, d)) = Len(kids[d])
<1>1. kids[d] \in Seq(Nodes) /\ Len(kids[d]) \in Nat
  BY Kids
<1>2. ASSUME NEW i \in 1..Len(kids[d])
      PROVE  [path |-> Append(p, i), node |-> kids[d][i]] \in Pending
  <2>1. i \in Nat /\ kids[d][i] \in Nodes
    BY <1>1
  <2>2. Append(p, i) \in Paths
    BY <2>1 DEF Paths
  <2> QED
    BY <2>1, <2>2 DEF Pending
<1> QED
  BY <1>1, <1>2 DEF NamesBelow

\* The variables keep their types.
THEOREM WalkTypeCorrect == Spec => []TypeOK
<1>1. Init => TypeOK
  BY WalkedAssumption, BoundsAssumption DEF Init, TypeOK, Statuses
<1>2. TypeOK /\ [Next]_vars => TypeOK'
  <2> SUFFICES ASSUME TypeOK, [Next]_vars PROVE TypeOK'
    OBVIOUS
  <2> USE DEF Statuses, Refusals
  <2>h. ASSUME NEW s \in Statuses, Halt(s) PROVE TypeOK'
    BY <2>h DEF Halt, TypeOK, walk
  <2>p. << >> \in Paths
    BY DEF Paths
  <2>1. CASE Seed
    <3>1. Root \in Dirs
      BY NodesAssumption
    <3>2. CASE \E s \in {"path_too_long", "too_large"} : Halt(s)
      BY <2>h, <3>2
    <3>3. CASE ~ \E s \in {"path_too_long", "too_large"} : Halt(s)
      <4>1. /\ stack' = NamesBelow(<< >>, Root)
            /\ visited' = {Root}
            /\ entered' = {[path |-> << >>, node |-> Root]}
            /\ status' = "walking"
            /\ UNCHANGED <<walk, seen, yielded>>
        BY <2>1, <3>3 DEF Seed
      <4>2. NamesBelow(<< >>, Root) \in Seq(Pending)
        BY <3>1, <2>p, NamesType
      <4> HIDE DEF Pending, Paths
      <4> QED
        BY <4>1, <4>2, <3>1, <2>p DEF TypeOK, walk
    <3> QED
      BY <3>2, <3>3
  <2>2. CASE ReadFails
    BY <2>2, <2>h DEF ReadFails
  <2>3. CASE Refuse
    <3>1. Refusal # "none" => Refusal \in Statuses
      BY DEF Refusal
    <3> QED
      BY <2>3, <2>h, <3>1 DEF Refuse
  <2>4. ASSUME Popping PROVE /\ Top \in Pending
                             /\ Tail(stack) \in Seq(Pending)
    BY <2>4 DEF Popping, Top, TypeOK
  <2>5. CASE Visit
    <3>1. Top \in Pending /\ Tail(stack) \in Seq(Pending)
      BY <2>4, <2>5 DEF Visit
    <3>2. Append(yielded, Top) \in Seq(Pending)
      BY <3>1 DEF TypeOK
    <3> HIDE DEF Pending
    <3> QED
      BY <2>5, <3>1, <3>2 DEF Visit, Yield, TypeOK, walk
  <2>6. CASE Descend
    <3>1. /\ Top.path \in Paths /\ Top.node \in Dirs
          /\ Top \in [path : Paths, node : Dirs]
          /\ Tail(stack) \in Seq(Pending)
      BY <2>4, <2>6 DEF Descend, Pending
    <3>2. NamesBelow(Top.path, Top.node) \in Seq(Pending)
      BY <3>1, NamesType
    <3>3. stack' \in Seq(Pending)
      BY <2>6, <3>1, <3>2 DEF Descend
    <3>4. Append(yielded, Top) \in Seq(Pending)
      BY <2>4, <2>6 DEF Descend, TypeOK
    <3> QED
      BY <2>6, <3>1, <3>3, <3>4 DEF Descend, Yield, TypeOK, walk
  <2>7. CASE Finish
    BY <2>7, <2>h DEF Finish
  <2>8. CASE UNCHANGED vars
    BY <2>8 DEF TypeOK, vars
  <2> QED
    BY <2>1, <2>2, <2>3, <2>5, <2>6, <2>7, <2>8 DEF Next, Step, Returned
<1> QED
  BY <1>1, <1>2, PTL DEF Spec

-----------------------------------------------------------------------------

\* Nothing happens before the seed.
LEMMA UnstartedInvariant == Spec => []Unstarted
<1>1. Init => Unstarted
  BY DEF Init, Unstarted
<1>2. Unstarted /\ [Next]_vars => Unstarted'
  BY DEF Unstarted, Next, Step, Returned, Seed, ReadFails, Refuse, Refusal, Visit,
         Descend, Finish, Popping, Yield, Halt, walk, vars
<1> QED
  BY <1>1, <1>2, PTL DEF Spec

\* walk.rs, "The frontier": names yielded and names held never pass the cap,
\* whatever the image, so a crafted one cannot make the walk hold more than the
\* caller allowed.
THEOREM FrontierIsBounded == Spec => []BoundedFrontier
<1>1. Init => BoundedFrontier
  BY BoundsAssumption DEF Init, BoundedFrontier
<1>2. TypeOK /\ Unstarted /\ BoundedFrontier /\ [Next]_vars => BoundedFrontier'
  <2> SUFFICES ASSUME TypeOK, Unstarted, BoundedFrontier, [Next]_vars
               PROVE  BoundedFrontier'
    OBVIOUS
  <2> USE DEF BoundedFrontier
  <2>n. cap \in Nat /\ seen \in Nat
    BY DEF TypeOK
  <2>t. stack \in Seq(Pending)
    BY DEF TypeOK
  <2>h. ASSUME NEW s, Halt(s) PROVE BoundedFrontier'
    BY <2>h DEF Halt, walk
  <2>1. CASE Seed
    <3>1. CASE \E s \in {"path_too_long", "too_large"} : Halt(s)
      BY <2>h, <3>1
    <3>2. CASE ~ \E s \in {"path_too_long", "too_large"} : Halt(s)
      <4>1. /\ status = "start"
            /\ stack' = NamesBelow(<< >>, Root)
            /\ ~(Len(kids[Root]) > cap)
            /\ UNCHANGED <<walk, seen>>
        BY <2>1, <3>2 DEF Seed
      <4>2. seen = 0
        BY <4>1 DEF Unstarted
      <4>3. Len(stack') = Len(kids[Root]) /\ Len(kids[Root]) \in Nat
        <5>1. Root \in Dirs /\ << >> \in Paths
          BY NodesAssumption DEF Paths
        <5>2. Len(NamesBelow(<< >>, Root)) = Len(kids[Root])
          BY <5>1, NamesType
        <5>3. kids[Root] \in Seq(Nodes)
          BY <5>1, Kids
        <5> QED
          BY <4>1, <5>2, <5>3
      <4> QED
        BY <2>n, <4>1, <4>2, <4>3 DEF walk
    <3> QED
      BY <3>1, <3>2
  <2>2. CASE ReadFails \/ Refuse \/ Finish
    BY <2>2, <2>h DEF ReadFails, Refuse, Finish
  <2>3. CASE Visit
    <3> DEFINE rest == Tail(stack)
    <3>0. stack # << >> /\ stack' = rest
      BY <2>3 DEF Visit, Popping
    <3>1. Len(rest) = Len(stack) - 1 /\ Len(stack) \in Nat
      BY <3>0, <2>t, HeadTailProperties, LenProperties
    <3>2. seen' = seen + 1 /\ cap' = cap
      BY <2>3 DEF Visit, Yield, walk
    <3> HIDE DEF rest
    <3> QED
      BY <2>n, <3>0, <3>1, <3>2
  <2>4. CASE Descend
    <3>0. stack # << >> /\ Top.node \in Dirs /\ ~Reached /\ Refusal = "none"
      BY <2>4 DEF Descend, Popping
    <3>1. Top \in Pending /\ Top.path \in Paths /\ Top.node \in Dirs
      <4>1. Top \in Pending
        BY <3>0, <2>t DEF Top
      <4> QED
        BY <3>0, <4>1 DEF Pending
    <3>2. Fits(Len(kids[Top.node]))
      <4> DEFINE fits == Fits(Len(kids[Top.node]))
      <4>1. Refusal = IF seen >= cap THEN "too_large"
                      ELSE IF TooLong(Top.path, Top.node) THEN "path_too_long"
                      ELSE IF fits THEN "none" ELSE "too_large"
        BY <3>0 DEF Refusal
      <4> HIDE DEF fits
      <4>2. fits
        BY <3>0, <4>1
      <4> QED
        BY <4>2 DEF fits
    <3>3. /\ NamesBelow(Top.path, Top.node) \in Seq(Pending)
          /\ Len(NamesBelow(Top.path, Top.node)) = Len(kids[Top.node])
          /\ Len(kids[Top.node]) \in Nat
      <4>1. kids[Top.node] \in Seq(Nodes)
        BY <3>1, Kids
      <4> QED
        BY <4>1, <3>1, NamesType
    <3> DEFINE rest == Tail(stack)
               new == NamesBelow(Top.path, Top.node)
               fan == Len(kids[Top.node])
    <3>4. rest \in Seq(Pending) /\ stack' = new \o rest
      BY <3>0, <2>4, <2>t DEF Descend
    <3>5. seen + 1 + Len(rest) + fan <= cap
      BY <3>2 DEF Fits
    <3>6. new \in Seq(Pending) /\ Len(new) = fan /\ fan \in Nat
      BY <3>3
    <3>7. seen' = seen + 1 /\ cap' = cap
      BY <2>4 DEF Descend, Yield, walk
    <3> HIDE DEF rest, new, fan
    <3>8. Len(stack') = Len(new) + Len(rest) /\ Len(rest) \in Nat
      BY <3>4, <3>6, ConcatProperties, LenProperties
    <3> QED
      BY <2>n, <3>5, <3>6, <3>7, <3>8
  <2>5. CASE UNCHANGED vars
    BY <2>5 DEF vars
  <2> QED
    BY <2>1, <2>2, <2>3, <2>4, <2>5 DEF Next, Step, Returned
<1> QED
  BY <1>1, <1>2, WalkTypeCorrect, UnstartedInvariant, PTL DEF Spec

-----------------------------------------------------------------------------

\* walk.rs, "A cycle": every directory is entered into under one name only,
\* however many names the image gives it.
THEOREM EachDirectoryOnce == Spec => []DescendedOnce
<1>1. Init => DescendedOnce
  BY DEF Init, DescendedOnce
<1>2. TypeOK /\ Unstarted /\ DescendedOnce /\ [Next]_vars => DescendedOnce'
  <2> SUFFICES ASSUME TypeOK, Unstarted, DescendedOnce, [Next]_vars
               PROVE  DescendedOnce'
    OBVIOUS
  <2> USE DEF DescendedOnce
  <2>h. ASSUME NEW s, Halt(s) PROVE DescendedOnce'
    BY <2>h DEF Halt
  <2>1. CASE Seed
    <3>1. CASE \E s \in {"path_too_long", "too_large"} : Halt(s)
      BY <2>h, <3>1
    <3>2. CASE ~ \E s \in {"path_too_long", "too_large"} : Halt(s)
      <4>1. /\ visited' = {Root}
            /\ entered' = {[path |-> << >>, node |-> Root]}
        BY <2>1, <3>2 DEF Seed
      <4>2. {x.node : x \in entered'} = {Root}
        BY <4>1
      <4> QED
        BY <4>1, <4>2
    <3> QED
      BY <3>1, <3>2
  <2>2. CASE ReadFails \/ Refuse \/ Finish
    BY <2>2, <2>h DEF ReadFails, Refuse, Finish
  <2>3. CASE Visit
    BY <2>3 DEF Visit
  <2>4. CASE Descend
    BY <2>4 DEF Descend, Reached
  <2>5. CASE UNCHANGED vars
    BY <2>5 DEF vars
  <2> QED
    BY <2>1, <2>2, <2>3, <2>4, <2>5 DEF Next, Step, Returned
<1> QED
  BY <1>1, <1>2, WalkTypeCorrect, UnstartedInvariant, PTL DEF Spec

-----------------------------------------------------------------------------
\* The order names are handed in

\* q comes after p and is not below it.
Beside(p, q) ==
    \E k \in 1..Len(p) : k <= Len(q) /\ p[k] < q[k] /\ \A j \in 1..(k - 1) : p[j] = q[j]

\* A directory comes before its own names.
LEMMA ChildAfter == ASSUME NEW p \in Paths, NEW i \in Nat PROVE Before(p, Append(p, i))
<1> DEFINE q == Append(p, i)
<1>1. p \in Seq(Nat) /\ Len(p) \in Nat /\ q \in Seq(Nat) /\ Len(q) = Len(p) + 1 /\ \A j \in 1..Len(p) : q[j] = p[j]
  BY DEF Paths
<1> HIDE DEF q
<1>2. SubSeq(q, 1, Len(p)) = p
  <2>1. SubSeq(q, 1, Len(p)) \in Seq(Nat) /\ Len(SubSeq(q, 1, Len(p))) = Len(p)
        /\ \A j \in 1..Len(p) : SubSeq(q, 1, Len(p))[j] = q[j]
    BY <1>1
  <2> QED BY <1>1, <2>1
<1>3. Len(p) < Len(q)
  BY <1>1
<1> QED BY <1>2, <1>3 DEF Before, q

\* Its names come in the order it stores them.
LEMMA ChildrenBeside ==
    ASSUME NEW p \in Paths, NEW i \in Nat, NEW j \in Nat, i < j
    PROVE  Beside(Append(p, i), Append(p, j))
<1>1. p \in Seq(Nat) /\ Len(p) \in Nat
  BY DEF Paths
<1>2. /\ Len(Append(p, i)) = Len(p) + 1 /\ Len(Append(p, j)) = Len(p) + 1
      /\ Append(p, i)[Len(p) + 1] = i /\ Append(p, j)[Len(p) + 1] = j
      /\ \A n \in 1..Len(p) : Append(p, i)[n] = Append(p, j)[n]
  BY <1>1
<1> DEFINE k == Len(p) + 1
<1>3. k \in 1..Len(Append(p, i)) /\ k <= Len(Append(p, j)) /\ k - 1 = Len(p)
  BY <1>1, <1>2
<1> QED BY <1>2, <1>3 DEF Beside

\* What comes after a directory and not below it comes after its names.
LEMMA ChildBeside ==
    ASSUME NEW p \in Paths, NEW q \in Paths, NEW i \in Nat, Beside(p, q)
    PROVE  Beside(Append(p, i), q)
<1>1. p \in Seq(Nat) /\ Len(p) \in Nat
  BY DEF Paths
<1>2. PICK k \in 1..Len(p) : k <= Len(q) /\ p[k] < q[k] /\ \A j \in 1..(k - 1) : p[j] = q[j]
  BY DEF Beside
<1> DEFINE r == Append(p, i)
<1>3. Len(r) = Len(p) + 1 /\ \A n \in 1..Len(p) : r[n] = p[n]
  BY <1>1
<1> HIDE DEF r
<1>4. k \in 1..Len(r) /\ r[k] < q[k] /\ \A j \in 1..(k - 1) : r[j] = q[j]
  BY <1>1, <1>2, <1>3
<1>5. Beside(r, q)
  BY <1>2, <1>4 DEF Beside
<1> QED BY <1>5 DEF r

\* What was handed over, then what waits: each before the next, and what waits not below it.
Ordered ==
    /\ \A i \in 1..(Len(yielded) - 1) : Before(yielded[i].path, yielded[i + 1].path)
    /\ yielded # << >> /\ stack # << >> => Before(yielded[Len(yielded)].path, stack[1].path)
    /\ \A i \in 1..(Len(stack) - 1) : Beside(stack[i].path, stack[i + 1].path)

\* A step of the loop: the top of the frontier is handed over and new names take its place.
Hands(new) ==
    /\ stack # << >>
    /\ yielded' = Append(yielded, Top) /\ stack' = new \o Tail(stack)
    /\ \A i \in 1..Len(new) : new[i].path = Append(Top.path, i)

\* What such a step does to both sequences.
LEMMA Handing ==
    ASSUME TypeOK, NEW new \in Seq(Pending), Hands(new)
    PROVE  /\ Len(stack) \in Nat /\ Len(stack) >= 1 /\ Len(yielded) \in Nat /\ Len(new) \in Nat
           /\ stack[1] = Top /\ Top \in Pending /\ Top.path \in Paths
           /\ Len(yielded') = Len(yielded) + 1 /\ yielded'[Len(yielded) + 1] = Top
           /\ \A i \in 1..Len(yielded) : yielded'[i] = yielded[i]
           /\ Len(stack') = Len(new) + Len(stack) - 1
           /\ \A i \in 1..Len(new) : stack'[i] = new[i]
           /\ \A i \in 1..(Len(stack) - 1) : stack'[Len(new) + i] = stack[i + 1]
           /\ \A i \in 1..Len(stack) : stack[i] \in Pending /\ stack[i].path \in Paths
<1>1. /\ stack \in Seq(Pending) /\ yielded \in Seq(Pending) /\ stack # << >>
      /\ yielded' = Append(yielded, Top) /\ stack' = new \o Tail(stack)
  BY DEF Hands, TypeOK
<1>2. Len(stack) \in Nat /\ Len(stack) >= 1 /\ Len(yielded) \in Nat /\ Len(new) \in Nat
  BY <1>1, LenProperties, EmptySeq
<1> DEFINE rest == Tail(stack)
<1>3. /\ rest \in Seq(Pending) /\ Len(rest) = Len(stack) - 1
      /\ \A i \in 1..Len(rest) : rest[i] = stack[i + 1]
  BY <1>1, HeadTailProperties
<1>4. stack[1] = Top /\ \A i \in 1..Len(stack) : stack[i] \in Pending /\ stack[i].path \in Paths
  <2>1. \A i \in 1..Len(stack) : stack[i] \in Pending
    BY <1>1, ElementOfSeq
  <2>2. \A e \in Pending : e.path \in Paths
    BY DEF Pending
  <2>3. stack[1] = Top
    BY <1>1 DEF Top
  <2> QED BY <2>1, <2>2, <2>3
<1>5. Top \in Pending /\ Top.path \in Paths
  BY <1>2, <1>4
<1>6. /\ Len(yielded') = Len(yielded) + 1 /\ yielded'[Len(yielded) + 1] = Top
      /\ \A i \in 1..Len(yielded) : yielded'[i] = yielded[i]
  BY <1>1, <1>5, AppendProperties
<1> HIDE DEF rest
<1>7. /\ Len(stack') = Len(new) + Len(rest)
      /\ \A i \in 1..(Len(new) + Len(rest)) : stack'[i] = IF i <= Len(new) THEN new[i] ELSE rest[i - Len(new)]
  BY <1>1, <1>3, ConcatProperties DEF rest
<1>8. \A i \in 1..Len(new) : stack'[i] = new[i]
  BY <1>2, <1>3, <1>7
<1>9. \A i \in 1..(Len(stack) - 1) : stack'[Len(new) + i] = stack[i + 1]
  <2> TAKE i \in 1..(Len(stack) - 1)
  <2>1. Len(new) + i \in 1..(Len(new) + Len(rest)) /\ ~(Len(new) + i <= Len(new)) /\ (Len(new) + i) - Len(new) = i
        /\ i \in 1..Len(rest)
    BY <1>2, <1>3
  <2> QED BY <1>3, <1>7, <2>1
<1> QED BY <1>2, <1>3, <1>4, <1>5, <1>6, <1>7, <1>8, <1>9

\* It keeps the order.
LEMMA HandsInOrder ==
    ASSUME TypeOK, Ordered, NEW new \in Seq(Pending), Hands(new)
    PROVE  Ordered'
<1>1. /\ Len(stack) \in Nat /\ Len(stack) >= 1 /\ Len(yielded) \in Nat /\ Len(new) \in Nat
      /\ stack[1] = Top /\ Top.path \in Paths
      /\ Len(yielded') = Len(yielded) + 1 /\ yielded'[Len(yielded) + 1] = Top
      /\ \A i \in 1..Len(yielded) : yielded'[i] = yielded[i]
      /\ Len(stack') = Len(new) + Len(stack) - 1
      /\ \A i \in 1..Len(new) : stack'[i] = new[i]
      /\ \A i \in 1..(Len(stack) - 1) : stack'[Len(new) + i] = stack[i + 1]
      /\ \A i \in 1..Len(stack) : stack[i].path \in Paths
  BY Handing
<1>2. \A i \in 1..Len(new) : new[i].path = Append(Top.path, i)
  BY DEF Hands
<1>3. \A i \in 1..(Len(yielded') - 1) : Before(yielded'[i].path, yielded'[i + 1].path)
  <2> TAKE i \in 1..(Len(yielded') - 1)
  <2>1. CASE i = Len(yielded)
    <3>1. yielded # << >> /\ stack # << >> /\ i \in 1..Len(yielded)
      BY <1>1, <2>1
    <3> QED BY <1>1, <2>1, <3>1 DEF Ordered
  <2>2. CASE i # Len(yielded)
    <3>1. i \in 1..(Len(yielded) - 1) /\ i \in 1..Len(yielded) /\ i + 1 \in 1..Len(yielded)
      BY <1>1, <2>2
    <3> QED BY <1>1, <3>1 DEF Ordered
  <2> QED BY <2>1, <2>2
<1>4. ASSUME NEW p, NEW q, Beside(p, q) PROVE Before(p, q)
  BY <1>4 DEF Beside, Before
<1>5. ASSUME stack' # << >> PROVE Before(Top.path, stack'[1].path)
  <2>1. CASE Len(new) >= 1
    <3>1. 1 \in 1..Len(new) /\ stack'[1].path = Append(Top.path, 1)
      BY <1>1, <1>2, <2>1
    <3> QED BY <1>1, <3>1, ChildAfter
  <2>2. CASE Len(new) = 0 /\ Len(stack) >= 2
    <3>1. 1 \in 1..(Len(stack) - 1) /\ Len(new) + 1 = 1 /\ stack'[1] = stack[1 + 1]
      BY <1>1, <2>2
    <3>2. Beside(stack[1].path, stack[1 + 1].path)
      BY <3>1 DEF Ordered
    <3> QED BY <1>1, <1>4, <3>1, <3>2
  <2>3. CASE Len(new) = 0 /\ Len(stack) = 1
    <3>1. Len(stack') = 0
      BY <1>1, <2>3
    <3>2. new \in Seq(Pending) /\ Tail(stack) \in Seq(Pending)
      BY HeadTailProperties DEF Hands, TypeOK
    <3>3. stack' \in Seq(Pending)
      BY <3>2, ConcatProperties DEF Hands
    <3> QED BY <1>5, <3>1, <3>3
  <2>4. Len(new) >= 1 \/ (Len(new) = 0 /\ (Len(stack) >= 2 \/ Len(stack) = 1))
    <3> DEFINE n == Len(new)
               m == Len(stack)
    <3>1. n \in Nat /\ m \in Nat /\ m >= 1
      BY <1>1
    <3> HIDE DEF n, m
    <3>2. n >= 1 \/ (n = 0 /\ (m >= 2 \/ m = 1))
      BY <3>1
    <3> QED BY <3>2 DEF n, m
  <2> QED BY <2>1, <2>2, <2>3, <2>4
<1>6. \A i \in 1..(Len(stack') - 1) : Beside(stack'[i].path, stack'[i + 1].path)
  <2> TAKE i \in 1..(Len(stack') - 1)
  <2>1. CASE i < Len(new)
    <3>1. i \in 1..Len(new) /\ i + 1 \in 1..Len(new) /\ i \in Nat /\ i + 1 \in Nat /\ i < i + 1
      BY <1>1, <2>1
    <3>2. stack'[i].path = Append(Top.path, i) /\ stack'[i + 1].path = Append(Top.path, i + 1)
      BY <1>1, <1>2, <3>1
    <3> QED BY <1>1, <3>1, <3>2, ChildrenBeside
  <2>2. CASE i = Len(new)
    <3>1. 1 \in 1..(Len(stack) - 1) /\ stack'[i + 1] = stack[1 + 1] /\ i \in 1..Len(new) /\ i \in Nat
          /\ 1 + 1 \in 1..Len(stack)
      BY <1>1, <2>2
    <3>2. stack'[i].path = Append(Top.path, i)
      BY <1>1, <1>2, <3>1
    <3>3. Beside(Top.path, stack[1 + 1].path)
      BY <1>1, <3>1 DEF Ordered
    <3> QED BY <1>1, <3>1, <3>2, <3>3, ChildBeside
  <2>3. CASE i > Len(new)
    <3> DEFINE j == i - Len(new)
    <3>1. j \in 1..(Len(stack) - 1) /\ j + 1 \in 1..(Len(stack) - 1) /\ i = Len(new) + j /\ i + 1 = Len(new) + (j + 1)
      BY <1>1, <2>3
    <3> HIDE DEF j
    <3>2. stack'[i] = stack[j + 1] /\ stack'[i + 1] = stack[(j + 1) + 1] /\ j + 1 \in 1..(Len(stack) - 1)
      BY <1>1, <3>1
    <3> QED BY <3>2 DEF Ordered
  <2> QED BY <1>1, <2>1, <2>2, <2>3
<1>7. yielded'[Len(yielded')] = Top
  BY <1>1
<1> QED
  BY <1>3, <1>5, <1>6, <1>7 DEF Ordered

-----------------------------------------------------------------------------
\* What has been handed over and what waits are the names of the directories entered

Handed == {yielded[k] : k \in 1..Len(yielded)}
Waiting == {stack[j] : j \in 1..Len(stack)}
Below(x) == {[path |-> Append(x.path, i), node |-> kids[x.node][i]] : i \in 1..Len(kids[x.node])}
NamesOf(D) == UNION {Below(x) : x \in D}
TheRoot == [path |-> << >>, node |-> Root]

Accounted ==
    /\ Handed \cup Waiting = NamesOf(entered)
    /\ \A x \in entered : x = TheRoot \/ x \in Handed
    /\ status \in {"walking", "done"} => TheRoot \in entered
    /\ status = "start" => yielded = << >>
    /\ status = "done" => stack = << >>

\* No path is handed over twice.
Apart ==
    /\ \A i, j \in 1..Len(stack) : stack[i].path = stack[j].path => i = j
    /\ \A z \in Handed, y \in Waiting : z.path # y.path

\* A directory handed over has been entered; a strict walk entered it there.
Followed == \A z \in Handed : z.node \in Dirs => z.node \in visited /\ (strict => z \in entered)

\* What a step that hands over the top of the frontier does to both sets.
LEMMA HandingSets ==
    ASSUME TypeOK, NEW new \in Seq(Pending), Hands(new)
    PROVE  /\ Handed' = Handed \cup {Top}
           /\ Waiting' = {new[i] : i \in 1..Len(new)} \cup {stack[j] : j \in 2..Len(stack)}
           /\ Waiting = {Top} \cup {stack[j] : j \in 2..Len(stack)}
<1>1. /\ Len(stack) \in Nat /\ Len(stack) >= 1 /\ Len(yielded) \in Nat /\ Len(new) \in Nat
      /\ stack[1] = Top
      /\ Len(yielded') = Len(yielded) + 1 /\ yielded'[Len(yielded) + 1] = Top
      /\ \A i \in 1..Len(yielded) : yielded'[i] = yielded[i]
      /\ Len(stack') = Len(new) + Len(stack) - 1
      /\ \A i \in 1..Len(new) : stack'[i] = new[i]
      /\ \A i \in 1..(Len(stack) - 1) : stack'[Len(new) + i] = stack[i + 1]
  BY Handing
<1> DEFINE m == Len(stack)
           n == Len(yielded)
           k == Len(new)
<1>2. m \in Nat /\ m >= 1 /\ n \in Nat /\ k \in Nat
  BY <1>1
<1>3. 1..(n + 1) = (1..n) \cup {n + 1} /\ 1..m = {1} \cup 2..m
  <2> HIDE DEF m, n, k
  <2> QED BY <1>2
<1>4. Handed' = Handed \cup {Top}
  BY <1>1, <1>3 DEF Handed
<1>5. Waiting = {Top} \cup {stack[j] : j \in 2..Len(stack)}
  BY <1>1, <1>3 DEF Waiting
<1>6. Waiting' = {new[i] : i \in 1..Len(new)} \cup {stack[j] : j \in 2..Len(stack)}
  <2>1. Waiting' = {stack'[j] : j \in 1..(k + m - 1)}
    BY <1>1 DEF Waiting
  <2>2. ASSUME NEW i \in 1..k PROVE i \in 1..(k + m - 1)
    <3> HIDE DEF m, k
    <3> QED BY <1>2
  <2>3. ASSUME NEW j \in 2..m PROVE k + (j - 1) \in 1..(k + m - 1) /\ stack'[k + (j - 1)] = stack[j]
    <3>1. k + (j - 1) \in 1..(k + m - 1) /\ j - 1 \in 1..(m - 1) /\ (j - 1) + 1 = j
      <4> HIDE DEF m, k
      <4> QED BY <1>2
    <3> QED BY <1>1, <3>1
  <2>4. ASSUME NEW j \in 1..(k + m - 1)
        PROVE  j \in 1..k \/ (\E i \in 2..m : j = k + (i - 1))
    <3> HIDE DEF m, k
    <3>1. CASE j <= k
      BY <1>2, <3>1
    <3>2. CASE j > k
      <4>1. j - k + 1 \in 2..m /\ j = k + ((j - k + 1) - 1)
        BY <1>2, <3>2
      <4> QED BY <4>1
    <3> QED BY <1>2, <3>1, <3>2
  <2>5. ASSUME NEW z \in Waiting' PROVE z \in {new[i] : i \in 1..Len(new)} \cup {stack[j] : j \in 2..Len(stack)}
    <3>1. PICK j \in 1..(k + m - 1) : z = stack'[j]
      BY <2>1
    <3>2. CASE j \in 1..k
      BY <1>1, <3>1, <3>2
    <3>3. CASE \E i \in 2..m : j = k + (i - 1)
      BY <2>3, <3>1, <3>3
    <3> QED BY <2>4, <3>2, <3>3
  <2>6. ASSUME NEW i \in 1..Len(new) PROVE new[i] \in Waiting'
    BY <1>1, <2>1, <2>2
  <2>7. ASSUME NEW j \in 2..Len(stack) PROVE stack[j] \in Waiting'
    BY <2>1, <2>3
  <2> QED BY <2>5, <2>6, <2>7
<1> QED BY <1>4, <1>5, <1>6

\* A path leads up one way.
LEMMA OneWayUp ==
    ASSUME NEW p \in Paths, NEW q \in Paths, NEW i \in Nat, NEW j \in Nat, Append(p, i) = Append(q, j)
    PROVE  p = q /\ i = j
<1>1. p \in Seq(Nat) /\ q \in Seq(Nat)
  BY DEF Paths
<1> QED BY <1>1, AppendInjective

\* The path of a name ends in its place in the directory entered above it.
LEMMA UpFrom ==
    ASSUME TypeOK, Accounted, NEW z \in Handed \cup Waiting
    PROVE  /\ z \in Pending
           /\ \E x \in entered, i \in Nat : /\ i \in 1..Len(kids[x.node]) /\ x.path \in Paths /\ x.node \in Dirs
                                            /\ z.path = Append(x.path, i) /\ z.node = kids[x.node][i]
<1>1. z \in Pending
  BY ElementOfSeq DEF TypeOK, Handed, Waiting
<1>2. PICK x \in entered : z \in Below(x)
  BY DEF Accounted, NamesOf
<1>3. PICK i \in 1..Len(kids[x.node]) : z = [path |-> Append(x.path, i), node |-> kids[x.node][i]]
  BY <1>2 DEF Below
<1>4. x.path \in Paths /\ x.node \in Dirs
  BY DEF TypeOK
<1>5. kids[x.node] \in Seq(Nodes)
  BY <1>4, Kids
<1>6. i \in Nat
  BY <1>5
<1>7. z.path = Append(x.path, i) /\ z.node = kids[x.node][i]
  BY <1>3
<1> QED BY <1>1, <1>4, <1>6, <1>7

\* The path on top of the frontier is not one a directory was entered under.
LEMMA TopIsNew ==
    ASSUME TypeOK, Accounted, Apart, Top \in Waiting, NEW x \in entered
    PROVE  x.path # Top.path
<1>1. CASE x = TheRoot
  <2>1. PICK y \in entered, i \in Nat : y.path \in Paths /\ Top.path = Append(y.path, i)
    BY UpFrom
  <2>2. Append(y.path, i) # << >>
    BY <2>1 DEF Paths
  <2> QED BY <1>1, <2>1, <2>2 DEF TheRoot
<1>2. CASE x \in Handed
  BY <1>2 DEF Apart
<1> QED BY <1>1, <1>2 DEF Accounted

\* Its names are none that were handed over or wait.
LEMMA NewNames ==
    ASSUME TypeOK, Accounted, Apart, Top \in Waiting, NEW z \in Handed \cup Waiting, NEW i \in Nat
    PROVE  z.path # Append(Top.path, i)
<1>1. PICK x \in entered, j \in Nat : x.path \in Paths /\ z.path = Append(x.path, j)
  BY UpFrom
<1>2. Top.path \in Paths
  BY UpFrom DEF Pending
<1>3. x.path # Top.path
  BY TopIsNew
<1>4. Append(x.path, j) # Append(Top.path, i)
  <2> SUFFICES ASSUME Append(x.path, j) = Append(Top.path, i) PROVE FALSE
    OBVIOUS
  <2> QED BY <1>1, <1>2, <1>3, OneWayUp
<1> QED BY <1>1, <1>4

\* So paths stay apart.
LEMMA HandsApart ==
    ASSUME TypeOK, Accounted, Apart, NEW new \in Seq(Pending), Hands(new)
    PROVE  Apart'
<1>1. /\ Len(stack) \in Nat /\ Len(stack) >= 1 /\ Len(new) \in Nat
      /\ stack[1] = Top /\ Top.path \in Paths
      /\ Len(stack') = Len(new) + Len(stack) - 1
      /\ \A i \in 1..Len(new) : stack'[i] = new[i]
      /\ \A i \in 1..(Len(stack) - 1) : stack'[Len(new) + i] = stack[i + 1]
  BY Handing
<1>2. /\ Handed' = Handed \cup {Top}
      /\ Waiting' = {new[i] : i \in 1..Len(new)} \cup {stack[j] : j \in 2..Len(stack)}
      /\ Waiting = {Top} \cup {stack[j] : j \in 2..Len(stack)}
  BY HandingSets
<1>3. \A i \in 1..Len(new) : i \in Nat /\ new[i].path = Append(Top.path, i)
  BY <1>1 DEF Hands
<1>4. \A z \in Handed \cup Waiting, i \in Nat : z.path # Append(Top.path, i)
  BY <1>2, NewNames
<1>5. \A j \in 2..Len(stack) : stack[j] \in Waiting
  BY <1>2
<1>6. ASSUME NEW z \in Handed', NEW y \in Waiting' PROVE z.path # y.path
  <2>1. CASE y \in {new[i] : i \in 1..Len(new)}
    BY <1>2, <1>3, <1>4, <2>1
  <2>2. CASE y \in {stack[j] : j \in 2..Len(stack)}
    <3>1. CASE z \in Handed
      BY <1>2, <2>2, <3>1 DEF Apart
    <3>2. CASE z = Top
      <4>1. PICK j \in 2..Len(stack) : y = stack[j]
        BY <2>2
      <4>2. 1 \in 1..Len(stack) /\ j \in 1..Len(stack) /\ j # 1
        BY <1>1
      <4> QED BY <1>1, <3>2, <4>1, <4>2 DEF Apart
    <3> QED BY <1>2, <3>1, <3>2
  <2> QED BY <1>2, <2>1, <2>2
<1> DEFINE m == Len(stack)
           k == Len(new)
<1>7. m \in Nat /\ m >= 1 /\ k \in Nat
  BY <1>1
<1>8. ASSUME NEW i \in 1..Len(stack'), ~(i \in 1..k)
      PROVE  i - k + 1 \in 2..m /\ stack'[i] = stack[i - k + 1]
  <2>1. i \in 1..(k + m - 1)
    BY <1>1
  <2>2. i - k \in 1..(m - 1) /\ k + (i - k) = i /\ i - k + 1 \in 2..m
    <3> HIDE DEF m, k
    <3> QED BY <1>7, <1>8, <2>1
  <2> QED BY <1>1, <2>2
<1>9. ASSUME NEW i \in 1..Len(stack'), NEW j \in 1..Len(stack'), stack'[i].path = stack'[j].path
      PROVE  i = j
  <2>1. CASE i \in 1..k /\ j \in 1..k
    <3>1. Append(Top.path, i) = Append(Top.path, j) /\ i \in Nat /\ j \in Nat
      BY <1>1, <1>3, <1>9, <2>1
    <3> QED BY <1>1, <3>1, OneWayUp
  <2>2. CASE i \in 1..k /\ ~(j \in 1..k)
    <3>1. stack'[i].path = Append(Top.path, i) /\ i \in Nat
      BY <1>1, <1>3, <2>2
    <3>2. stack'[j] \in Waiting
      BY <1>5, <1>8, <2>2
    <3> QED BY <1>4, <1>9, <3>1, <3>2
  <2>3. CASE ~(i \in 1..k) /\ j \in 1..k
    <3>1. stack'[j].path = Append(Top.path, j) /\ j \in Nat
      BY <1>1, <1>3, <2>3
    <3>2. stack'[i] \in Waiting
      BY <1>5, <1>8, <2>3
    <3> QED BY <1>4, <1>9, <3>1, <3>2
  <2>4. CASE ~(i \in 1..k) /\ ~(j \in 1..k)
    <3> DEFINE a == i - k + 1
               b == j - k + 1
    <3>1. a \in 2..m /\ b \in 2..m /\ stack'[i] = stack[a] /\ stack'[j] = stack[b]
      BY <1>8, <2>4
    <3>2. a \in 1..m /\ b \in 1..m
      <4> HIDE DEF m, a, b
      <4> QED BY <1>7, <3>1
    <3>3. a = b
      <4> HIDE DEF a, b
      <4> QED BY <1>9, <3>1, <3>2 DEF Apart
    <3>4. i \in Int /\ j \in Int /\ k \in Int
      BY <1>7
    <3> HIDE DEF k
    <3> QED BY <3>3, <3>4
  <2> QED BY <2>1, <2>2, <2>3, <2>4
<1> QED BY <1>6, <1>9 DEF Apart

\* How the loop changes what it holds: not at all, by the root's names, or by handing the top
\* of the frontier over.
Still == UNCHANGED <<walk, seen, stack, visited, yielded, entered>>

Opens ==
    /\ status = "start" /\ status' = "walking" /\ Len(kids[Root]) <= cap
    /\ stack' = NamesBelow(<< >>, Root) /\ visited' = {Root} /\ entered' = {TheRoot}
    /\ UNCHANGED <<walk, seen, yielded>>

Passes ==
    /\ Popping /\ Refusal = "none" /\ (Top.node \in Dirs => Reached /\ ~strict)
    /\ Hands(<< >>) /\ status' \in {"walking", "stopped"} /\ seen' = seen + 1
    /\ UNCHANGED <<walk, visited, entered>>

Descends ==
    /\ Popping /\ Refusal = "none" /\ Top.node \in Dirs /\ ~Reached
    /\ Hands(NamesBelow(Top.path, Top.node)) /\ status' \in {"walking", "stopped"} /\ seen' = seen + 1
    /\ visited' = visited \cup {Top.node} /\ entered' = entered \cup {Top}
    /\ UNCHANGED walk

\* A step is one of them.
LEMMA Kinds ==
    ASSUME TypeOK, [Next]_vars
    PROVE  \/ Still /\ (status' = status \/ (status \in {"start", "walking"} /\ status' \in {"path_too_long", "damaged"}))
           \/ Still /\ status = "start" /\ status' = "too_large" /\ Len(kids[Root]) > cap
           \/ Still /\ status = "walking" /\ status' = "done" /\ stack = << >>
           \/ Still /\ Refuse /\ status' = Refusal /\ status = "walking"
           \/ Opens \/ Passes \/ Descends
<1>1. ASSUME NEW s, Halt(s) PROVE Still /\ status' = s
  BY <1>1 DEF Halt, Still
<1>2. CASE UNCHANGED vars
  BY <1>2 DEF vars, Still, walk
<1>3. CASE Seed
  <2>1. CASE TooLong(<< >>, Root)
    BY <1>1, <1>3, <2>1 DEF Seed
  <2>2. CASE ~TooLong(<< >>, Root) /\ Len(kids[Root]) > cap
    BY <1>1, <1>3, <2>2 DEF Seed
  <2>3. CASE ~TooLong(<< >>, Root) /\ ~(Len(kids[Root]) > cap)
    <3>1. kids[Root] \in Seq(Nodes) /\ cap \in Nat
      BY NodesAssumption, Kids DEF TypeOK
    <3>2. Len(kids[Root]) <= cap
      BY <2>3, <3>1
    <3> QED BY <1>3, <2>3, <3>2 DEF Seed, Opens, TheRoot
  <2> QED BY <2>1, <2>2, <2>3
<1>4. CASE ReadFails
  BY <1>1, <1>4 DEF ReadFails
<1>5. CASE Refuse
  BY <1>1, <1>5 DEF Refuse, Popping
<1>6. CASE Finish
  BY <1>1, <1>6 DEF Finish
<1>7. CASE Visit
  <2>1. stack # << >> /\ Popping /\ Refusal = "none" /\ (Top.node \in Dirs => Reached) /\ stack' = Tail(stack)
    BY <1>7 DEF Visit, Popping
  <2>2. Top.node \in Dirs => ~strict
    <3> SUFFICES ASSUME Top.node \in Dirs, strict PROVE FALSE
      OBVIOUS
    <3>1. Refusal = IF seen >= cap THEN "too_large" ELSE "repeated"
      BY <2>1 DEF Refusal
    <3> QED BY <2>1, <3>1
  <2>3. << >> \o Tail(stack) = Tail(stack)
    <3>1. Tail(stack) \in Seq(Pending)
      BY <2>1, HeadTailProperties DEF TypeOK
    <3> QED BY <3>1, ConcatEmptySeq
  <2>4. Hands(<< >>)
    <3>1. \A i \in 1..Len(<< >>) : FALSE
      OBVIOUS
    <3> QED BY <1>7, <2>1, <2>3, <3>1 DEF Hands, Visit, Yield
  <2> QED BY <1>7, <2>1, <2>2, <2>4 DEF Visit, Yield, Passes
<1>8. CASE Descend
  <2>1. stack # << >> /\ Popping /\ Refusal = "none" /\ Top.node \in Dirs /\ ~Reached
    BY <1>8 DEF Descend, Popping
  <2>2. Top.path \in Paths /\ kids[Top.node] \in Seq(Nodes)
    <3>1. Top \in Pending
      BY <2>1, HeadTailProperties DEF TypeOK, Top
    <3> QED BY <2>1, <3>1, Kids DEF Pending
  <2>3. \A i \in 1..Len(NamesBelow(Top.path, Top.node)) :
           NamesBelow(Top.path, Top.node)[i].path = Append(Top.path, i)
    BY <2>1, <2>2, NamesType DEF NamesBelow
  <2>4. Hands(NamesBelow(Top.path, Top.node))
    BY <1>8, <2>1, <2>3 DEF Hands, Descend, Yield
  <2> QED BY <1>8, <2>1, <2>4 DEF Descend, Yield, Descends
<1> QED
  BY <1>2, <1>3, <1>4, <1>5, <1>6, <1>7, <1>8 DEF Next, Step, Returned

\* The names below a directory are those its entries make.
LEMMA BelowIs ==
    ASSUME TypeOK, NEW x, x.path \in Paths, x.node \in Dirs
    PROVE  /\ NamesBelow(x.path, x.node) \in Seq(Pending)
           /\ Len(NamesBelow(x.path, x.node)) = Len(kids[x.node])
           /\ \A i \in 1..Len(kids[x.node]) :
                 NamesBelow(x.path, x.node)[i] = [path |-> Append(x.path, i), node |-> kids[x.node][i]]
           /\ {NamesBelow(x.path, x.node)[i] : i \in 1..Len(NamesBelow(x.path, x.node))} = Below(x)
<1>1. NamesBelow(x.path, x.node) \in Seq(Pending) /\ Len(NamesBelow(x.path, x.node)) = Len(kids[x.node])
  BY NamesType
<1>2. \A i \in 1..Len(kids[x.node]) :
         NamesBelow(x.path, x.node)[i] = [path |-> Append(x.path, i), node |-> kids[x.node][i]]
  BY DEF NamesBelow
<1>3. {NamesBelow(x.path, x.node)[i] : i \in 1..Len(NamesBelow(x.path, x.node))} = Below(x)
  BY <1>1, <1>2 DEF Below
<1> QED BY <1>1, <1>2, <1>3

Told == Ordered /\ Accounted /\ Apart /\ Followed

\* One directory more has its names more.
LEMMA MoreNames ==
    ASSUME NEW old, NEW added
    PROVE  NamesOf(old \cup {added}) = NamesOf(old) \cup Below(added)
<1>1. ASSUME NEW z PROVE z \in NamesOf(old \cup {added}) <=> z \in NamesOf(old) \cup Below(added)
  BY DEF NamesOf
<1> QED BY <1>1

\* Nothing has been told where nothing was reached.
LEMMA NothingTold ==
    ASSUME stack = << >>, yielded = << >>, entered = {}, status \in {"start", "stopped"}
    PROVE  Told
<1>1. stack = << >> /\ yielded = << >> /\ entered = {} /\ status \in {"start", "stopped"}
  OBVIOUS
<1>2. Len(<< >>) = 0
  OBVIOUS
<1>3. Handed = {} /\ Waiting = {} /\ NamesOf(entered) = {}
  BY <1>1, <1>2 DEF Handed, Waiting, NamesOf
<1>4. Ordered
  BY <1>1, <1>2 DEF Ordered
<1>5. Accounted
  BY <1>1, <1>3 DEF Accounted
<1>6. Apart /\ Followed
  BY <1>1, <1>2, <1>3 DEF Apart, Followed
<1> QED BY <1>4, <1>5, <1>6 DEF Told

\* So it is before the seed.
LEMMA InitTold == Init => Told
BY NothingTold DEF Init

\* The root's names are told in order, and nothing has been handed over.
LEMMA OpensTold == TypeOK /\ Unstarted /\ Told /\ Opens => Told'
<1> SUFFICES ASSUME TypeOK, Unstarted, Told, Opens PROVE Told'
  OBVIOUS
<1>0. PICK root : root = TheRoot
  OBVIOUS
<1>1. /\ yielded' = << >> /\ stack' = NamesBelow(<< >>, Root) /\ visited' = {Root} /\ entered' = {root}
      /\ status' = "walking" /\ image' = image /\ kids' = kids
  BY <1>0 DEF Opens, Told, Accounted, walk, kids
<1>2. root.path = << >> /\ root.node = Root /\ root.path \in Paths /\ Root \in Dirs
  BY <1>0, NodesAssumption DEF TheRoot, Paths
<1>3. /\ stack' \in Seq(Pending) /\ Len(stack') = Len(kids[root.node])
      /\ \A i \in 1..Len(kids[root.node]) : stack'[i] = [path |-> Append(root.path, i), node |-> kids[root.node][i]]
      /\ {stack'[i] : i \in 1..Len(stack')} = Below(root)
  <2>1. stack' = NamesBelow(root.path, root.node)
    BY <1>1, <1>2
  <2>2. root.node \in Dirs
    BY <1>2
  <2> QED BY <1>2, <2>1, <2>2, BelowIs
<1>4. Len(<< >>) = 0
  OBVIOUS
<1>5. Handed' = {} /\ Waiting' = Below(root)
  BY <1>1, <1>3, <1>4 DEF Handed, Waiting
<1>6. Len(stack') \in Nat
  BY <1>3
<1>11. \A i \in 1..Len(stack') : i \in Nat /\ stack'[i].path = Append(root.path, i)
  <2> TAKE i \in 1..Len(stack')
  <2>1. i \in Nat
    BY <1>6
  <2>2. stack'[i] = [path |-> Append(root.path, i), node |-> kids[root.node][i]]
    BY <1>3
  <2> QED BY <2>1, <2>2
<1>7. Ordered'
  <2>1. ASSUME NEW i \in 1..(Len(stack') - 1) PROVE Beside(stack'[i].path, stack'[i + 1].path)
    <3>1. i \in 1..Len(stack') /\ i + 1 \in 1..Len(stack') /\ i \in Nat /\ i + 1 \in Nat /\ i < i + 1
      BY <1>6
    <3>2. stack'[i].path = Append(root.path, i) /\ stack'[i + 1].path = Append(root.path, i + 1)
      BY <1>11, <3>1
    <3> QED BY <1>2, <3>1, <3>2, ChildrenBeside
  <2> QED BY <1>1, <1>4, <2>1 DEF Ordered
<1>8. Accounted'
  <2>1. NamesOf(entered)' = Below(root)
    BY <1>1 DEF Below, NamesOf
  <2> QED BY <1>0, <1>1, <1>5, <2>1 DEF Accounted
<1>9. Apart'
  <2>1. ASSUME NEW i \in 1..Len(stack'), NEW j \in 1..Len(stack'), stack'[i].path = stack'[j].path PROVE i = j
    <3>1. Append(root.path, i) = Append(root.path, j) /\ i \in Nat /\ j \in Nat
      BY <1>11, <2>1
    <3> QED BY <1>2, <3>1, OneWayUp
  <2> QED BY <1>5, <2>1 DEF Apart
<1>10. Followed'
  BY <1>5 DEF Followed
<1> QED BY <1>7, <1>8, <1>9, <1>10 DEF Told

\* Handing a name over keeps it told, whether its own names follow or not.
LEMMA PassesTold == TypeOK /\ Told /\ Passes => Told'
<1> SUFFICES ASSUME TypeOK, Told, Passes PROVE Told'
  OBVIOUS
<1>0. PICK none : none = << >>
  OBVIOUS
<1>1. none \in Seq(Pending) /\ Hands(none) /\ Len(none) = 0
  BY <1>0, EmptySeq DEF Passes
<1>2. Ordered' /\ Apart'
  BY <1>1, HandsInOrder, HandsApart DEF Told
<1>3. Handed' = Handed \cup {Top} /\ Waiting' = {stack[j] : j \in 2..Len(stack)}
      /\ Waiting = {Top} \cup {stack[j] : j \in 2..Len(stack)}
  <2>1. /\ Handed' = Handed \cup {Top}
        /\ Waiting' = {none[i] : i \in 1..Len(none)} \cup {stack[j] : j \in 2..Len(stack)}
        /\ Waiting = {Top} \cup {stack[j] : j \in 2..Len(stack)}
    BY <1>1, HandingSets
  <2>2. {none[i] : i \in 1..Len(none)} = {}
    BY <1>1
  <2> QED BY <2>1, <2>2
<1>4. UNCHANGED <<image, strict, visited, entered>> /\ status = "walking" /\ status' \in {"walking", "stopped"}
      /\ (Top.node \in Dirs => Top.node \in visited /\ ~strict)
  BY DEF Passes, walk, Popping, Reached
<1>5. Accounted'
  <2>2. NamesOf(entered)' = NamesOf(entered)
    BY <1>4 DEF NamesOf, Below, kids
  <2>3. Handed' \cup Waiting' = Handed \cup Waiting
    BY <1>3
  <2>4. \A x \in entered : x = TheRoot \/ x \in Handed'
    BY <1>3 DEF Told, Accounted
  <2> QED BY <1>4, <2>2, <2>3, <2>4 DEF Told, Accounted
<1>6. Followed'
  BY <1>3, <1>4 DEF Told, Followed
<1> QED BY <1>2, <1>5, <1>6 DEF Told

\* A directory entered is handed over, and its own names take its place.
LEMMA DescendsTold == TypeOK /\ Told /\ Descends => Told'
<1> SUFFICES ASSUME TypeOK, Told, Descends PROVE Told'
  OBVIOUS
<1>0. stack # << >> /\ Top.node \in Dirs /\ Top \in Pending /\ Top.path \in Paths
  <2>1. stack # << >> /\ Top.node \in Dirs
    BY DEF Descends, Popping
  <2>2. Top \in Pending
    BY <2>1, HeadTailProperties DEF TypeOK, Top
  <2> QED BY <2>1, <2>2 DEF Pending
<1>1. PICK new : new = NamesBelow(Top.path, Top.node)
  OBVIOUS
<1>2. new \in Seq(Pending) /\ Hands(new) /\ {new[i] : i \in 1..Len(new)} = Below(Top)
  BY <1>0, <1>1, BelowIs DEF Descends
<1>3. Ordered' /\ Apart'
  BY <1>2, HandsInOrder, HandsApart DEF Told
<1>4. Handed' = Handed \cup {Top} /\ Waiting' = Below(Top) \cup {stack[j] : j \in 2..Len(stack)}
      /\ Waiting = {Top} \cup {stack[j] : j \in 2..Len(stack)}
  BY <1>2, HandingSets
<1>5. UNCHANGED <<image, strict>> /\ status = "walking" /\ status' \in {"walking", "stopped"}
      /\ visited' = visited \cup {Top.node} /\ entered' = entered \cup {Top}
  BY DEF Descends, walk, Popping
<1>6. Accounted'
  <2>2. NamesOf(entered)' = NamesOf(entered) \cup Below(Top)
    <3>1. PICK all, old, added : all = entered' /\ old = entered /\ added = Top
      OBVIOUS
    <3>2. NamesOf(all)' = NamesOf(all)
      BY <1>5 DEF NamesOf, Below, kids
    <3>3. all = old \cup {added}
      BY <1>5, <3>1
    <3>4. NamesOf(all) = NamesOf(old) \cup Below(added)
      BY <3>3, MoreNames
    <3>5. NamesOf(entered)' = NamesOf(all)'
      BY <3>1 DEF NamesOf, Below
    <3>6. NamesOf(entered) = NamesOf(old) /\ Below(Top) = Below(added)
      BY <3>1
    <3> QED BY <3>2, <3>4, <3>5, <3>6
  <2>3. Handed' \cup Waiting' = (Handed \cup Waiting) \cup Below(Top)
    BY <1>4
  <2>4. \A x \in entered' : x = TheRoot \/ x \in Handed'
    BY <1>4, <1>5 DEF Told, Accounted
  <2>5. TheRoot \in entered'
    BY <1>5 DEF Told, Accounted
  <2>6. Handed \cup Waiting = NamesOf(entered)
    BY DEF Told, Accounted
  <2>7. Handed' \cup Waiting' = NamesOf(entered)'
    BY <2>2, <2>3, <2>6
  <2>8. status' # "start" /\ status' # "done"
    BY <1>5
  <2> QED BY <2>4, <2>5, <2>7, <2>8 DEF Accounted
<1>7. Followed'
  BY <1>4, <1>5 DEF Told, Followed
<1> QED BY <1>3, <1>6, <1>7 DEF Told

\* Every step keeps it.
LEMMA NextTold == TypeOK /\ Unstarted /\ Told /\ [Next]_vars => Told'
<1> SUFFICES ASSUME TypeOK, Unstarted, Told, [Next]_vars PROVE Told'
  OBVIOUS
<1>1. ASSUME Still, status' = "walking" \/ status' = "start" => status' = status, status' = "done" => stack = << >>,
             status' = "done" => status \in {"walking", "done"}
      PROVE  Told'
  <2>1. UNCHANGED <<image, strict, stack, visited, yielded, entered>>
    BY <1>1 DEF Still, walk
  <2>2. Handed' = Handed /\ Waiting' = Waiting
    BY <2>1 DEF Handed, Waiting
  <2>3. NamesOf(entered)' = NamesOf(entered)
    BY <2>1 DEF NamesOf, Below, kids
  <2>4. Accounted'
    BY <1>1, <2>1, <2>2, <2>3 DEF Told, Accounted
  <2> QED BY <2>1, <2>2, <2>4 DEF Told, Ordered, Apart, Followed
<1>2. CASE Still /\ Refuse /\ status' = Refusal /\ status = "walking"
  <2>1. status' \in {"too_large", "repeated", "path_too_long"}
    BY <1>2 DEF Refuse, Refusal
  <2> QED BY <1>1, <1>2, <2>1
<1>3. CASE Still /\ (status' = status \/ (status \in {"start", "walking"} /\ status' \in {"path_too_long", "damaged"}))
  BY <1>1, <1>3 DEF Told, Accounted
<1>5. CASE Still /\ status = "start" /\ status' = "too_large"
  BY <1>1, <1>5
<1>4. CASE Still /\ status = "walking" /\ status' = "done" /\ stack = << >>
  BY <1>1, <1>4
<1> QED
  BY <1>2, <1>3, <1>4, <1>5, Kinds, OpensTold, PassesTold, DescendsTold

\* What comes after and beside comes after.
LEMMA BesideIsAfter == ASSUME NEW p, NEW q, Beside(p, q) PROVE Before(p, q)
BY DEF Beside, Before

\* What was told is in the order `drive` documents.
LEMMA ToldInOrder == TypeOK /\ Told => DepthFirstOrder
<1> SUFFICES ASSUME TypeOK, Told PROVE DepthFirstOrder
  OBVIOUS
<1> DEFINE order == yielded \o stack
           n == Len(yielded)
           m == Len(stack)
<1>1. /\ yielded \in Seq(Pending) /\ stack \in Seq(Pending) /\ n \in Nat /\ m \in Nat
      /\ (yielded # << >> <=> n # 0) /\ (stack # << >> <=> m # 0)
  BY LenProperties, EmptySeq DEF TypeOK
<1>2. /\ Len(order) = n + m
      /\ \A i \in 1..(n + m) : order[i] = IF i <= n THEN yielded[i] ELSE stack[i - n]
  BY <1>1, ConcatProperties
<1>3. ASSUME NEW i \in 1..(n + m - 1) PROVE Before(order[i].path, order[i + 1].path)
  <2> HIDE DEF n, m, order
  <2>1. CASE i < n
    <3>1. i \in 1..(n - 1) /\ order[i] = yielded[i] /\ order[i + 1] = yielded[i + 1]
      BY <1>1, <1>2, <2>1
    <3> QED BY <3>1 DEF Told, Ordered, n
  <2>2. CASE i = n
    <3>1. order[i] = yielded[n] /\ order[i + 1] = stack[1] /\ n # 0 /\ m # 0
      BY <1>1, <1>2, <2>2
    <3> QED BY <1>1, <3>1 DEF Told, Ordered, n
  <2>3. CASE i > n
    <3> DEFINE j == i - n
    <3>1. j \in 1..(m - 1) /\ order[i] = stack[j] /\ order[i + 1] = stack[j + 1]
      <4>1. i \in 1..(n + m) /\ i + 1 \in 1..(n + m) /\ ~(i <= n) /\ ~(i + 1 <= n) /\ (i + 1) - n = j + 1
        BY <1>1, <2>3
      <4>2. j \in 1..(m - 1)
        BY <1>1, <2>3
      <4> QED BY <1>2, <4>1, <4>2
    <3> HIDE DEF j
    <3>2. Beside(stack[j].path, stack[j + 1].path)
      BY <3>1 DEF Told, Ordered, m
    <3> QED BY <3>1, <3>2, BesideIsAfter
  <2> QED BY <1>1, <2>1, <2>2, <2>3
<1>4. \A i \in 1..(Len(order) - 1) : Before(order[i].path, order[i + 1].path)
  <2> HIDE DEF order
  <2> QED BY <1>2, <1>3
<1> QED BY <1>4 DEF DepthFirstOrder

\* And when the walk is done nothing is left to tell.
LEMMA ToldWhole == TypeOK /\ DescendedOnce /\ Told => Complete
<1> SUFFICES ASSUME TypeOK, DescendedOnce, Told, status = "done" PROVE Complete
  BY DEF Complete
<1>1. stack = << >> /\ Handed \cup Waiting = NamesOf(entered)
  BY DEF Told, Accounted
<1>2. Waiting = {}
  BY <1>1 DEF Waiting
<1>3. Handed = NamesOf(entered)
  BY <1>1, <1>2
<1>4. ASSUME NEW k \in 1..Len(yielded)
      PROVE  \E x \in entered : yielded[k].path \in {Append(x.path, i) : i \in 1..Len(kids[x.node])}
  <2>1. yielded[k] \in NamesOf(entered)
    BY <1>3 DEF Handed
  <2>2. PICK x \in entered : yielded[k] \in Below(x)
    BY <2>1 DEF NamesOf
  <2>3. PICK i \in 1..Len(kids[x.node]) : yielded[k] = [path |-> Append(x.path, i), node |-> kids[x.node][i]]
    BY <2>2 DEF Below
  <2>4. yielded[k].path = Append(x.path, i)
    BY <2>3
  <2> QED BY <2>4
<1>5. ASSUME NEW x \in entered, NEW i \in 1..Len(kids[x.node])
      PROVE  [path |-> Append(x.path, i), node |-> kids[x.node][i]] \in Handed
  <2>1. [path |-> Append(x.path, i), node |-> kids[x.node][i]] \in Below(x)
    BY DEF Below
  <2>2. \A z : z \in Below(x) => z \in NamesOf(entered)
    BY DEF NamesOf
  <2> QED BY <1>3, <2>1, <2>2
<1>6. ASSUME NEW x \in entered, NEW i \in 1..Len(kids[x.node])
      PROVE  Append(x.path, i) \in {yielded[k].path : k \in 1..Len(yielded)}
  <2>1. PICK k \in 1..Len(yielded) : yielded[k] = [path |-> Append(x.path, i), node |-> kids[x.node][i]]
    BY <1>5 DEF Handed
  <2>2. yielded[k].path = Append(x.path, i)
    BY <2>1
  <2> QED BY <2>2
<1>7. ASSUME NEW d \in visited, NEW i \in 1..Len(kids[d]), kids[d][i] \in Dirs PROVE kids[d][i] \in visited
  <2>1. PICK x \in entered : x.node = d
    BY DEF DescendedOnce
  <2>2. [path |-> Append(x.path, i), node |-> kids[d][i]] \in Handed
    BY <1>5, <2>1
  <2> QED BY <1>7, <2>2 DEF Told, Followed
<1> DEFINE paths == {yielded[k].path : k \in 1..Len(yielded)}
           named(x) == {Append(x.path, i) : i \in 1..Len(kids[x.node])}
<1>8. \A p \in paths : p \in UNION {named(x) : x \in entered}
  <2> TAKE p \in paths
  <2>1. PICK k \in 1..Len(yielded) : p = yielded[k].path
    OBVIOUS
  <2>2. PICK x \in entered : p \in named(x)
    BY <1>4, <2>1
  <2> QED BY <2>2
<1>9. ASSUME NEW p \in UNION {named(x) : x \in entered} PROVE p \in paths
  <2>1. PICK x \in entered : p \in named(x)
    OBVIOUS
  <2>2. PICK i \in 1..Len(kids[x.node]) : p = Append(x.path, i)
    BY <2>1
  <2> QED BY <1>6, <2>2
<1>10. paths = UNION {named(x) : x \in entered}
  BY <1>8, <1>9
<1> QED BY <1>7, <1>10 DEF Complete

\* walk.rs, `drive`: whatever the image, what the visitor is handed and what still waits come
\* in depth-first order, and a walk that ended well handed over every name of every directory
\* it reached and nothing else.
THEOREM WalkTellsTheTree == Spec => []WalksTheTree
<1>1. TypeOK /\ DescendedOnce /\ Told => WalksTheTree
  BY ToldInOrder, ToldWhole DEF WalksTheTree
<1> QED BY <1>1, InitTold, NextTold, WalkTypeCorrect, UnstartedInvariant, EachDirectoryOnce, PTL DEF Spec


-----------------------------------------------------------------------------
\* How many names there are

\* A name by where it is stored; the names of a set of directories.
Places(d) == {<<d, i>> : i \in 1..Len(kids[d])}
PlacesOf(D) == UNION {Places(d) : d \in D}

Closed(S) == Root \in S /\ \A e \in S : \A i \in 1..Len(kids[e]) : kids[e][i] \in Dirs => kids[e][i] \in S

\* What is reachable is the least set of directories that holds the root and what its members name.
LEMMA ReachableIsLeast ==
    ASSUME TypeOK
    PROVE  /\ Reachable \subseteq Dirs /\ Closed(Reachable)
           /\ \A S \in SUBSET Dirs : Closed(S) => Reachable \subseteq S
<1>1. Root \in Dirs
  BY NodesAssumption
<1>2. Reachable = {d \in Dirs : \A S \in SUBSET Dirs : Closed(S) => d \in S}
  BY DEF Reachable, Closed
<1>3. Root \in Reachable
  BY <1>1, <1>2 DEF Closed
<1>4. ASSUME NEW e \in Reachable, NEW i \in 1..Len(kids[e]), kids[e][i] \in Dirs PROVE kids[e][i] \in Reachable
  <2>1. ASSUME NEW S \in SUBSET Dirs, Closed(S) PROVE kids[e][i] \in S
    <3>1. e \in S
      BY <1>2, <2>1
    <3> QED BY <1>4, <2>1, <3>1 DEF Closed
  <2> QED BY <1>2, <1>4, <2>1
<1>5. Closed(Reachable)
  BY <1>3, <1>4 DEF Closed
<1> QED BY <1>2, <1>5

\* A directory has as many names as entries.
LEMMA PlacesCount ==
    ASSUME TypeOK, NEW d \in Dirs
    PROVE  IsFiniteSet(Places(d)) /\ Cardinality(Places(d)) = Len(kids[d]) /\ Len(kids[d]) \in Nat
<1> DEFINE n == Len(kids[d])
<1>1. n \in Nat
  BY Kids
<1>2. PICK f : f = [i \in 1..n |-> <<d, i>>]
  OBVIOUS
<1>3. f \in Bijection(1..n, Places(d))
  <2>1. f \in [1..n -> Places(d)]
    BY <1>2 DEF Places
  <2>2. \A i, j \in 1..n : f[i] = f[j] => i = j
    BY <1>2
  <2>3. \A t \in Places(d) : \E i \in 1..n : f[i] = t
    BY <1>2 DEF Places
  <2> QED BY <2>1, <2>2, <2>3 DEF Bijection, Injection, Surjection, IsInjective
<1>4. ExistsBijection(1..n, Places(d))
  BY <1>3 DEF ExistsBijection
<1> HIDE DEF n
<1>5. IsFiniteSet(Places(d))
  BY <1>1, <1>4, FS_NatBijection
<1>6. Cardinality(Places(d)) = n
  BY <1>1, <1>4, FS_CountingElements
<1> QED BY <1>1, <1>5, <1>6 DEF n

\* And a finite image finitely many.
LEMMA PlacesFinite == ASSUME TypeOK, NEW D \in SUBSET Dirs PROVE IsFiniteSet(PlacesOf(D))
<1>1. IsFiniteSet(D)
  BY FiniteAssumption, FS_Subset
<1> DEFINE all == {Places(d) : d \in D}
<1>2. PICK f : f = [d \in D |-> Places(d)]
  OBVIOUS
<1>3. f \in Surjection(D, all)
  <2>1. f \in [D -> all]
    BY <1>2
  <2>2. \A t \in all : \E d \in D : f[d] = t
    BY <1>2
  <2> QED BY <2>1, <2>2 DEF Surjection
<1>4. \A t \in all : IsFiniteSet(t)
  BY PlacesCount
<1> HIDE DEF all
<1>5. IsFiniteSet(all)
  BY <1>1, <1>3, FS_Surjection
<1>6. IsFiniteSet(UNION all)
  BY <1>4, <1>5, FS_UNION
<1> QED BY <1>6 DEF all, PlacesOf

\* One directory more has as many names more as it has entries.
LEMMA PlacesGrow ==
    ASSUME TypeOK, NEW D \in SUBSET Dirs, NEW d \in Dirs, d \notin D
    PROVE  Cardinality(PlacesOf(D \cup {d})) = Cardinality(PlacesOf(D)) + Len(kids[d])
<1>1. \A z : z \in PlacesOf(D \cup {d}) <=> z \in PlacesOf(D) \cup Places(d)
  BY DEF PlacesOf
<1>2. PlacesOf(D \cup {d}) = PlacesOf(D) \cup Places(d)
  BY <1>1
<1>3. PlacesOf(D) \cap Places(d) = {}
  <2> SUFFICES ASSUME NEW z, z \in PlacesOf(D), z \in Places(d) PROVE FALSE
    OBVIOUS
  <2>1. PICK e \in D : z \in Places(e)
    BY DEF PlacesOf
  <2>2. z[1] = e /\ z[1] = d
    BY <2>1 DEF Places
  <2> QED BY <2>1, <2>2
<1>4. IsFiniteSet(PlacesOf(D)) /\ IsFiniteSet(Places(d)) /\ Cardinality(Places(d)) = Len(kids[d]) /\ Len(kids[d]) \in Nat
  BY PlacesFinite, PlacesCount
<1>5. Cardinality(PlacesOf(D)) \in Nat
  BY <1>4, FS_CardinalityType
<1>6. Cardinality(PlacesOf(D) \cup Places(d))
      = Cardinality(PlacesOf(D)) + Cardinality(Places(d)) - Cardinality(PlacesOf(D) \cap Places(d))
  BY <1>4, FS_Union
<1>7. Cardinality(PlacesOf(D) \cap Places(d)) = 0
  BY <1>3, FS_EmptySet
<1> DEFINE old == Cardinality(PlacesOf(D))
           new == Cardinality(PlacesOf(D) \cup Places(d))
           n == Len(kids[d])
<1>8. new = old + n - 0 /\ old \in Nat /\ n \in Nat
  BY <1>4, <1>5, <1>6, <1>7
<1>9. new = old + n
  <2> HIDE DEF old, new, n
  <2> QED BY <1>8
<1> QED BY <1>2, <1>9

\* More directories have no fewer names.
LEMMA PlacesMonotone ==
    ASSUME TypeOK, NEW D \in SUBSET Dirs, NEW E \in SUBSET D
    PROVE  Cardinality(PlacesOf(E)) <= Cardinality(PlacesOf(D))
           /\ Cardinality(PlacesOf(E)) \in Nat /\ Cardinality(PlacesOf(D)) \in Nat
<1>1. PlacesOf(E) \in SUBSET PlacesOf(D)
  <2>1. \A z : z \in PlacesOf(E) => z \in PlacesOf(D)
    BY DEF PlacesOf
  <2> QED BY <2>1
<1>2. IsFiniteSet(PlacesOf(D)) /\ IsFiniteSet(PlacesOf(E))
  BY PlacesFinite
<1> QED BY <1>1, <1>2, FS_Subset, FS_CardinalityType


-----------------------------------------------------------------------------
\* What a walk refuses

\* The names of a directory, and images without a directory that has two or names the root.
NamedBy(d) == {n \in PlacesOf(Reachable) : kids[n[1]][n[2]] = d}
IsTree == NamedBy(Root) = {} /\ \A d \in Reachable : Cardinality(NamedBy(d)) <= 1

\* What was handed over and what waits are the names of the directories entered, each counted
\* once; a walk that refused was right to.
Judged ==
    /\ seen + Len(stack) = Cardinality(PlacesOf(visited))
    /\ visited \subseteq Reachable
    /\ \A x, y \in entered : x.path = y.path => x = y
    /\ status = "too_large" => Cardinality(PlacesOf(Reachable)) > cap
    /\ status = "repeated" => strict /\ ~IsTree

\* What is named twice, or names the root, is no tree.
LEMMA TwiceIsNoTree ==
    ASSUME TypeOK, NEW d \in Reachable, NEW m, NEW n, m \in NamedBy(d), n \in NamedBy(d), m # n
    PROVE  ~IsTree
<1>1. NamedBy(d) \in SUBSET PlacesOf(Reachable)
  BY DEF NamedBy
<1>2. IsFiniteSet(PlacesOf(Reachable))
  BY ReachableIsLeast, PlacesFinite
<1>3. IsFiniteSet(NamedBy(d)) /\ {m, n} \in SUBSET NamedBy(d)
  BY <1>1, <1>2, FS_Subset
<1>4. Cardinality({m, n}) = 2
  <2>1. IsFiniteSet({m}) /\ Cardinality({m}) = 1
    BY FS_Singleton
  <2>2. Cardinality({m} \cup {n}) = 1 + 1
    BY <2>1, FS_AddElement
  <2>3. {m} \cup {n} = {m, n}
    OBVIOUS
  <2> QED BY <2>2, <2>3
<1>5. Cardinality({m, n}) <= Cardinality(NamedBy(d)) /\ Cardinality(NamedBy(d)) \in Nat
  BY <1>3, FS_Subset, FS_CardinalityType
<1>6. ~(Cardinality(NamedBy(d)) <= 1)
  BY <1>4, <1>5
<1> QED BY <1>6 DEF IsTree

\* A name told is the name of a reachable directory.
LEMMA ToldIsReachable ==
    ASSUME TypeOK, DescendedOnce, Accounted, visited \subseteq Reachable, NEW z \in Handed \cup Waiting
    PROVE  /\ z \in Pending
           /\ z.node \in Dirs => z.node \in Reachable
           /\ \E x \in entered, i \in Nat : /\ i \in 1..Len(kids[x.node]) /\ x.path \in Paths /\ x.node \in Dirs
                                            /\ z.path = Append(x.path, i) /\ z.node = kids[x.node][i]
                                            /\ <<x.node, i>> \in NamedBy(z.node)
<1>1. z \in Pending
  BY UpFrom
<1>2. PICK x \in entered, i \in Nat : /\ i \in 1..Len(kids[x.node]) /\ x.path \in Paths /\ x.node \in Dirs
                                      /\ z.path = Append(x.path, i) /\ z.node = kids[x.node][i]
  BY UpFrom
<1>3. x.node \in Reachable
  BY DEF DescendedOnce
<1>4. z.node \in Dirs => z.node \in Reachable
  BY <1>2, <1>3, ReachableIsLeast DEF Closed
<1>5. <<x.node, i>> \in Places(x.node)
  BY <1>2 DEF Places
<1>6. <<x.node, i>> \in PlacesOf(Reachable)
  BY <1>3, <1>5 DEF PlacesOf
<1>7. <<x.node, i>>[1] = x.node /\ <<x.node, i>>[2] = i
  OBVIOUS
<1>8. <<x.node, i>> \in NamedBy(z.node)
  BY <1>2, <1>6, <1>7 DEF NamedBy
<1> QED BY <1>1, <1>2, <1>4, <1>8

\* A directory on top of the frontier that was entered before is named twice, or is the root.
LEMMA RepeatIsNoTree ==
    ASSUME TypeOK, DescendedOnce, Told, Judged, Popping, Top.node \in Dirs, Reached
    PROVE  ~IsTree
<1>1. Top \in Waiting
  <2>1. stack # << >> /\ stack \in Seq(Pending)
    BY DEF Popping, TypeOK
  <2>2. 1 \in 1..Len(stack) /\ stack[1] = Top
    BY <2>1, LenProperties, EmptySeq DEF Top
  <2> QED BY <2>2 DEF Waiting
<1>2. Accounted /\ Apart /\ visited \subseteq Reachable
  BY DEF Told, Judged
<1>3. PICK y \in entered, i \in Nat : /\ y.path \in Paths /\ Top.path = Append(y.path, i)
                                      /\ <<y.node, i>> \in NamedBy(Top.node)
  BY <1>1, <1>2, ToldIsReachable
<1>4. Top.node \in Reachable
  BY <1>2 DEF Reached
<1>5. PICK x \in entered : x.node = Top.node
  BY DEF Reached, DescendedOnce
<1>6. CASE x = TheRoot
  <2>1. Top.node = Root
    BY <1>5, <1>6 DEF TheRoot
  <2> QED BY <1>3, <2>1 DEF IsTree
<1>7. CASE x \in Handed
  <2>1. PICK w \in entered, j \in Nat : /\ w.path \in Paths /\ x.path = Append(w.path, j)
                                        /\ <<w.node, j>> \in NamedBy(x.node)
    BY <1>2, <1>7, ToldIsReachable
  <2>2. x.path # Top.path
    BY <1>1, <1>2, <1>7 DEF Apart
  <2>3. <<w.node, j>> # <<y.node, i>>
    <3> SUFFICES ASSUME <<w.node, j>> = <<y.node, i>> PROVE FALSE
      OBVIOUS
    <3>1. w.node = y.node /\ i = j
      OBVIOUS
    <3>2. w = y
      BY <3>1 DEF DescendedOnce
    <3> QED BY <1>3, <2>1, <2>2, <3>1, <3>2
  <2> QED BY <1>3, <1>4, <1>5, <2>1, <2>3, TwiceIsNoTree
<1> QED BY <1>2, <1>5, <1>6, <1>7 DEF Accounted


\* A step that leaves the image alone leaves what is reachable alone.
LEMMA SameImage ==
    ASSUME UNCHANGED image
    PROVE  /\ kids' = kids /\ Reachable' = Reachable /\ PlacesOf(Reachable)' = PlacesOf(Reachable)
           /\ IsTree' = IsTree
<1>1. kids' = kids
  BY DEF kids
<1>2. Reachable' = Reachable
  BY <1>1 DEF Reachable
<1>3. PlacesOf(Reachable)' = PlacesOf(Reachable)
  BY <1>1, <1>2 DEF PlacesOf, Places
<1>4. IsTree' = IsTree
  BY <1>1, <1>2, <1>3 DEF IsTree, NamedBy, PlacesOf, Places
<1> QED BY <1>1, <1>2, <1>3, <1>4

\* Nothing is judged before the seed.
LEMMA InitJudged == Init => Judged
<1> SUFFICES ASSUME Init PROVE Judged
  OBVIOUS
<1>1. seen = 0 /\ stack = << >> /\ visited = {} /\ entered = {} /\ status = "start"
  BY DEF Init
<1>2. PlacesOf(visited) = {} /\ Len(stack) = 0
  BY <1>1 DEF PlacesOf
<1>3. Cardinality(PlacesOf(visited)) = 0
  BY <1>2, FS_EmptySet
<1> QED BY <1>1, <1>2, <1>3 DEF Judged

\* The root's names are the names of the one directory entered.
LEMMA OpensJudged == TypeOK /\ Unstarted /\ Judged /\ Opens => Judged'
<1> SUFFICES ASSUME TypeOK, Unstarted, Judged, Opens PROVE Judged'
  OBVIOUS
<1>1. /\ UNCHANGED image /\ seen' = 0 /\ stack' = NamesBelow(<< >>, Root) /\ visited' = {Root}
      /\ entered' = {TheRoot} /\ status' = "walking"
  BY DEF Opens, walk, Unstarted
<1>2. Root \in Dirs /\ << >> \in Paths
  BY NodesAssumption DEF Paths
<1>3. Len(stack') = Len(kids[Root])
  BY <1>1, <1>2, NamesType
<1>4. PlacesOf({Root}) = Places(Root)
  BY DEF PlacesOf
<1>5. Cardinality(Places(Root)) = Len(kids[Root]) /\ Len(kids[Root]) \in Nat
  BY <1>2, PlacesCount
<1>6. PlacesOf(visited)' = PlacesOf({Root})
  BY <1>1, SameImage DEF PlacesOf, Places
<1>7. seen' + Len(stack') = Cardinality(PlacesOf(visited)')
  BY <1>1, <1>3, <1>4, <1>5, <1>6
<1>8. visited' \subseteq Reachable'
  BY <1>1, SameImage, ReachableIsLeast DEF Closed
<1> QED BY <1>1, <1>7, <1>8 DEF Judged

\* A name handed over and not entered is one more seen and one fewer waiting.
LEMMA PassesJudged == TypeOK /\ Judged /\ Passes => Judged'
<1> SUFFICES ASSUME TypeOK, Judged, Passes PROVE Judged'
  OBVIOUS
<1>1. UNCHANGED <<image, visited, entered>> /\ seen' = seen + 1 /\ status' \in {"walking", "stopped"}
  BY DEF Passes, walk
<1>0. PICK none : none = << >>
  OBVIOUS
<1>2. none \in Seq(Pending) /\ Hands(none) /\ Len(none) = 0
  BY <1>0, EmptySeq DEF Passes
<1>3. Len(stack') = Len(none) + Len(stack) - 1 /\ Len(stack) \in Nat
  BY <1>2, Handing
<1>4. seen' + Len(stack') = seen + Len(stack)
  BY <1>1, <1>2, <1>3 DEF TypeOK
<1>5. PlacesOf(visited)' = PlacesOf(visited)
  BY <1>1, SameImage DEF PlacesOf, Places
<1> QED BY <1>1, <1>4, <1>5, SameImage DEF Judged

\* A directory entered has its names counted with those that wait.
LEMMA DescendsJudged == TypeOK /\ DescendedOnce /\ Told /\ Judged /\ Descends => Judged'
<1> SUFFICES ASSUME TypeOK, DescendedOnce, Told, Judged, Descends PROVE Judged'
  OBVIOUS
<1>1. /\ UNCHANGED image /\ seen' = seen + 1 /\ status' \in {"walking", "stopped"} /\ Top.node \in Dirs
      /\ Top.node \notin visited /\ visited' = visited \cup {Top.node} /\ entered' = entered \cup {Top}
      /\ stack # << >>
  BY DEF Descends, walk, Reached, Popping
<1>2. Top \in Pending /\ Top.path \in Paths
  <2>1. Top \in Pending
    BY <1>1, HeadTailProperties DEF TypeOK, Top
  <2> QED BY <2>1 DEF Pending
<1>3. PICK new : new = NamesBelow(Top.path, Top.node)
  OBVIOUS
<1>4. new \in Seq(Pending) /\ Hands(new) /\ Len(new) = Len(kids[Top.node])
  BY <1>1, <1>2, <1>3, NamesType DEF Descends
<1>5. Len(stack') = Len(new) + Len(stack) - 1 /\ Len(stack) \in Nat /\ Len(new) \in Nat /\ Top \in Waiting
  BY <1>4, Handing, HandingSets
<1>6. PICK all, old, d : all = visited' /\ old = visited /\ d = Top.node
  OBVIOUS
<1>7. PlacesOf(visited)' = PlacesOf(all)
  BY <1>1, <1>6, SameImage DEF PlacesOf, Places
<1>8. all = old \cup {d} /\ d \notin old /\ d \in Dirs /\ old \in SUBSET Dirs
  BY <1>1, <1>6 DEF TypeOK
<1>9. Cardinality(PlacesOf(old \cup {d})) = Cardinality(PlacesOf(old)) + Len(kids[d])
  BY <1>8, PlacesGrow
<1>10. seen' + Len(stack') = Cardinality(PlacesOf(visited)')
  <2>1. seen + Len(stack) = Cardinality(PlacesOf(old)) /\ seen \in Nat
    BY <1>6 DEF Judged, TypeOK
  <2>2. Cardinality(PlacesOf(visited)') = Cardinality(PlacesOf(old)) + Len(new)
    BY <1>4, <1>6, <1>7, <1>8, <1>9
  <2>3. seen' + Len(stack') = (seen + Len(stack)) + Len(new)
    BY <1>1, <1>5, <2>1
  <2> QED BY <2>1, <2>2, <2>3
<1>11. visited' \subseteq Reachable'
  <2>1. Top.node \in Reachable
    BY <1>1, <1>5, ToldIsReachable DEF Told, Judged
  <2> QED BY <1>1, <2>1, SameImage DEF Judged
<1>12. \A x, y \in entered' : x.path = y.path => x = y
  BY <1>1, <1>5, TopIsNew DEF Told, Judged
<1> QED BY <1>1, <1>10, <1>11, <1>12 DEF Judged

\* A walk that has more names than its cap in hand is of an image that has.
LEMMA RefusedForItsCap ==
    ASSUME TypeOK, DescendedOnce, Told, Judged, Popping, Refusal = "too_large"
    PROVE  Cardinality(PlacesOf(Reachable)) > cap
<1>1. Top \in Waiting /\ Top \in Pending /\ stack # << >> /\ Len(stack) \in Nat /\ Len(stack) >= 1
      /\ Len(Tail(stack)) = Len(stack) - 1
  <2>1. stack # << >> /\ stack \in Seq(Pending)
    BY DEF Popping, TypeOK
  <2>2. 1 \in 1..Len(stack) /\ stack[1] = Top /\ Len(stack) \in Nat
    BY <2>1, LenProperties, EmptySeq DEF Top
  <2> QED BY <2>1, <2>2, HeadTailProperties DEF Waiting, Top
<1>2. seen + Len(stack) = Cardinality(PlacesOf(visited)) /\ visited \subseteq Reachable
      /\ seen \in Nat /\ cap \in Nat /\ visited \subseteq Dirs /\ Reachable \subseteq Dirs
  BY ReachableIsLeast DEF Judged, TypeOK
<1>3. CASE seen >= cap
  <2>1. Cardinality(PlacesOf(visited)) <= Cardinality(PlacesOf(Reachable)) /\ Cardinality(PlacesOf(Reachable)) \in Nat
    BY <1>2, PlacesMonotone
  <2> QED BY <1>1, <1>2, <1>3, <2>1
<1>4. CASE ~(seen >= cap)
  <2>1. Top.node \in Dirs /\ ~Reached /\ ~Fits(Len(kids[Top.node]))
    BY <1>4 DEF Refusal
  <2>2. PICK all, d : d = Top.node /\ all = visited \cup {d}
    OBVIOUS
  <2>3. d \in Dirs /\ d \notin visited /\ d \in Reachable /\ Len(kids[d]) \in Nat
    BY <1>1, <1>2, <2>1, <2>2, ToldIsReachable, PlacesCount DEF Told, Reached
  <2>4. Cardinality(PlacesOf(all)) = Cardinality(PlacesOf(visited)) + Len(kids[d])
    BY <1>2, <2>2, <2>3, PlacesGrow
  <2>5. Cardinality(PlacesOf(all)) <= Cardinality(PlacesOf(Reachable)) /\ Cardinality(PlacesOf(Reachable)) \in Nat
    BY <1>2, <2>2, <2>3, PlacesMonotone
  <2>6. ~(seen + 1 + Len(Tail(stack)) + Len(kids[d]) <= cap)
    BY <2>1, <2>2 DEF Fits
  <2> DEFINE held == Len(stack)
             rest == Len(Tail(stack))
             fan == Len(kids[d])
             counted == Cardinality(PlacesOf(visited))
             more == Cardinality(PlacesOf(all))
             every == Cardinality(PlacesOf(Reachable))
  <2>7. /\ seen \in Nat /\ cap \in Nat /\ held \in Nat /\ rest = held - 1 /\ fan \in Nat /\ every \in Nat
        /\ seen + held = counted /\ more = counted + fan /\ more <= every /\ ~(seen + 1 + rest + fan <= cap)
    BY <1>1, <1>2, <2>3, <2>4, <2>5, <2>6
  <2>8. every > cap
    <3> HIDE DEF held, rest, fan, counted, more, every
    <3> QED BY <2>7
  <2> QED BY <2>8
<1> QED BY <1>3, <1>4

\* Every step is judged.
LEMMA NextJudged == TypeOK /\ Unstarted /\ DescendedOnce /\ Told /\ Judged /\ [Next]_vars => Judged'
<1> SUFFICES ASSUME TypeOK, Unstarted, DescendedOnce, Told, Judged, [Next]_vars PROVE Judged'
  OBVIOUS
<1>1. ASSUME Still,
             status' = "too_large" => Cardinality(PlacesOf(Reachable)) > cap,
             status' = "repeated" => strict /\ ~IsTree
      PROVE  Judged'
  <2>1. UNCHANGED <<image, cap, strict, seen, stack, visited, entered>>
    BY <1>1 DEF Still, walk
  <2>2. PlacesOf(visited)' = PlacesOf(visited)
    BY <2>1, SameImage DEF PlacesOf, Places
  <2> QED BY <1>1, <2>1, <2>2, SameImage DEF Judged
<1>2. CASE Still /\ Refuse /\ status' = Refusal /\ status = "walking"
  <2>1. status' = "too_large" => Cardinality(PlacesOf(Reachable)) > cap
    BY <1>2, RefusedForItsCap DEF Refuse
  <2>2. ASSUME status' = "repeated" PROVE strict /\ ~IsTree
    <3>1. Refusal = "repeated" /\ Popping
      BY <1>2, <2>2 DEF Refuse
    <3>2. Top.node \in Dirs /\ Reached /\ strict
      BY <3>1 DEF Refusal
    <3> QED BY <3>1, <3>2, RepeatIsNoTree
  <2> QED BY <1>1, <1>2, <2>1, <2>2
<1>3. CASE Still /\ (status' = status \/ (status \in {"start", "walking"} /\ status' \in {"path_too_long", "damaged"}))
  BY <1>1, <1>3 DEF Judged
<1>4. CASE Still /\ status = "walking" /\ status' = "done" /\ stack = << >>
  BY <1>1, <1>4
<1>5. CASE Still /\ status = "start" /\ status' = "too_large" /\ Len(kids[Root]) > cap
  <2>1. Root \in Dirs /\ Root \in Reachable /\ Reachable \subseteq Dirs
    BY ReachableIsLeast, NodesAssumption DEF Closed
  <2>2. PlacesOf({Root}) = Places(Root)
    BY DEF PlacesOf
  <2>3. Cardinality(PlacesOf({Root})) = Len(kids[Root]) /\ Len(kids[Root]) \in Nat
    BY <2>1, <2>2, PlacesCount
  <2>4. Cardinality(PlacesOf({Root})) <= Cardinality(PlacesOf(Reachable)) /\ Cardinality(PlacesOf(Reachable)) \in Nat
    <3>1. {Root} \in SUBSET Reachable /\ Reachable \in SUBSET Dirs
      BY <2>1
    <3> QED BY <3>1, PlacesMonotone
  <2>5. Cardinality(PlacesOf(Reachable)) > cap
    BY <1>5, <2>3, <2>4 DEF TypeOK
  <2> QED BY <1>1, <1>5, <2>5
<1> QED
  BY <1>2, <1>3, <1>4, <1>5, Kinds, OpensJudged, PassesJudged, DescendsJudged


\* A walk that ended well reached everything reachable, and its names are those it counted.
LEMMA DoneIsAll ==
    ASSUME TypeOK, DescendedOnce, Told, Judged, BoundedFrontier, status = "done"
    PROVE  Reachable = visited /\ Cardinality(PlacesOf(Reachable)) <= cap /\ Waiting = {}
<1>1. stack = << >> /\ TheRoot \in entered
  BY DEF Told, Accounted
<1>2. Complete
  BY ToldWhole
<1>3. Root \in visited
  BY <1>1 DEF DescendedOnce, TheRoot
<1>4. Closed(visited) /\ visited \in SUBSET Dirs
  BY <1>2, <1>3 DEF Complete, Closed, TypeOK
<1>5. Reachable = visited
  BY <1>4, ReachableIsLeast DEF Judged
<1>6. Len(stack) = 0 /\ Waiting = {}
  BY <1>1 DEF Waiting
<1> QED BY <1>5, <1>6 DEF Judged, BoundedFrontier, TypeOK

\* A strict one met every name once and the root's never.
LEMMA StrictIsTree ==
    ASSUME TypeOK, DescendedOnce, Told, Judged, BoundedFrontier, status = "done", strict
    PROVE  IsTree
<1>1. Reachable = visited /\ Handed = NamesOf(entered) /\ TheRoot \in entered
  BY DoneIsAll DEF Told, Accounted
<1>2. ASSUME NEW d \in Dirs, NEW n \in NamedBy(d)
      PROVE  \E x \in entered, z \in entered :
                /\ x.path \in Paths /\ z.node = d /\ z.path = Append(x.path, n[2]) /\ n[2] \in Nat
                /\ x.node = n[1] /\ n = <<n[1], n[2]>>
  <2>1. PICK e \in Reachable : n \in Places(e)
    BY DEF NamedBy, PlacesOf
  <2>2. PICK i \in 1..Len(kids[e]) : n = <<e, i>>
    BY <2>1 DEF Places
  <2>3. kids[e][i] = d /\ n[1] = e /\ n[2] = i
    BY <2>2 DEF NamedBy
  <2>4. PICK x \in entered : x.node = e
    BY <1>1 DEF DescendedOnce
  <2>5. x.path \in Paths /\ x.node \in Dirs
    BY DEF TypeOK
  <2>6. i \in Nat
    BY <2>4, <2>5, Kids
  <2> DEFINE z == [path |-> Append(x.path, i), node |-> kids[e][i]]
  <2>7. z \in Below(x)
    BY <2>2, <2>4 DEF Below
  <2>8. z \in Handed
    <3>1. \A y : y \in Below(x) => y \in NamesOf(entered)
      BY DEF NamesOf
    <3> QED BY <1>1, <2>7, <3>1
  <2>9. z.node = d /\ z.path = Append(x.path, i)
    BY <2>3
  <2>10. z \in entered
    BY <2>8, <2>9 DEF Told, Followed
  <2> HIDE DEF z
  <2> QED BY <2>2, <2>3, <2>4, <2>5, <2>6, <2>9, <2>10
<1>3. NamedBy(Root) = {}
  <2> SUFFICES ASSUME NEW n \in NamedBy(Root) PROVE FALSE
    OBVIOUS
  <2>1. PICK x \in entered, z \in entered :
           x.path \in Paths /\ z.node = Root /\ z.path = Append(x.path, n[2]) /\ n[2] \in Nat
    BY <1>2, NodesAssumption
  <2>2. z = TheRoot
    <3>1. PICK root : root = TheRoot
      OBVIOUS
    <3>2. root \in entered /\ root.node = z.node
      BY <1>1, <2>1, <3>1 DEF TheRoot
    <3> QED BY <3>1, <3>2 DEF DescendedOnce
  <2>3. Append(x.path, n[2]) # << >>
    BY <2>1 DEF Paths
  <2> QED BY <2>1, <2>2, <2>3 DEF TheRoot
<1>4. ASSUME NEW d \in Reachable PROVE Cardinality(NamedBy(d)) <= 1
  <2>1. ASSUME NEW m \in NamedBy(d), NEW n \in NamedBy(d) PROVE m = n
    <3>0. d \in Dirs
      BY ReachableIsLeast
    <3>1. PICK x \in entered, z \in entered :
             /\ x.path \in Paths /\ z.node = d /\ z.path = Append(x.path, m[2]) /\ m[2] \in Nat
             /\ x.node = m[1] /\ m = <<m[1], m[2]>>
      BY <1>2, <3>0
    <3>2. PICK y \in entered, w \in entered :
             /\ y.path \in Paths /\ w.node = d /\ w.path = Append(y.path, n[2]) /\ n[2] \in Nat
             /\ y.node = n[1] /\ n = <<n[1], n[2]>>
      BY <1>2, <3>0
    <3>3. z = w
      BY <3>1, <3>2 DEF DescendedOnce
    <3>4. x.path = y.path /\ m[2] = n[2]
      <4>1. PICK p, q, i, j : p = x.path /\ q = y.path /\ i = m[2] /\ j = n[2]
        OBVIOUS
      <4>2. p \in Paths /\ q \in Paths /\ i \in Nat /\ j \in Nat
        BY <3>1, <3>2, <4>1
      <4>3. Append(p, i) = Append(q, j)
        BY <3>1, <3>2, <3>3, <4>1
      <4>4. p = q /\ i = j
        BY <4>2, <4>3, OneWayUp
      <4> QED BY <4>1, <4>4
    <3>5. x = y
      BY <3>4 DEF Judged
    <3> QED BY <3>1, <3>2, <3>4, <3>5
  <2>2. CASE NamedBy(d) = {}
    <3>1. Cardinality({}) = 0
      BY FS_EmptySet
    <3> QED BY <2>2, <3>1
  <2>3. CASE NamedBy(d) # {}
    <3>1. PICK m : m \in NamedBy(d)
      BY <2>3
    <3>2. NamedBy(d) = {m}
      BY <2>1, <3>1
    <3>3. Cardinality({m}) = 1
      BY FS_Singleton
    <3> QED BY <3>2, <3>3
  <2> QED BY <2>2, <2>3
<1> QED BY <1>3, <1>4 DEF IsTree

\* walk.rs: whatever the image, a walk is refused for its cap only if the image has more names
\* than the cap, and answered only if it has no more; a strict walk is answered only for an
\* image that is a tree, and refused for a repeated directory only for one that is not.
THEOREM WalkRefusesExactly == Spec => []RefusesExactly
<1>1. TypeOK /\ DescendedOnce /\ Told /\ Judged /\ BoundedFrontier => RefusesExactly
  <2> SUFFICES ASSUME TypeOK, DescendedOnce, Told, Judged, BoundedFrontier PROVE RefusesExactly
    OBVIOUS
  <2>1. ReachableNames = PlacesOf(Reachable)
    BY DEF ReachableNames, PlacesOf, Places
  <2>2. CapIsExact
    BY <2>1, DoneIsAll DEF CapIsExact, Judged
  <2>3. (strict /\ status = "done" => IsTree) /\ (status = "repeated" => strict /\ ~IsTree)
    BY StrictIsTree DEF Judged
  <2>4. IsTree <=> /\ {n \in ReachableNames : kids[n[1]][n[2]] = Root} = {}
                   /\ \A d \in Reachable : Cardinality({n \in ReachableNames : kids[n[1]][n[2]] = d}) <= 1
    BY <2>1 DEF IsTree, NamedBy
  <2>5. StrictIsATree
    BY <2>3, <2>4 DEF StrictIsATree
  <2> QED BY <2>2, <2>5 DEF RefusesExactly
<1> QED BY <1>1, InitTold, NextTold, InitJudged, NextJudged, WalkTypeCorrect, UnstartedInvariant,
           EachDirectoryOnce, FrontierIsBounded, PTL DEF Spec


-----------------------------------------------------------------------------
\* Resolution

\* The entries and the targets of every image lead to nodes and are components.
LEMMA Image ==
    ASSUME ResolveTypeOK, node \in Dirs
    PROVE  /\ \A n \in DOMAIN image.entries[node] : image.entries[node][n] \in Nodes
           /\ \A l \in Links : image.target[l] \in Target /\ image.target[l].parts \in Seq(Component)
<1>1. image.entries \in [Dirs -> Seq(Nodes)] /\ image.target \in [Links -> Target]
  BY ImagesAssumption DEF ResolveTypeOK
<1>2. image.entries[node] \in Seq(Nodes)
  BY <1>1
<1>3. \A l \in Links : image.target[l] \in Target
  BY <1>1
<1>. QED
  BY <1>2, <1>3 DEF Target

\* A resolution begins at the root.
LEMMA ResolveInitType == ResolveInit => ResolveTypeOK
BY NodesAssumption, SearchedAssumption, PathsAssumption, EmptySeq DEF ResolveInit, ResolveTypeOK

\* Every step keeps the types.
LEMMA ResolveNextType == ResolveTypeOK /\ [ResolveNext]_resolveVars => ResolveTypeOK'
<1> SUFFICES ASSUME ResolveTypeOK, [ResolveNext]_resolveVars PROVE ResolveTypeOK'
  OBVIOUS
<1> USE NodesAssumption
<1>1. CASE UNCHANGED resolveVars
  BY <1>1 DEF ResolveTypeOK, resolveVars, call
<1>2. ASSUME NEW how \in {"found", "not_found", "not_a_directory", "too_many_links", "damaged"}, Return(how)
      PROVE  ResolveTypeOK'
  BY <1>2 DEF ResolveTypeOK, Return, call
<1>3. CASE Ascend
  <2>1. pending' \in Seq(Component)
    BY <1>3 DEF Ascend, Taking, ResolveTypeOK
  <2>2. CASE descended = << >>
    BY <1>3, <2>1, <2>2 DEF Ascend, ResolveTypeOK, call
  <2>3. CASE descended # << >>
    <3>1. Len(descended) \in 1..Len(descended) /\ descended[Len(descended)] \in Dirs
      BY <2>3 DEF ResolveTypeOK
    <3>2. SubSeq(descended, 1, Len(descended) - 1) \in Seq(Dirs)
      BY <2>3 DEF ResolveTypeOK
    <3>. QED BY <1>3, <2>1, <2>3, <3>1, <3>2 DEF Ascend, ResolveTypeOK, call
  <2>. QED BY <2>2, <2>3
<1>4. CASE Expand
  <2>1. node \in Dirs /\ Entry \in Links
    BY <1>4 DEF Expand, Found, Naming, Following
  <2>2. Link.parts \in Seq(Component)
    BY <2>1, Image DEF Link
  <2>3. pending' \in Seq(Component)
    BY <1>4, <2>2 DEF Expand, Found, Naming, Taking, ResolveTypeOK
  <2>4. hops' \in 0..MaxHops
    BY <1>4, PathsAssumption DEF Expand, LinkRefusal, ResolveTypeOK
  <2>5. node' \in Nodes /\ descended' \in Seq(Dirs)
    <3>1. CASE Link.is = "absolute"
      BY <1>4, <3>1, EmptySeq DEF Expand
    <3>2. CASE Link.is # "absolute"
      BY <1>4, <3>2 DEF Expand, ResolveTypeOK
    <3>. QED BY <3>1, <3>2
  <2>. QED BY <1>4, <2>3, <2>4, <2>5 DEF Expand, ResolveTypeOK, call
<1>5. CASE Enter
  <2>1. node \in Dirs /\ Part \in DOMAIN Held
    BY <1>5 DEF Enter, Found, Naming
  <2>2. Entry \in Nodes
    BY <2>1, Image DEF Entry, Held
  <2>3. Append(descended, node) \in Seq(Dirs)
    BY <2>1 DEF ResolveTypeOK
  <2>4. pending' \in Seq(Component)
    BY <1>5 DEF Enter, Found, Naming, Taking, ResolveTypeOK
  <2>. QED BY <1>5, <2>2, <2>3, <2>4 DEF Enter, ResolveTypeOK, call
<1>6. CASE LinkRefused
  <2>1. LinkRefusal \in {"not_found", "too_many_links"} /\ Return(LinkRefusal)
    BY <1>6 DEF LinkRefused, LinkRefusal
  <2>. QED BY <1>2, <2>1
<1>7. CASE NotADirectory \/ Absent \/ Reach \/ LookupFails
  BY <1>2, <1>7 DEF NotADirectory, Absent, Reach, LookupFails
<1>. QED
  BY <1>1, <1>3, <1>4, <1>5, <1>6, <1>7 DEF ResolveNext, ResolveStep, Answered

\* Every variable of a resolution keeps its type, over every image: it never leaves the nodes
\* of the image, and never follows more links than it may.
THEOREM ResolveTypeCorrect == ResolveSpec => []ResolveTypeOK
BY ResolveInitType, ResolveNextType, PTL DEF ResolveSpec

-----------------------------------------------------------------------------

\* A way down goes on by any name its end holds.
LEMMA Longer ==
    ASSUME NEW entries, NEW way \in Seq(Nodes), Len(way) >= 1, NEW n \in Nodes,
           IsWayDown(entries, way),
           \E name \in DOMAIN entries[way[Len(way)]] : entries[way[Len(way)]][name] = n
    PROVE  IsWayDown(entries, Append(way, n))
<1> DEFINE longer == Append(way, n)
<1>1. Len(longer) = Len(way) + 1 /\ longer[Len(way) + 1] = n
  OBVIOUS
<1>2. \A i \in 1..Len(way) : longer[i] = way[i]
  OBVIOUS
<1> HIDE DEF longer
<1>3. longer[1] = Root
  BY <1>2 DEF IsWayDown
<1>4. ASSUME NEW k \in 1..(Len(longer) - 1)
      PROVE  \E name \in DOMAIN entries[longer[k]] : entries[longer[k]][name] = longer[k + 1]
  <2>1. CASE k = Len(way)
    BY <1>1, <1>2, <2>1
  <2>2. CASE k # Len(way)
    <3>1. k \in 1..(Len(way) - 1) /\ longer[k] = way[k] /\ longer[k + 1] = way[k + 1]
      BY <1>1, <1>2, <2>2
    <3>. QED BY <3>1 DEF IsWayDown
  <2>. QED BY <2>1, <2>2
<1>5. IsWayDown(entries, longer)
  BY <1>3, <1>4 DEF IsWayDown
<1>. QED BY <1>5 DEF longer

\* A way down without its last step is one too.
LEMMA Shorter ==
    ASSUME NEW entries, NEW way \in Seq(Nodes), Len(way) >= 1, NEW n,
           IsWayDown(entries, Append(way, n))
    PROVE  IsWayDown(entries, way)
<1> DEFINE longer == Append(way, n)
<1>1. Len(longer) = Len(way) + 1
  OBVIOUS
<1>2. \A i \in 1..Len(way) : longer[i] = way[i]
  OBVIOUS
<1>3. IsWayDown(entries, longer)
  OBVIOUS
<1> HIDE DEF longer
<1>4. way[1] = Root
  BY <1>2, <1>3 DEF IsWayDown
<1>5. ASSUME NEW k \in 1..(Len(way) - 1)
      PROVE  \E name \in DOMAIN entries[way[k]] : entries[way[k]][name] = way[k + 1]
  <2>1. k \in 1..(Len(longer) - 1) /\ longer[k] = way[k] /\ longer[k + 1] = way[k + 1]
    BY <1>1, <1>2
  <2>. QED BY <1>3, <2>1 DEF IsWayDown
<1>. QED BY <1>4, <1>5 DEF IsWayDown

\* Going back takes the last step off, and a link leaves the way or starts it again.
LEMMA NextWay == ResolveTypeOK /\ DescentIsAWayDown /\ [ResolveNext]_resolveVars => DescentIsAWayDown'
<1> SUFFICES ASSUME ResolveTypeOK, DescentIsAWayDown, [ResolveNext]_resolveVars PROVE DescentIsAWayDown'
  OBVIOUS
<1> DEFINE way == Append(descended, node)
<1>0. descended \in Seq(Nodes) /\ node \in Nodes /\ way \in Seq(Nodes) /\ Len(way) >= 1
  BY NodesAssumption DEF ResolveTypeOK
<1>1. CASE UNCHANGED <<image, node, descended>>
  BY <1>1 DEF DescentIsAWayDown
<1>2. ASSUME NEW how, Return(how) PROVE DescentIsAWayDown'
  BY <1>1, <1>2 DEF Return, call
<1>3. CASE Ascend
  <2>1. CASE descended = << >>
    BY <1>1, <1>3, <2>1 DEF Ascend, call
  <2>2. CASE descended # << >>
    <3>1. /\ descended' = SubSeq(descended, 1, Len(descended) - 1)
          /\ node' = descended[Len(descended)] /\ image' = image
      BY <1>3, <2>2 DEF Ascend, call
    <3>2. Len(descended) \in Nat /\ Len(descended) >= 1
      BY <1>0, <2>2
    <3>3. Append(SubSeq(descended, 1, Len(descended) - 1), descended[Len(descended)]) = descended
      BY <1>0, <2>2, <3>2
    <3>4. IsWayDown(image.entries, descended)
      BY <1>0, <3>2, Shorter DEF DescentIsAWayDown
    <3>. QED BY <3>1, <3>3, <3>4 DEF DescentIsAWayDown
  <2>. QED BY <2>1, <2>2
<1>4. CASE Expand
  <2>1. CASE Link.is = "absolute"
    <3>1. node' = Root /\ descended' = << >>
      BY <1>4, <2>1 DEF Expand
    <3>2. Append(<< >>, Root) = <<Root>> /\ Len(<<Root>>) = 1
      OBVIOUS
    <3>. QED BY <3>1, <3>2 DEF DescentIsAWayDown, IsWayDown
  <2>2. CASE Link.is # "absolute"
    BY <1>1, <1>4, <2>2 DEF Expand, call
  <2>. QED BY <2>1, <2>2
<1>5. CASE Enter
  <2>1. descended' = way /\ node' = Entry /\ image' = image
    BY <1>5 DEF Enter, call
  <2>2. way[Len(way)] = node
    BY <1>0
  <2>3. node \in Dirs /\ Part \in DOMAIN image.entries[node] /\ image.entries[node][Part] = Entry
    BY <1>5 DEF Enter, Found, Naming, Held, Entry
  <2>4. Entry \in Nodes
    BY <2>3, Image
  <2>5. IsWayDown(image.entries, way)
    BY DEF DescentIsAWayDown
  <2>6. IsWayDown(image.entries, Append(way, Entry))
    <3> HIDE DEF way
    <3>. QED BY <1>0, <2>2, <2>3, <2>4, <2>5, Longer
  <2>. QED BY <2>1, <2>6 DEF DescentIsAWayDown
<1>6. CASE LinkRefused \/ NotADirectory \/ Absent \/ Reach \/ LookupFails
  BY <1>2, <1>6 DEF LinkRefused, NotADirectory, Absent, Reach, LookupFails
<1>. QED
  BY <1>1, <1>3, <1>4, <1>5, <1>6 DEF ResolveNext, ResolveStep, Answered, resolveVars, call

\* Whatever graph the image is, what a resolution descended through leads from the root to
\* the node it stands at, entry by entry: `..` can reach nothing else.
THEOREM WayDown == ResolveSpec => []DescentIsAWayDown
<1>1. ResolveInit => DescentIsAWayDown
  <2>1. Append(<< >>, Root) = <<Root>> /\ Len(<<Root>>) = 1
    OBVIOUS
  <2>. QED BY <2>1 DEF ResolveInit, DescentIsAWayDown, IsWayDown
<1>. QED
  BY <1>1, ResolveTypeCorrect, NextWay, PTL DEF ResolveSpec

-----------------------------------------------------------------------------
\* Walks with resolutions in them

\* A way the names p take from the root to n, by a directory's entries at each.
Follows(entries, p, n, way) ==
    /\ way \in [1..(Len(p) + 1) -> Nodes] /\ way[1] = Root /\ way[Len(p) + 1] = n
    /\ \A j \in 1..Len(p) :
          way[j] \in Dirs /\ p[j] \in DOMAIN entries[way[j]] /\ entries[way[j]][p[j]] = way[j + 1]

Leads(entries, p, n) == \E way \in [1..(Len(p) + 1) -> Nodes] : Follows(entries, p, n, way)

\* No names lead to the root.
LEMMA RootLeads == \A entries : Leads(entries, << >>, Root)
<1> TAKE entries
<1> DEFINE way == [j \in 1..1 |-> Root]
<1>1. Len(<< >>) = 0 /\ Root \in Nodes
  BY NodesAssumption
<1>2. way \in [1..1 -> Nodes] /\ way[1] = Root
  BY <1>1
<1> HIDE DEF way
<1>3. Follows(entries, << >>, Root, way)
  BY <1>1, <1>2 DEF Follows
<1> QED BY <1>1, <1>2, <1>3 DEF Leads

\* What leads to a directory leads on to what its entries name.
LEMMA LeadsOn ==
    ASSUME NEW entries \in [Dirs -> Seq(Nodes)], NEW p \in Paths, NEW d \in Dirs,
           NEW i \in 1..Len(entries[d]), Leads(entries, p, d)
    PROVE  Leads(entries, Append(p, i), entries[d][i])
<1> DEFINE longer == Append(p, i)
           m == Len(p)
           n == entries[d][i]
<1>1. entries[d] \in Seq(Nodes) /\ i \in Nat /\ i \in DOMAIN entries[d] /\ n \in Nodes
  OBVIOUS
<1>2. m \in Nat /\ Len(longer) = m + 1 /\ longer[m + 1] = i /\ \A j \in 1..m : longer[j] = p[j]
  BY <1>1 DEF Paths
<1>3. PICK way \in [1..(m + 1) -> Nodes] : Follows(entries, p, d, way)
  BY DEF Leads
<1> DEFINE on == [j \in 1..(m + 2) |-> IF j = m + 2 THEN n ELSE way[j]]
<1>4. way[1] = Root /\ way[m + 1] = d
      /\ \A j \in 1..m : way[j] \in Dirs /\ p[j] \in DOMAIN entries[way[j]] /\ entries[way[j]][p[j]] = way[j + 1]
  BY <1>3 DEF Follows
<1> HIDE DEF longer, m, n
<1>5. on \in [1..(m + 2) -> Nodes] /\ on[m + 2] = n /\ \A j \in 1..(m + 1) : on[j] = way[j]
  BY <1>1, <1>2
<1> HIDE DEF on
<1>6. ASSUME NEW j \in 1..(m + 1)
      PROVE  on[j] \in Dirs /\ longer[j] \in DOMAIN entries[on[j]] /\ entries[on[j]][longer[j]] = on[j + 1]
  <2>1. CASE j = m + 1
    <3>1. on[j] = d /\ longer[j] = i /\ on[j + 1] = n
      BY <1>2, <1>4, <1>5, <2>1
    <3> QED BY <1>1, <3>1 DEF n
  <2>2. CASE j # m + 1
    <3>1. j \in 1..m /\ j + 1 \in 1..(m + 1)
      BY <1>2, <2>2
    <3>2. on[j] = way[j] /\ on[j + 1] = way[j + 1] /\ longer[j] = p[j]
      BY <1>2, <1>5, <3>1
    <3> QED BY <1>4, <3>1, <3>2
  <2> QED BY <2>1, <2>2
<1>7. on[1] = Root
  BY <1>2, <1>4, <1>5
<1>8. (m + 1) + 1 = m + 2
  BY <1>2
<1>9. Follows(entries, longer, n, on)
  BY <1>2, <1>5, <1>6, <1>7, <1>8 DEF Follows
<1>10. Leads(entries, longer, n)
  BY <1>2, <1>5, <1>8, <1>9 DEF Leads
<1> QED BY <1>10 DEF longer, n

\* Every directory was entered under names that lead to it.
EnteredByItsNames == \A x \in entered : Leads(kids, x.path, x.node)

\* So does every name handed over or waiting.
LEMMA HandedLeads ==
    ASSUME TypeOK, Accounted, EnteredByItsNames, NEW z \in Handed \cup Waiting
    PROVE  Leads(kids, z.path, z.node)
<1>1. PICK x \in entered, i \in Nat :
         /\ i \in 1..Len(kids[x.node]) /\ x.path \in Paths /\ x.node \in Dirs
         /\ z.path = Append(x.path, i) /\ z.node = kids[x.node][i]
  BY UpFrom
<1>2. Leads(kids, x.path, x.node)
  BY DEF EnteredByItsNames
<1>3. kids \in [Dirs -> Seq(Nodes)]
  BY Kids
<1> QED BY <1>1, <1>2, <1>3, LeadsOn

\* A directory entered is the root or one whose name waited.
LEMMA NextEntered ==
    TypeOK /\ Unstarted /\ Told /\ EnteredByItsNames /\ [Next]_vars => EnteredByItsNames'
<1> SUFFICES ASSUME TypeOK, Unstarted, Told, EnteredByItsNames, [Next]_vars PROVE EnteredByItsNames'
  OBVIOUS
<1>1. CASE Still \/ Passes
  BY <1>1 DEF Still, Passes, walk, EnteredByItsNames, kids
<1>2. CASE Opens
  <2>1. entered' = {TheRoot}
    BY <1>2 DEF Opens
  <2>2. TheRoot.path = << >> /\ TheRoot.node = Root
    BY DEF TheRoot
  <2> QED BY <2>1, <2>2, RootLeads DEF EnteredByItsNames
<1>3. CASE Descends
  <2>1. stack # << >> /\ entered' = entered \cup {Top} /\ kids' = kids
    BY <1>3 DEF Descends, Popping, walk, kids
  <2>2. Top \in Waiting
    <3>1. Len(stack) \in Nat /\ Len(stack) >= 1
      BY <2>1, LenProperties, EmptySeq DEF TypeOK
    <3> QED BY <3>1 DEF Top, Waiting
  <2>3. Leads(kids, Top.path, Top.node)
    BY <2>2, HandedLeads DEF Told
  <2> QED BY <2>1, <2>3 DEF EnteredByItsNames
<1> QED BY <1>1, <1>2, <1>3, Kinds

-----------------------------------------------------------------------------

\* A walk in the middle of which names are resolved is a walk.
LEMMA ReadWalks == [ReadNext]_readVars => [Next]_vars
BY DEF ReadNext, ReadStep, WalkOn, Resolve, Ask, Both, Next, readVars, vars

\* The image is the caller's throughout.
LEMMA KeepsImage == [Next]_vars => image' = image
BY DEF Next, Step, Seed, ReadFails, Refuse, Visit, Descend, Finish, Returned, Halt, Yield, walk, vars

\* One that never began never does.
LEMMA NeverBegins == NoWalk /\ [ReadNext]_readVars => NoWalk'
<1> SUFFICES ASSUME NoWalk, [ReadNext]_readVars PROVE NoWalk'
  OBVIOUS
<1>1. status = "stopped"
  BY DEF NoWalk
<1>2. ~Step /\ ~ReadFails
  BY <1>1 DEF Step, Seed, Refuse, Visit, Descend, Finish, Popping, ReadFails
<1>3. UNCHANGED <<cap, strict, seen, stack, visited, yielded, entered, status>>
  BY <1>2 DEF ReadNext, ReadStep, WalkOn, Resolve, Ask, Both, readVars, vars
<1> QED BY <1>3 DEF NoWalk

\* What every walk keeps is kept by one that never began.
LEMMA NoWalkKeeps ==
    NoWalk /\ image \in Images =>
        TypeOK /\ Unstarted /\ BoundedFrontier /\ WalksTheTree /\ RefusesExactly
<1> SUFFICES ASSUME NoWalk, image \in Images
             PROVE  TypeOK /\ Unstarted /\ BoundedFrontier /\ WalksTheTree /\ RefusesExactly
  OBVIOUS
<1>1. /\ cap = 0 /\ strict = FALSE /\ seen = 0 /\ stack = << >> /\ visited = {} /\ yielded = << >>
      /\ entered = {} /\ status = "stopped"
  BY DEF NoWalk
<1>2. TypeOK /\ Unstarted
  BY <1>1, EmptySeq DEF TypeOK, Unstarted, Statuses
<1>3. Len(<< >>) = 0 /\ << >> \o << >> = << >>
  OBVIOUS
<1>4. BoundedFrontier
  BY <1>1, <1>3 DEF BoundedFrontier
<1>5. WalksTheTree
  <2>1. DepthFirstOrder
    BY <1>1, <1>3 DEF DepthFirstOrder
  <2>2. Complete
    BY <1>1 DEF Complete
  <2> QED BY <2>1, <2>2 DEF WalksTheTree
<1>6. RefusesExactly
  BY <1>1 DEF RefusesExactly, CapIsExact, StrictIsATree
<1> QED BY <1>2, <1>4, <1>5, <1>6

\* walk.rs: a visitor that resolves paths in the middle of a walk changes nothing of what the
\* walk keeps, and a reader asked for paths alone holds nothing of one.
THEOREM WalksWhileResolving ==
    ReadSpec => [](TypeOK /\ Unstarted /\ BoundedFrontier /\ WalksTheTree /\ RefusesExactly)
<1>1. ReadInit => image \in Images /\ (NoWalk \/ Init)
  BY SearchedAssumption, WalkedAssumption DEF ReadInit, ResolveInit, Init
<1>2. image \in Images /\ [ReadNext]_readVars => (image \in Images)'
  BY ReadWalks, KeepsImage
<1> QED
  BY <1>1, <1>2, ReadWalks, NeverBegins, NoWalkKeeps, WalkTypeCorrect, UnstartedInvariant, FrontierIsBounded,
     WalkTellsTheTree, WalkRefusesExactly, PTL DEF ReadSpec, Spec

\* The names of a walk with resolutions in it are told, and lead where the walk is.
LEMMA ReadTells == ReadSpec => [](Told /\ EnteredByItsNames)
<1>1. ReadInit => Told /\ EnteredByItsNames
  <2>1. Init => Told /\ EnteredByItsNames
    BY InitTold DEF Init, EnteredByItsNames
  <2>2. NoWalk => Told /\ EnteredByItsNames
    <3> SUFFICES ASSUME NoWalk PROVE Told /\ EnteredByItsNames
      OBVIOUS
    <3>1. stack = << >> /\ yielded = << >> /\ entered = {} /\ status = "stopped"
      BY DEF NoWalk
    <3> QED BY <3>1, NothingTold DEF EnteredByItsNames
  <2> QED BY <2>1, <2>2 DEF ReadInit
<1> QED
  BY <1>1, NextTold, NextEntered, ReadWalks, WalksWhileResolving, PTL DEF ReadSpec

-----------------------------------------------------------------------------

\* The resolution keeps its types in the middle of a walk: what it is asked for is a path the
\* walk handed out.
THEOREM ReadTypes == ReadSpec => []ResolveTypeOK
<1>0. ASSUME image \in Images, path \in Seq(Component), pending = path, follow_final \in BOOLEAN,
             node = Root, descended = << >>, hops = 0, answer \in {"unasked", "resolving"}
      PROVE  ResolveTypeOK
  <2>1. Root \in Nodes /\ << >> \in Seq(Dirs) /\ 0 \in 0..MaxHops
    BY NodesAssumption, PathsAssumption, EmptySeq
  <2> QED BY <1>0, <2>1 DEF ResolveTypeOK
<1>e. << >> \in Seq(Component) /\ FALSE \in BOOLEAN
  BY EmptySeq
<1>1. ReadInit => ResolveTypeOK
  <2>1. Init /\ Unasked => ResolveTypeOK
    BY <1>0, <1>e, WalkedAssumption DEF Init, Unasked
  <2> QED BY <2>1, ResolveInitType DEF ReadInit
<1>2. TypeOK /\ ResolveTypeOK /\ [ReadNext]_readVars => ResolveTypeOK'
  <2> SUFFICES ASSUME TypeOK, ResolveTypeOK, [ReadNext]_readVars PROVE ResolveTypeOK'
    OBVIOUS
  <2>0. image' = image
    BY ReadWalks, KeepsImage
  <2>e. Root \in Nodes /\ << >> \in Seq(Dirs) /\ 0 \in 0..MaxHops /\ image' \in Images
    BY <2>0, NodesAssumption, PathsAssumption, EmptySeq DEF ResolveTypeOK
  <2>1. CASE VisitorReturns
    BY <1>e, <2>e, <2>1 DEF VisitorReturns, ResolveTypeOK
  <2>2. CASE Ask
    <3>1. yielded[Len(yielded)] \in Pending
      <4>1. yielded \in Seq(Pending) /\ yielded # << >>
        BY <2>2 DEF Ask, TypeOK
      <4>2. Len(yielded) \in Nat /\ Len(yielded) >= 1
        BY <4>1, LenProperties, EmptySeq
      <4> QED BY <4>1, <4>2, ElementOfSeq
    <3>2. path' \in Seq(Component)
      <4>1. path' \in Seq(Nat)
        BY <2>2, <3>1 DEF Ask, Pending, Paths
      <4>2. Nat \subseteq Component
        BY DEF Component
      <4> QED BY <4>1, <4>2
    <3> QED
      BY <2>e, <2>2, <3>2 DEF Ask, ResolveTypeOK
  <2>3. CASE [ResolveNext]_resolveVars
    BY <2>3, ResolveNextType
  <2> QED
    BY <2>1, <2>2, <2>3
    DEF ReadNext, ReadStep, WalkOn, Resolve, Both, ResolveNext, readVars, vars, resolveVars, call
<1> QED
  BY <1>1, <1>2, WalksWhileResolving, PTL DEF ReadSpec

\* What a resolution in the middle of a walk descended through is a way down from the root.
THEOREM ReadsWayDown == ReadSpec => []DescentIsAWayDown
<1>0. descended = << >> /\ node = Root => DescentIsAWayDown
  <2>1. Append(<< >>, Root) = <<Root>> /\ Len(<<Root>>) = 1
    OBVIOUS
  <2> QED BY <2>1 DEF DescentIsAWayDown, IsWayDown
<1>1. ReadInit => DescentIsAWayDown
  BY <1>0 DEF ReadInit, ResolveInit, Unasked
<1>2. ResolveTypeOK /\ DescentIsAWayDown /\ [ReadNext]_readVars => DescentIsAWayDown'
  <2> SUFFICES ASSUME ResolveTypeOK, DescentIsAWayDown, [ReadNext]_readVars PROVE DescentIsAWayDown'
    OBVIOUS
  <2>1. CASE VisitorReturns \/ Ask
    <3>1. descended' = << >> /\ node' = Root
      BY <2>1 DEF VisitorReturns, Ask
    <3>2. Append(<< >>, Root) = <<Root>> /\ Len(<<Root>>) = 1
      OBVIOUS
    <3> QED BY <3>1, <3>2 DEF DescentIsAWayDown, IsWayDown
  <2>2. CASE [ResolveNext]_resolveVars
    BY <2>2, NextWay
  <2> QED
    BY <2>1, <2>2 DEF ReadNext, ReadStep, WalkOn, Resolve, Both, ResolveNext, readVars, vars, resolveVars, call
<1> QED
  BY <1>1, <1>2, ReadTypes, PTL DEF ReadSpec

-----------------------------------------------------------------------------

\* The components left are the names not gone down yet, and the node is where the others lead.
GoneDown(p, left, at, way) ==
    \E k \in 0..Len(p) :
        /\ Len(left) = Len(p) - k /\ \A j \in 1..Len(left) : left[j] = p[k + j]
        /\ at = way[k + 1]

\* A visitor that asked for the name it was handed goes down by that name's own entries: no
\* link is in the middle of it, and it is not refused.
GoingDown ==
    status = "walking" /\ answer # "unasked" =>
        /\ yielded # << >> /\ path = yielded[Len(yielded)].path
        /\ (follow_final => yielded[Len(yielded)].node \notin Links) =>
               /\ answer \in {"resolving", "found", "damaged"}
               /\ answer = "found" => pending = << >>
               /\ \E way \in [1..(Len(path) + 1) -> Nodes] :
                     /\ Follows(kids, path, yielded[Len(yielded)].node, way)
                     /\ GoneDown(path, pending, node, way)

\* Asked, it has all of the path to go.
LEMMA AskGoesDown == TypeOK /\ Told /\ EnteredByItsNames /\ Ask => GoingDown'
<1> SUFFICES ASSUME TypeOK, Told, EnteredByItsNames, Ask PROVE GoingDown'
  OBVIOUS
<1> DEFINE handed == yielded[Len(yielded)]
<1>1. /\ yielded # << >> /\ path' = handed.path /\ pending' = path' /\ node' = Root
      /\ answer' = "resolving" /\ yielded' = yielded /\ kids' = kids
  BY DEF Ask, vars, kids
<1>2. yielded \in Seq(Pending) /\ Len(yielded) \in Nat /\ Len(yielded) >= 1
  BY <1>1, LenProperties, EmptySeq DEF TypeOK
<1>3. handed \in Handed
  BY <1>2 DEF Handed
<1>4. Leads(kids, handed.path, handed.node) /\ handed.path \in Paths
  <2>1. handed \in Pending
    BY <1>2, ElementOfSeq
  <2> QED BY <1>3, <2>1, HandedLeads DEF Told, Pending
<1> DEFINE p == handed.path
           n == handed.node
<1>5. PICK way \in [1..(Len(p) + 1) -> Nodes] : Follows(kids, p, n, way)
  BY <1>4 DEF Leads
<1> HIDE DEF p, n
<1>6. Len(p) \in Nat /\ way[1] = Root
  BY <1>4, <1>5 DEF Follows, Paths, p
<1>7. GoneDown(p, p, Root, way)
  <2>1. PICK k \in 0..Len(p) : k = 0
    BY <1>6
  <2>2. Len(p) = Len(p) - k /\ Root = way[k + 1] /\ \A j \in 1..Len(p) : p[j] = p[k + j]
    BY <1>6, <2>1
  <2> QED BY <2>2 DEF GoneDown
<1>8. path' = p /\ pending' = p /\ yielded'[Len(yielded')].path = p /\ yielded'[Len(yielded')].node = n
  BY <1>1 DEF p, n
<1>9. \E w \in [1..(Len(path') + 1) -> Nodes] : Follows(kids', path', n, w) /\ GoneDown(path', pending', node', w)
  BY <1>1, <1>5, <1>7, <1>8
<1> QED BY <1>1, <1>8, <1>9 DEF GoingDown

\* Where some of the path is left, the name next on it is an entry of the directory it is at,
\* and a link only at the end.
LEMMA NextName ==
    ASSUME NEW entries, NEW p \in Paths, NEW n, NEW way, NEW left \in Seq(Component), NEW at,
           Follows(entries, p, n, way), GoneDown(p, left, at, way), left # << >>
    PROVE  /\ at \in Dirs /\ Head(left) # Up /\ Head(left) \in DOMAIN entries[at]
           /\ GoneDown(p, Tail(left), entries[at][Head(left)], way)
           /\ entries[at][Head(left)] \notin Links \/ (Tail(left) = << >> /\ entries[at][Head(left)] = n)
<1>1. PICK k \in 0..Len(p) :
         /\ Len(left) = Len(p) - k /\ \A j \in 1..Len(left) : left[j] = p[k + j]
         /\ at = way[k + 1]
  BY DEF GoneDown
<1>2. /\ Len(p) \in Nat /\ Len(left) \in Nat /\ Len(left) >= 1 /\ k \in Nat
      /\ \A j \in 1..Len(p) : p[j] \in Nat
  <2>1. Len(p) \in Nat /\ \A j \in 1..Len(p) : p[j] \in Nat
    BY LenProperties, ElementOfSeq DEF Paths
  <2>2. Len(left) \in Nat /\ Len(left) >= 1
    BY LenProperties, EmptySeq
  <2> QED BY <1>1, <2>1, <2>2
<1>3. way[Len(p) + 1] = n
      /\ \A j \in 1..Len(p) :
            way[j] \in Dirs /\ p[j] \in DOMAIN entries[way[j]] /\ entries[way[j]][p[j]] = way[j + 1]
  BY DEF Follows
<1>4. k + 1 \in 1..Len(p) /\ 1 \in 1..Len(left)
  BY <1>1, <1>2
<1>5. Head(left) = p[k + 1]
  BY <1>1, <1>4
<1>6. at \in Dirs /\ Head(left) \in DOMAIN entries[at] /\ entries[at][Head(left)] = way[(k + 1) + 1]
  BY <1>1, <1>3, <1>4, <1>5
<1>7. Head(left) # Up
  BY <1>2, <1>4, <1>5, NodesAssumption
<1> DEFINE rest == Tail(left)
<1>8. rest \in Seq(Component) /\ Len(rest) = Len(left) - 1 /\ \A j \in 1..Len(rest) : rest[j] = left[j + 1]
  BY <1>2, HeadTailProperties
<1> HIDE DEF rest
<1>9. GoneDown(p, rest, way[(k + 1) + 1], way)
  <2>1. k + 1 \in 0..Len(p) /\ Len(rest) = Len(p) - (k + 1)
    BY <1>1, <1>2, <1>4, <1>8
  <2>2. ASSUME NEW j \in 1..Len(rest) PROVE rest[j] = p[(k + 1) + j]
    <3>1. j + 1 \in 1..Len(left) /\ k + (j + 1) = (k + 1) + j
      BY <1>2, <1>8
    <3>2. rest[j] = left[j + 1] /\ left[j + 1] = p[k + (j + 1)]
      BY <1>1, <1>8, <3>1
    <3> QED BY <3>1, <3>2
  <2> QED BY <2>1, <2>2 DEF GoneDown
<1>10. way[(k + 1) + 1] \notin Links \/ (rest = << >> /\ way[(k + 1) + 1] = n)
  <2>1. CASE k + 1 = Len(p)
    <3>1. Len(rest) = 0
      BY <1>1, <1>2, <1>8, <2>1
    <3> QED BY <1>3, <1>8, <2>1, <3>1, EmptySeq
  <2>2. CASE k + 1 # Len(p)
    <3>1. (k + 1) + 1 \in 1..Len(p)
      BY <1>2, <1>4, <2>2
    <3>2. way[(k + 1) + 1] \in Dirs
      BY <1>3, <3>1
    <3> QED BY <3>2, NodesAssumption
  <2> QED BY <2>1, <2>2
<1> QED BY <1>6, <1>7, <1>9, <1>10 DEF rest

\* A step of the resolution goes down by that entry, or ends where nothing is left.
LEMMA ResolveGoesDown ==
    TypeOK /\ ResolveTypeOK /\ Told /\ GoingDown /\ ResolveNext /\ UNCHANGED vars => GoingDown'
<1> SUFFICES ASSUME TypeOK, ResolveTypeOK, Told, GoingDown, ResolveNext, UNCHANGED vars,
                    status = "walking", answer' # "unasked"
             PROVE  GoingDown'
  BY DEF GoingDown, vars
<1> DEFINE handed == yielded[Len(yielded)]
           n == handed.node
<1>1. /\ UNCHANGED <<status, yielded, kids, path, follow_final>> /\ answer # "unasked"
  <2>1. UNCHANGED <<status, yielded, kids>>
    BY DEF vars, kids
  <2>2. UNCHANGED <<path, follow_final>>
    BY DEF ResolveNext, ResolveStep, LookupFails, Answered, NotADirectory, Ascend, Absent, LinkRefused, Expand,
           Enter, Reach, Return, resolveVars, call
  <2>3. answer # "unasked"
    BY DEF ResolveNext, ResolveStep, LookupFails, Answered, NotADirectory, Ascend, Absent, LinkRefused, Expand,
           Enter, Reach, Naming, Found, Taking, resolveVars
  <2> QED BY <2>1, <2>2, <2>3
<1>2. yielded # << >> /\ path = handed.path
  BY <1>1 DEF GoingDown
<1>3. path \in Paths
  <2>1. yielded \in Seq(Pending) /\ Len(yielded) \in Nat /\ Len(yielded) >= 1
    BY <1>2, LenProperties, EmptySeq DEF TypeOK
  <2>2. handed \in Pending
    BY <2>1, ElementOfSeq
  <2> QED BY <1>2, <2>2 DEF Pending
<1> HIDE DEF n
<1>4. CASE ~(follow_final => n \notin Links)
  BY <1>1, <1>2, <1>4 DEF GoingDown, n
<1>5. CASE follow_final => n \notin Links
  <2>1. /\ answer \in {"resolving", "found", "damaged"}
        /\ answer = "found" => pending = << >>
        /\ \E way \in [1..(Len(path) + 1) -> Nodes] : Follows(kids, path, n, way) /\ GoneDown(path, pending, node, way)
    BY <1>1, <1>5 DEF GoingDown, n
  <2>2. PICK way \in [1..(Len(path) + 1) -> Nodes] :
           Follows(kids, path, n, way) /\ GoneDown(path, pending, node, way)
    BY <2>1
  <2>3. ASSUME answer' \in {"resolving", "found", "damaged"}, answer' = "found" => pending' = << >>,
               GoneDown(path, pending', node', way)
        PROVE  GoingDown'
    <3>1. \E w \in [1..(Len(path') + 1) -> Nodes] :
             Follows(kids', path', n, w) /\ GoneDown(path', pending', node', w)
      BY <1>1, <2>2, <2>3
    <3> QED BY <1>1, <1>2, <2>3, <3>1 DEF GoingDown, n
  <2>4. CASE answer # "resolving"
    <3>1. Answered
      BY <2>4 DEF ResolveNext, ResolveStep, LookupFails, NotADirectory, Ascend, Absent, LinkRefused, Expand, Enter,
             Reach, Naming, Found, Taking
    <3> QED BY <2>1, <2>2, <2>3, <3>1 DEF Answered, resolveVars
  <2>5. CASE answer = "resolving" /\ (Reach \/ LookupFails)
    <3>1. UNCHANGED <<pending, node>> /\ answer' \in {"found", "damaged"} /\ (answer' = "found" => pending = << >>)
      BY <2>5 DEF Reach, LookupFails, Return
    <3> QED BY <2>2, <2>3, <3>1
  <2>6. CASE answer = "resolving" /\ ~Reach /\ ~LookupFails
    <3>1. NotADirectory \/ Ascend \/ Absent \/ LinkRefused \/ Expand \/ Enter
      BY <2>6 DEF ResolveNext, ResolveStep, Answered
    <3>2. pending # << >>
      BY <3>1 DEF NotADirectory, Ascend, Absent, LinkRefused, Expand, Enter, Found, Naming, Taking
    <3>3. /\ node \in Dirs /\ Part # Up /\ Part \in DOMAIN Held
          /\ GoneDown(path, Tail(pending), Entry, way)
          /\ Entry \notin Links \/ (Tail(pending) = << >> /\ Entry = n)
      <4>1. pending \in Seq(Component)
        BY DEF ResolveTypeOK
      <4>2. /\ node \in Dirs /\ Head(pending) # Up /\ Head(pending) \in DOMAIN kids[node]
            /\ GoneDown(path, Tail(pending), kids[node][Head(pending)], way)
            /\ kids[node][Head(pending)] \notin Links \/ (Tail(pending) = << >> /\ kids[node][Head(pending)] = n)
        BY <1>3, <2>2, <3>2, <4>1, NextName
      <4> QED BY <4>2 DEF Part, Held, Entry, kids
    <3>4. ~Following
      BY <1>5, <3>3 DEF Following
    <3>5. Enter
      BY <3>1, <3>3, <3>4 DEF NotADirectory, Ascend, Absent, LinkRefused, Expand, Found, Naming
    <3>6. pending' = Tail(pending) /\ node' = Entry /\ answer' = "resolving"
      BY <2>6, <3>5 DEF Enter
    <3> QED BY <2>3, <3>3, <3>6
  <2> QED BY <2>4, <2>5, <2>6
<1> QED BY <1>4, <1>5

\* walk.rs and resolve.rs: whatever graph the image is, a path the walk hands its visitor is one
\* the reader resolves to the very node the walk is at, unless it is a link the visitor follows
\* or a read fails.
THEOREM WalkedPathsAreTheirs == ReadSpec => []WalkedPathsResolve
<1>1. ReadInit => GoingDown
  BY DEF ReadInit, NoWalk, Unasked, GoingDown
<1>2. TypeOK /\ ResolveTypeOK /\ Told /\ EnteredByItsNames /\ GoingDown /\ [ReadNext]_readVars => GoingDown'
  <2> SUFFICES ASSUME TypeOK, ResolveTypeOK, Told, EnteredByItsNames, GoingDown, [ReadNext]_readVars
               PROVE  GoingDown'
    OBVIOUS
  <2>1. CASE VisitorReturns
    BY <2>1 DEF VisitorReturns, GoingDown
  <2>2. CASE Ask
    BY <2>2, AskGoesDown
  <2>3. CASE ResolveNext /\ UNCHANGED vars
    BY <2>3, ResolveGoesDown
  <2>4. CASE UNCHANGED readVars
    BY <2>4 DEF readVars, vars, GoingDown, kids
  <2> QED
    BY <2>1, <2>2, <2>3, <2>4 DEF ReadNext, ReadStep, WalkOn, Resolve, Both, ResolveNext
<1>3. TypeOK /\ ResolveTypeOK /\ GoingDown => WalkedPathsResolve
  <2> SUFFICES ASSUME TypeOK, ResolveTypeOK, GoingDown, status = "walking",
                      answer \notin {"unasked", "resolving", "damaged"},
                      follow_final => yielded[Len(yielded)].node \notin Links
               PROVE  answer = "found" /\ node = yielded[Len(yielded)].node
    BY DEF WalkedPathsResolve
  <2> DEFINE n == yielded[Len(yielded)].node
  <2>1. answer = "found" /\ pending = << >> /\ path = yielded[Len(yielded)].path /\ yielded # << >>
    BY DEF GoingDown
  <2>2. PICK way \in [1..(Len(path) + 1) -> Nodes] :
           Follows(kids, path, n, way) /\ GoneDown(path, pending, node, way)
    BY DEF GoingDown
  <2>3. PICK k \in 0..Len(path) : Len(pending) = Len(path) - k /\ node = way[k + 1]
    BY <2>2 DEF GoneDown
  <2>4. Len(pending) = 0 /\ Len(path) \in Nat
    BY <2>1, LenProperties DEF ResolveTypeOK
  <2>5. k = Len(path)
    BY <2>3, <2>4
  <2>6. way[Len(path) + 1] = n
    BY <2>2 DEF Follows
  <2> QED BY <2>1, <2>3, <2>5, <2>6
<1> QED
  BY <1>1, <1>2, <1>3, WalksWhileResolving, ReadTypes, ReadTells, PTL DEF ReadSpec

-----------------------------------------------------------------------------
\* What a path means

Noways == {"not_a_directory", "not_found", "too_many_links"}
Answers(spent) == {Place(w, t) : w \in Ways, t \in spent..MaxHops} \cup {Failure(h) : h \in Noways}

\* A question is simpler that has fewer links left to follow, or as many and fewer components.
Simpler(x, y) == x.spent > y.spent \/ (x.spent = y.spent /\ Len(x.parts) < Len(y.parts))

\* The parts of a question.
LEMMA QuestionParts ==
    ASSUME NEW q \in Questions
    PROVE  /\ q.way \in Ways /\ q.way \in Seq(Nodes) /\ Len(q.way) \in Nat /\ Len(q.way) >= 1
           /\ End(q.way) \in Nodes /\ q.spent \in 0..MaxHops /\ q.spent \in Nat
           /\ q.parts \in Seq(Component) /\ Len(q.parts) \in Nat /\ q.follow \in BOOLEAN
<1>1. q.way \in Ways /\ q.spent \in 0..MaxHops /\ q.parts \in Seq(Component) /\ q.follow \in BOOLEAN
  BY DEF Questions
<1>2. q.way \in Seq(Nodes) /\ q.way # << >>
  BY <1>1 DEF Ways
<1>3. Len(q.way) \in Nat /\ Len(q.way) >= 1 /\ Len(q.parts) \in Nat
  BY <1>1, <1>2, LenProperties, EmptySeq
<1>4. End(q.way) \in Nodes
  BY <1>2, <1>3, ElementOfSeq DEF End
<1> QED BY <1>1, <1>2, <1>3, <1>4, PathsAssumption

\* A question has the parts it is made of.
LEMMA QuestionIs ==
    ASSUME NEW w \in Ways, NEW s \in 0..MaxHops, NEW parts \in Seq(Component), NEW follow \in BOOLEAN
    PROVE  /\ Question(w, s, parts, follow) \in Questions
           /\ Question(w, s, parts, follow).way = w /\ Question(w, s, parts, follow).spent = s
           /\ Question(w, s, parts, follow).parts = parts /\ Question(w, s, parts, follow).follow = follow
BY DEF Question, Questions

\* So has a place.
LEMMA PlaceIs ==
    ASSUME NEW w, NEW s
    PROVE  Place(w, s).how = "found" /\ Place(w, s).way = w /\ Place(w, s).spent = s
BY DEF Place

\* An answer is a place or a refusal, and a place is had at no fewer links.
LEMMA AnswerIs ==
    ASSUME NEW s \in Nat, NEW a \in Answers(s), a.how = "found"
    PROVE  a.way \in Ways /\ a.spent \in s..MaxHops /\ a = Place(a.way, a.spent)
<1>1. CASE a \in {Failure(h) : h \in Noways}
  <2>1. PICK h \in Noways : a = Failure(h)
    BY <1>1
  <2> QED BY <2>1 DEF Failure, Noways
<1>2. CASE a \in {Place(w, t) : w \in Ways, t \in s..MaxHops}
  <2>1. PICK w \in Ways, t \in s..MaxHops : a = Place(w, t)
    BY <1>2
  <2> QED BY <2>1, PlaceIs
<1> QED BY <1>1, <1>2 DEF Answers

\* With more links followed fewer answers are left.
LEMMA FewerAnswers ==
    ASSUME NEW s \in Nat, NEW t \in Nat, s <= t
    PROVE  Answers(t) \subseteq Answers(s)
<1>1. t..MaxHops \subseteq s..MaxHops
  BY PathsAssumption
<1> QED BY <1>1 DEF Answers

\* A set of naturals has a least one.
LEMMA LeastNat ==
    ASSUME NEW T \in SUBSET Nat, T # {}
    PROVE  \E x \in T : \A y \in T : x <= y
<1>1. PICK x \in T : \A y \in T : ~(<<y, x>> \in OpToRel(<, Nat))
  BY NatLessThanWellFounded, WFMin
<1>2. \A y \in T : ~(y < x)
  BY <1>1 DEF OpToRel
<1> QED
  BY <1>2

\* Of any questions one is the simplest.
LEMMA SimplestExists ==
    ASSUME NEW T \in SUBSET Questions, T # {}
    PROVE  \E x \in T : \A y \in T : ~Simpler(y, x)
<1> DEFINE Lefts == {MaxHops - x.spent : x \in T}
<1>1. Lefts \in SUBSET Nat /\ Lefts # {}
  <2>1. ASSUME NEW x \in T PROVE MaxHops - x.spent \in Nat
    <3>1. x.spent \in 0..MaxHops
      BY QuestionParts
    <3> QED BY <3>1, PathsAssumption
  <2> QED BY <2>1
<1>2. PICK low \in Lefts : \A y \in Lefts : low <= y
  <2> HIDE DEF Lefts
  <2> QED BY <1>1, LeastNat
<1> DEFINE Lasts == {x \in T : MaxHops - x.spent = low}
           Lengths == {Len(x.parts) : x \in Lasts}
<1>3. Lengths \in SUBSET Nat /\ Lengths # {}
  <2>1. ASSUME NEW x \in T PROVE Len(x.parts) \in Nat
    BY QuestionParts
  <2>2. \E x \in T : MaxHops - x.spent = low
    OBVIOUS
  <2> QED BY <2>1, <2>2
<1>4. PICK short \in Lengths : \A y \in Lengths : short <= y
  <2> HIDE DEF Lengths
  <2> QED BY <1>3, LeastNat
<1>5. PICK x \in Lasts : Len(x.parts) = short
  OBVIOUS
<1>6. ASSUME NEW y \in T PROVE ~Simpler(y, x)
  <2>1. y.spent \in Nat /\ x.spent \in Nat /\ Len(y.parts) \in Nat /\ Len(x.parts) \in Nat /\ MaxHops \in Nat
    BY QuestionParts, PathsAssumption
  <2>2. MaxHops - x.spent <= MaxHops - y.spent
    BY <1>2, <1>5
  <2>3. ~(y.spent > x.spent)
    BY <2>1, <2>2
  <2>4. y.spent = x.spent => Len(x.parts) <= Len(y.parts)
    BY <1>4, <1>5
  <2> QED BY <2>1, <2>3, <2>4 DEF Simpler
<1> QED BY <1>5, <1>6

\* The last node of a way goes back by the one above it, if there is one.
LEMMA AboveIs ==
    ASSUME NEW w \in Ways
    PROVE  Above(w) \in Ways
<1>1. w \in Seq(Nodes) /\ w # << >> /\ Len(w) \in Nat /\ Len(w) >= 1
  BY LenProperties, EmptySeq DEF Ways
<1>2. CASE Len(w) = 1
  BY <1>2 DEF Above
<1>3. CASE Len(w) # 1
  <2>1. PICK n \in Nat : n = Len(w)
    BY <1>1
  <2>4. n - 1 \in 1..n /\ n - 1 >= 1 /\ n - 1 \in Nat /\ n - 1 # 0
    BY <1>1, <1>3, <2>1
  <2>2. SubSeq(w, 1, n - 1) \in Seq(Nodes) /\ Len(SubSeq(w, 1, n - 1)) = n - 1
    <3>1. \A i \in 1..(n - 1) : w[i] \in Nodes
      BY <1>1, <2>1, <2>4, ElementOfSeq
    <3> QED BY <1>1, <2>1, <2>4, <3>1, SubSeqProperties
  <2>3. SubSeq(w, 1, n - 1) # << >>
    BY <2>2, <2>4, EmptySeq
  <2> QED BY <1>3, <2>1, <2>2, <2>3 DEF Above, Ways
<1> QED BY <1>2, <1>3

\* Where the first component leads somewhere it is an ascent or an entry of a directory, and a
\* link only with hops left.
LEMMA Somewhere ==
    ASSUME NEW img \in Images, NEW q \in Questions, q.parts # << >>, Nowhere(img, q) = "none"
    PROVE  /\ End(q.way) \in Dirs
           /\ Head(q.parts) # Up => Meant(img, q) \in Nodes
           /\ ThroughLink(img, q) =>
                  /\ Behind(img, q) \in Questions /\ Behind(img, q).spent = q.spent + 1
                  /\ Simpler(Behind(img, q), q)
           /\ ~ThroughLink(img, q) => OneOn(img, q) \in Answers(q.spent)
<1>0. img \in [entries : [Dirs -> Seq(Nodes)], target : [Links -> Target]]
  BY ImagesAssumption
<1>1. End(q.way) \in Dirs /\ (Head(q.parts) # Up => Head(q.parts) \in DOMAIN Holding(img, q))
  BY DEF Nowhere
<1>2. Head(q.parts) # Up => Meant(img, q) \in Nodes
  <2>1. Holding(img, q) \in Seq(Nodes)
    BY <1>0, <1>1 DEF Holding
  <2> QED BY <1>1, <2>1 DEF Meant
<1>p. q.way \in Ways /\ q.way \in Seq(Nodes) /\ q.spent \in 0..MaxHops /\ MaxHops \in Nat
  BY QuestionParts, PathsAssumption
<1>3. ASSUME ThroughLink(img, q)
      PROVE  /\ Behind(img, q) \in Questions /\ Behind(img, q).spent = q.spent + 1
             /\ Simpler(Behind(img, q), q)
  <2>1. q.spent # MaxHops
    <3> SUFFICES ASSUME q.spent = MaxHops PROVE FALSE
      OBVIOUS
    <3> QED BY <1>1, <1>3 DEF Nowhere
  <2>2. Aim(img, q) \in Target
    BY <1>0, <1>3 DEF Aim, ThroughLink
  <2>3. Aim(img, q).parts \in Seq(Component)
    BY <2>2 DEF Target
  <2>4. q.spent + 1 \in 0..MaxHops
    BY <1>p, <2>1
  <2>5. <<Root>> \in Ways
    BY NodesAssumption DEF Ways
  <2> DEFINE from == IF Aim(img, q).is = "absolute" THEN <<Root>> ELSE q.way
  <2>6. from \in Ways
    BY <1>p, <2>5
  <2> HIDE DEF from
  <2>7. Question(from, q.spent + 1, Aim(img, q).parts, TRUE) \in Questions
        /\ Question(from, q.spent + 1, Aim(img, q).parts, TRUE).spent = q.spent + 1
    BY <2>3, <2>4, <2>6, QuestionIs
  <2>8. Behind(img, q) \in Questions /\ Behind(img, q).spent = q.spent + 1
    BY <2>7 DEF Behind, from
  <2>9. q.spent + 1 > q.spent
    BY <1>p
  <2> QED BY <2>8, <2>9 DEF Simpler
<1>4. ASSUME ~ThroughLink(img, q) PROVE OneOn(img, q) \in Answers(q.spent)
  <2> DEFINE to == IF Head(q.parts) = Up THEN Above(q.way) ELSE Append(q.way, Meant(img, q))
  <2>1. ASSUME Head(q.parts) = Up PROVE to \in Ways
    <3>1. Above(q.way) \in Ways
      BY <1>p, AboveIs
    <3> QED BY <2>1, <3>1
  <2>2. ASSUME Head(q.parts) # Up PROVE to \in Ways
    <3>1. Meant(img, q) \in Nodes
      BY <1>2, <2>2
    <3>2. Append(q.way, Meant(img, q)) \in Seq(Nodes) /\ Append(q.way, Meant(img, q)) # << >>
      BY <1>p, <3>1
    <3>3. Append(q.way, Meant(img, q)) \in Ways
      BY <3>2 DEF Ways
    <3> QED BY <2>2, <3>3
  <2>3. to \in Ways
    BY <2>1, <2>2
  <2> HIDE DEF to
  <2>4. q.spent \in q.spent..MaxHops
    BY <1>p
  <2>5. Place(to, q.spent) \in Answers(q.spent)
    BY <2>3, <2>4 DEF Answers
  <2> QED BY <2>5 DEF OneOn, to
<1> QED BY <1>1, <1>2, <1>3, <1>4

\* What is left after a place is simpler.
LEMMA OnwardIs ==
    ASSUME NEW q \in Questions, q.parts # << >>, NEW a \in Answers(q.spent), a.how = "found"
    PROVE  Onward(q, a) \in Questions /\ Simpler(Onward(q, a), q) /\ Onward(q, a).spent = a.spent
<1>1. q.spent \in Nat /\ q.parts \in Seq(Component) /\ q.follow \in BOOLEAN /\ Len(q.parts) \in Nat /\ MaxHops \in Nat
  BY QuestionParts, PathsAssumption
<1>2. a.way \in Ways /\ a.spent \in q.spent..MaxHops
  BY <1>1, AnswerIs
<1>3. Tail(q.parts) \in Seq(Component) /\ Len(Tail(q.parts)) = Len(q.parts) - 1
  BY <1>1, HeadTailProperties
<1>4. a.spent \in 0..MaxHops
  BY <1>1, <1>2
<1>5. /\ Onward(q, a) \in Questions /\ Onward(q, a).spent = a.spent /\ Onward(q, a).parts = Tail(q.parts)
  <2> DEFINE rest == Tail(q.parts)
  <2>2. rest \in Seq(Component)
    BY <1>3
  <2> HIDE DEF rest
  <2>1. /\ Question(a.way, a.spent, rest, q.follow) \in Questions
        /\ Question(a.way, a.spent, rest, q.follow).spent = a.spent
        /\ Question(a.way, a.spent, rest, q.follow).parts = rest
    BY <1>1, <1>2, <1>4, <2>2, QuestionIs
  <2> QED BY <2>1 DEF Onward, rest
<1>6. a.spent > q.spent \/ (a.spent = q.spent /\ Len(Tail(q.parts)) < Len(q.parts))
  BY <1>1, <1>2, <1>3
<1> QED BY <1>5, <1>6 DEF Simpler

-----------------------------------------------------------------------------

\* The questions that answering q asks are in S.
Asks(img, q, meaning, S) ==
    q.parts # << >> /\ Nowhere(img, q) = "none" =>
        /\ ThroughLink(img, q) => Behind(img, q) \in S
        /\ FirstPlace(img, q, meaning).how = "found" => Onward(q, FirstPlace(img, q, meaning)) \in S

\* What an answer is depends on those alone.
LEMMA AsksAlone ==
    ASSUME NEW img, NEW q, NEW m, NEW k, NEW S, Asks(img, q, m, S), \A z \in S : k[z] = m[z]
    PROVE  Asks(img, q, k, S) /\ Says(img, q, k) = Says(img, q, m)
<1>1. CASE q.parts = << >> \/ Nowhere(img, q) # "none"
  BY <1>1 DEF Asks, Says
<1>2. CASE q.parts # << >> /\ Nowhere(img, q) = "none"
  <2>1. FirstPlace(img, q, k) = FirstPlace(img, q, m)
    BY <1>2 DEF Asks, FirstPlace
  <2>2. Asks(img, q, k, S)
    BY <1>2, <2>1 DEF Asks
  <2>3. Says(img, q, k) = Says(img, q, m)
    <3> DEFINE first == FirstPlace(img, q, m)
    <3>1. first.how = "found" => k[Onward(q, first)] = m[Onward(q, first)]
      BY <1>2 DEF Asks
    <3>2. /\ Says(img, q, k) = IF first.how = "found" THEN k[Onward(q, first)] ELSE first
          /\ Says(img, q, m) = IF first.how = "found" THEN m[Onward(q, first)] ELSE first
      BY <1>2, <2>1 DEF Says
    <3> HIDE DEF first
    <3> QED BY <3>1, <3>2
  <2> QED BY <2>2, <2>3
<1> QED BY <1>1, <1>2

\* The first place is an answer if that of a link is.
LEMMA FirstIs ==
    ASSUME NEW img \in Images, NEW q \in Questions, NEW m, q.parts # << >>, Nowhere(img, q) = "none",
           ThroughLink(img, q) => m[Behind(img, q)] \in Answers(Behind(img, q).spent)
    PROVE  FirstPlace(img, q, m) \in Answers(q.spent)
<1>1. CASE ThroughLink(img, q)
  <2>1. Behind(img, q).spent = q.spent + 1
    BY <1>1, Somewhere
  <2>2. q.spent \in Nat /\ q.spent + 1 \in Nat /\ q.spent <= q.spent + 1
    BY QuestionParts
  <2>3. m[Behind(img, q)] \in Answers(q.spent + 1)
    BY <1>1, <2>1
  <2>4. m[Behind(img, q)] \in Answers(q.spent)
    BY <2>2, <2>3, FewerAnswers
  <2> QED BY <1>1, <2>4 DEF FirstPlace
<1>2. CASE ~ThroughLink(img, q)
  BY <1>2, Somewhere DEF FirstPlace
<1> QED BY <1>1, <1>2

\* Answers to all that is simpler make an answer.
LEMMA SimplerAnswers ==
    ASSUME NEW img \in Images, NEW q \in Questions, NEW m, NEW S,
           \A z \in Questions : Simpler(z, q) => z \in S /\ m[z] \in Answers(z.spent)
    PROVE  Asks(img, q, m, S) /\ Says(img, q, m) \in Answers(q.spent)
<1>0. q.way \in Ways /\ q.spent \in q.spent..MaxHops /\ q.spent \in Nat
  BY QuestionParts
<1>1. CASE q.parts = << >>
  BY <1>0, <1>1 DEF Asks, Says, Answers
<1>2. CASE q.parts # << >> /\ Nowhere(img, q) # "none"
  <2>1. Nowhere(img, q) \in Noways
    BY <1>2 DEF Nowhere, Noways
  <2> QED BY <1>2, <2>1 DEF Asks, Says, Answers
<1>3. CASE q.parts # << >> /\ Nowhere(img, q) = "none"
  <2> DEFINE first == FirstPlace(img, q, m)
  <2>1. ThroughLink(img, q) => Behind(img, q) \in S /\ m[Behind(img, q)] \in Answers(Behind(img, q).spent)
    BY <1>3, Somewhere
  <2>2. first \in Answers(q.spent)
    BY <1>3, <2>1, FirstIs
  <2>3. Says(img, q, m) = IF first.how = "found" THEN m[Onward(q, first)] ELSE first
    BY <1>3 DEF Says
  <2>4. Asks(img, q, m, S) <=> (first.how = "found" => Onward(q, first) \in S)
    BY <1>3, <2>1 DEF Asks
  <2> HIDE DEF first
  <2>5. CASE first.how # "found"
    BY <2>2, <2>3, <2>4, <2>5
  <2>6. CASE first.how = "found"
    <3>1. Onward(q, first) \in Questions /\ Simpler(Onward(q, first), q) /\ Onward(q, first).spent = first.spent
      BY <1>3, <2>2, <2>6, OnwardIs
    <3>2. Onward(q, first) \in S /\ m[Onward(q, first)] \in Answers(first.spent)
      BY <3>1
    <3>3. first.spent \in q.spent..MaxHops
      BY <1>0, <2>2, <2>6, AnswerIs
    <3>4. first.spent \in Nat /\ q.spent <= first.spent
      BY <1>0, <3>3, PathsAssumption
    <3>5. m[Onward(q, first)] \in Answers(q.spent)
      BY <1>0, <3>2, <3>4, FewerAnswers
    <3> QED BY <2>3, <2>4, <2>6, <3>2, <3>5
  <2> QED BY <2>5, <2>6
<1> QED BY <1>1, <1>2, <1>3

\* A part of the meaning: some questions with the answers of each and of all it asks.
PartOf(img, S, m) ==
    /\ S \subseteq Questions
    /\ \A z \in S : m[z] \in Answers(z.spent) /\ Asks(img, z, m, S) /\ m[z] = Says(img, z, m)

\* Two parts agree where both answer.
LEMMA PartsAgree ==
    ASSUME NEW img \in Images, NEW S, NEW g, NEW T, NEW k, PartOf(img, S, g), PartOf(img, T, k)
    PROVE  \A z \in S \cap T : g[z] = k[z]
<1> DEFINE Differ == {z \in S \cap T : g[z] # k[z]}
<1> SUFFICES ASSUME Differ # {} PROVE FALSE
  OBVIOUS
<1>1. Differ \in SUBSET Questions
  BY DEF PartOf
<1>2. PICK q \in Differ : \A z \in Differ : ~Simpler(z, q)
  <2> HIDE DEF Differ
  <2> QED BY <1>1, SimplestExists
<1>3. q \in Questions /\ q \in S /\ q \in T /\ g[q] # k[q]
      /\ g[q] = Says(img, q, g) /\ k[q] = Says(img, q, k) /\ Asks(img, q, g, S) /\ Asks(img, q, k, T)
  BY <1>1 DEF PartOf
<1>4. \A z \in S \cap T : Simpler(z, q) => g[z] = k[z]
  BY <1>2
<1> HIDE DEF Differ
<1>5. CASE q.parts = << >> \/ Nowhere(img, q) # "none"
  BY <1>3, <1>5 DEF Says
<1>6. CASE q.parts # << >> /\ Nowhere(img, q) = "none"
  <2>1. ThroughLink(img, q) => /\ Behind(img, q) \in S /\ Behind(img, q) \in T
                               /\ Simpler(Behind(img, q), q)
    BY <1>3, <1>6, Somewhere DEF Asks
  <2>2. ThroughLink(img, q) => g[Behind(img, q)] = k[Behind(img, q)]
    BY <1>4, <2>1
  <2> DEFINE first == FirstPlace(img, q, g)
  <2>3. FirstPlace(img, q, k) = first
    BY <2>2 DEF FirstPlace
  <2>4. ThroughLink(img, q) => g[Behind(img, q)] \in Answers(Behind(img, q).spent)
    BY <2>1 DEF PartOf
  <2>5. first \in Answers(q.spent)
    BY <1>3, <1>6, <2>4, FirstIs
  <2>6. first.how = "found" => Onward(q, first) \in S /\ Onward(q, first) \in T
    BY <1>3, <1>6, <2>3 DEF Asks
  <2>7. /\ g[q] = IF first.how = "found" THEN g[Onward(q, first)] ELSE first
        /\ k[q] = IF first.how = "found" THEN k[Onward(q, first)] ELSE first
    BY <1>3, <1>6, <2>3 DEF Says
  <2> HIDE DEF first
  <2>8. first.how = "found" => Simpler(Onward(q, first), q)
    BY <1>3, <1>6, <2>5, OnwardIs
  <2>9. first.how = "found" => g[Onward(q, first)] = k[Onward(q, first)]
    BY <1>4, <2>6, <2>8
  <2> QED BY <1>3, <2>7, <2>9
<1> QED BY <1>5, <1>6

\* What every part says is a part, and it answers every question.
LEMMA MeaningExists ==
    ASSUME NEW img \in Images
    PROVE  \E m : m = [q \in Questions |-> Says(img, q, m)]
<1> DEFINE Known == {z \in Questions : \E S, g : PartOf(img, S, g) /\ z \in S}
           m == [z \in Known |-> CHOOSE r : \E S, g : PartOf(img, S, g) /\ z \in S /\ r = g[z]]
<1>1. ASSUME NEW S, NEW g, PartOf(img, S, g)
      PROVE  S \subseteq Known /\ \A z \in S : m[z] = g[z]
  <2>1. S \subseteq Known
    BY <1>1 DEF PartOf
  <2>2. ASSUME NEW z \in S PROVE m[z] = g[z]
    <3>1. PICK r : r = (CHOOSE x : \E T, k : PartOf(img, T, k) /\ z \in T /\ x = k[z])
      OBVIOUS
    <3>2. \E T, k : PartOf(img, T, k) /\ z \in T /\ r = k[z]
      <4> DEFINE P(x) == \E T, k : PartOf(img, T, k) /\ z \in T /\ x = k[z]
      <4>1. P(g[z])
        BY <1>1
      <4>2. r = CHOOSE x : P(x)
        BY <3>1
      <4> HIDE DEF P
      <4>3. P(r)
        BY <4>1, <4>2
      <4> QED BY <4>3 DEF P
    <3>3. PICK T, k : PartOf(img, T, k) /\ z \in T /\ r = k[z]
      BY <3>2
    <3>4. k[z] = g[z]
      BY <1>1, <3>3, PartsAgree
    <3>5. m[z] = r
      BY <2>1, <3>1
    <3> QED BY <3>3, <3>4, <3>5
  <2> QED BY <2>1, <2>2
<1>k. \A z \in Known : z \in Questions /\ \E S, g : PartOf(img, S, g) /\ z \in S
  OBVIOUS
<1>d. m = [z \in Known |-> m[z]]
  OBVIOUS
<1>q. \A z \in Questions : (\E S, g : PartOf(img, S, g) /\ z \in S) => z \in Known
  OBVIOUS
<1> HIDE DEF m, Known
<1>2. PartOf(img, Known, m)
  <2>1. ASSUME NEW z \in Known
        PROVE  m[z] \in Answers(z.spent) /\ Asks(img, z, m, Known) /\ m[z] = Says(img, z, m)
    <3>1. PICK S, g : PartOf(img, S, g) /\ z \in S
      BY <1>k
    <3>2. S \subseteq Known /\ \A y \in S : m[y] = g[y]
      BY <1>1, <3>1
    <3>3. g[z] \in Answers(z.spent) /\ Asks(img, z, g, S) /\ g[z] = Says(img, z, g)
      BY <3>1 DEF PartOf
    <3>4. Asks(img, z, m, S) /\ Says(img, z, m) = Says(img, z, g)
      BY <3>2, <3>3, AsksAlone
    <3>5. Asks(img, z, m, Known)
      BY <3>2, <3>4 DEF Asks
    <3> QED BY <3>1, <3>2, <3>3, <3>4, <3>5
  <2> QED BY <1>k, <2>1 DEF PartOf
<1>3. Known = Questions
  <2> SUFFICES ASSUME Questions \ Known # {} PROVE FALSE
    BY <1>k
  <2>1. PICK q \in Questions \ Known : \A z \in Questions \ Known : ~Simpler(z, q)
    BY SimplestExists
  <2>2. \A z \in Questions : Simpler(z, q) => z \in Known /\ m[z] \in Answers(z.spent)
    BY <1>2, <2>1 DEF PartOf
  <2>3. Asks(img, q, m, Known) /\ Says(img, q, m) \in Answers(q.spent)
    BY <2>1, <2>2, SimplerAnswers
  <2> DEFINE more == Known \cup {q}
             wider == [z \in more |-> IF z = q THEN Says(img, q, m) ELSE m[z]]
  <2>4. wider[q] = Says(img, q, m) /\ \A z \in Known : wider[z] = m[z]
    BY <2>1
  <2> HIDE DEF wider
  <2>5. ASSUME NEW z \in more, Asks(img, z, m, Known), Says(img, z, m) = wider[z]
        PROVE  Asks(img, z, wider, more) /\ wider[z] = Says(img, z, wider)
    <3>1. Asks(img, z, wider, Known) /\ Says(img, z, wider) = Says(img, z, m)
      BY <2>4, <2>5, AsksAlone
    <3> QED BY <2>5, <3>1 DEF Asks
  <2>6. ASSUME NEW z \in more
        PROVE  /\ z \in Questions /\ wider[z] \in Answers(z.spent)
               /\ Asks(img, z, m, Known) /\ Says(img, z, m) = wider[z]
    <3>1. CASE z = q
      BY <2>1, <2>3, <2>4, <3>1
    <3>2. CASE z \in Known
      BY <1>2, <2>4, <3>2 DEF PartOf
    <3> QED BY <3>1, <3>2
  <2>7. PartOf(img, more, wider)
    BY <2>5, <2>6 DEF PartOf
  <2>8. q \in Known
    BY <1>q, <2>1, <2>7
  <2> QED BY <2>1, <2>8
<1>4. \A z \in Questions : m[z] = Says(img, z, m)
  BY <1>2, <1>3 DEF PartOf
<1>5. m = [z \in Questions |-> Says(img, z, m)]
  BY <1>d, <1>3, <1>4
<1> QED BY <1>5

\* So the meaning is what it says of itself, and an answer.
LEMMA MeaningIs ==
    ASSUME NEW img \in Images, NEW q \in Questions
    PROVE  Meaning(img)[q] = Says(img, q, Meaning(img)) /\ Meaning(img)[q] \in Answers(q.spent)
<1>1. Meaning(img) = [z \in Questions |-> Says(img, z, Meaning(img))]
  <2> DEFINE P(m) == m = [z \in Questions |-> Says(img, z, m)]
  <2>1. \E m : P(m)
    BY MeaningExists
  <2>2. Meaning(img) = CHOOSE m : P(m)
    BY DEF Meaning
  <2> HIDE DEF P
  <2>3. P(Meaning(img))
    BY <2>1, <2>2
  <2> QED BY <2>3 DEF P
<1> DEFINE m == Meaning(img)
<1>2. \A z \in Questions : m[z] = Says(img, z, m)
  BY <1>1
<1> HIDE DEF m
<1>3. \A z \in Questions : m[z] \in Answers(z.spent)
  <2> DEFINE Wrong == {z \in Questions : m[z] \notin Answers(z.spent)}
  <2> SUFFICES ASSUME Wrong # {} PROVE FALSE
    OBVIOUS
  <2>1. PICK x \in Wrong : \A z \in Wrong : ~Simpler(z, x)
    <3>1. Wrong \in SUBSET Questions
      OBVIOUS
    <3> HIDE DEF Wrong
    <3> QED BY <3>1, SimplestExists
  <2>2. \A z \in Questions : Simpler(z, x) => z \in Questions /\ m[z] \in Answers(z.spent)
    BY <2>1
  <2>3. x \in Questions /\ m[x] \notin Answers(x.spent)
    BY <2>1
  <2>4. Says(img, x, m) \in Answers(x.spent)
    BY <2>2, <2>3, SimplerAnswers
  <2> QED BY <1>2, <2>3, <2>4
<1> QED BY <1>2, <1>3 DEF m

\* Components after others mean what they mean from the place the others lead to, where a link at
\* the end of these is followed.
From(img, place, b, follow) ==
    IF place.how = "found" THEN Meaning(img)[Question(place.way, place.spent, b, follow)] ELSE place

LEMMA MeaningOnward ==
    ASSUME NEW img \in Images, NEW w \in Ways, NEW s \in 0..MaxHops, NEW a \in Seq(Component),
           NEW b \in Seq(Component), NEW follow \in BOOLEAN, b # << >> \/ follow = TRUE
    PROVE  Meaning(img)[Question(w, s, a \o b, follow)]
               = From(img, Meaning(img)[Question(w, s, a, TRUE)], b, follow)
<1> DEFINE m == Meaning(img)
           On(q) == Question(q.way, q.spent, q.parts \o b, follow)
           Then(r) == IF r.how = "found" THEN m[Question(r.way, r.spent, b, follow)] ELSE r
           Wrong == {q \in Questions : q.follow = TRUE /\ m[On(q)] # Then(m[q])}
<1>1. Wrong = {}
  <2> SUFFICES ASSUME Wrong # {} PROVE FALSE
    OBVIOUS
  <2>1. PICK q \in Wrong : \A z \in Wrong : ~Simpler(z, q)
    <3>1. Wrong \in SUBSET Questions
      OBVIOUS
    <3> HIDE DEF Wrong
    <3> QED BY <3>1, SimplestExists
  <2>2. q \in Questions /\ q.follow = TRUE /\ m[On(q)] # Then(m[q])
    BY <2>1
  <2>3. ASSUME NEW z \in Questions, z.follow = TRUE, Simpler(z, q) PROVE m[On(z)] = Then(m[z])
    BY <2>1, <2>3
  <2> HIDE DEF Wrong
  <2> DEFINE o == On(q)
  <2>4. q.way \in Ways /\ q.spent \in 0..MaxHops /\ q.parts \in Seq(Component)
    BY <2>2, QuestionParts
  <2>5. q.parts \o b \in Seq(Component)
    BY <2>4
  <2>6. /\ o \in Questions /\ o.way = q.way /\ o.spent = q.spent /\ o.parts = q.parts \o b /\ o.follow = follow
    <3> DEFINE whole == q.parts \o b
    <3>1. whole \in Seq(Component)
      BY <2>5
    <3> HIDE DEF whole
    <3>2. o = Question(q.way, q.spent, whole, follow)
      BY DEF whole
    <3> HIDE DEF o
    <3>3. /\ o \in Questions /\ o.way = q.way /\ o.spent = q.spent /\ o.parts = whole /\ o.follow = follow
      BY <2>4, <3>1, <3>2, QuestionIs
    <3> QED BY <3>3 DEF whole
  <2>7. m[q] = Says(img, q, m) /\ m[o] = Says(img, o, m) /\ m[q] \in Answers(q.spent)
    BY <2>2, <2>6, MeaningIs
  <2> HIDE DEF m
  <2>8. CASE q.parts = << >>
    <3>1. q.parts \o b = b
      BY <2>8
    <3>2. m[q] = Place(q.way, q.spent)
      BY <2>7, <2>8 DEF Says
    <3>3. Then(m[q]) = m[Question(q.way, q.spent, b, follow)]
      BY <3>2, PlaceIs
    <3> QED BY <2>2, <3>1, <3>3
  <2>9. CASE q.parts # << >>
    <3>1. /\ Head(q.parts \o b) = Head(q.parts) /\ Tail(q.parts \o b) = Tail(q.parts) \o b
          /\ q.parts \o b # << >>
      <4> DEFINE p == q.parts
      <4>1. p \in Seq(Component) /\ p # << >> /\ Len(p) \in Nat /\ Len(p) >= 1 /\ Len(b) \in Nat
        BY <2>4, <2>9, LenProperties, EmptySeq
      <4> HIDE DEF p
      <4>2. Len(p \o b) = Len(p) + Len(b) /\ (p \o b)[1] = p[1] /\ p \o b \in Seq(Component)
        BY <4>1
      <4>3. p \o b # << >>
        BY <4>1, <4>2, EmptySeq
      <4>4. Head(p \o b) = Head(p)
        BY <4>1, <4>2, <4>3
      <4>5. Tail(p \o b) = Tail(p) \o b
        BY <4>1, <4>2, <4>3
      <4> QED BY <4>3, <4>4, <4>5 DEF p
    <3>2. Tail(q.parts) \in Seq(Component)
      BY <2>4, <2>9, HeadTailProperties
    <3>3. follow \/ Tail(q.parts) \o b # << >>
      <4> DEFINE t == Tail(q.parts)
      <4>1. t \in Seq(Component)
        BY <3>2
      <4> HIDE DEF t
      <4>2. CASE b # << >>
        <5>1. Len(b) \in Nat /\ Len(b) >= 1 /\ Len(t) \in Nat
          BY <4>1, <4>2, LenProperties, EmptySeq
        <5>2. Len(t \o b) = Len(t) + Len(b)
          BY <4>1
        <5>3. Len(t \o b) # 0
          BY <5>1, <5>2
        <5>4. t \o b # << >>
          BY <5>3, EmptySeq
        <5> QED BY <5>4 DEF t
      <4>3. CASE follow = TRUE
        BY <4>3
      <4> QED BY <4>2, <4>3
    <3>4. Holding(img, o) = Holding(img, q) /\ Meant(img, o) = Meant(img, q) /\ Aim(img, o) = Aim(img, q)
      BY <2>6, <3>1 DEF Holding, Meant, Aim
    <3>5. ThroughLink(img, o) <=> ThroughLink(img, q)
      <4>1. o.follow \/ Tail(o.parts) # << >>
        BY <2>6, <3>1, <3>3
      <4>2. q.follow \/ Tail(q.parts) # << >>
        BY <2>2
      <4>3. Head(o.parts) = Head(q.parts)
        BY <2>6, <3>1
      <4> HIDE DEF o
      <4> QED BY <3>4, <4>1, <4>2, <4>3 DEF ThroughLink
    <3>6. Nowhere(img, o) = Nowhere(img, q) /\ Behind(img, o) = Behind(img, q) /\ OneOn(img, o) = OneOn(img, q)
      <4>1. Head(o.parts) = Head(q.parts) /\ o.way = q.way /\ o.spent = q.spent
        BY <2>6, <3>1
      <4> HIDE DEF o
      <4>2. Nowhere(img, o) = Nowhere(img, q)
        BY <3>4, <3>5, <4>1 DEF Nowhere
      <4>3. Behind(img, o) = Behind(img, q)
        BY <3>4, <4>1 DEF Behind
      <4>4. OneOn(img, o) = OneOn(img, q)
        BY <3>4, <4>1 DEF OneOn
      <4> QED BY <4>2, <4>3, <4>4
    <3>7. FirstPlace(img, o, m) = FirstPlace(img, q, m)
      BY <3>5, <3>6 DEF FirstPlace
    <3>o. o.parts # << >>
      BY <2>6, <3>1
    <3>8. CASE Nowhere(img, q) # "none"
      <4>1. m[q] = Failure(Nowhere(img, q)) /\ m[o] = Failure(Nowhere(img, q))
        BY <2>7, <2>9, <3>6, <3>8, <3>o DEF Says
      <4>2. Nowhere(img, q) # "found"
        BY DEF Nowhere
      <4>3. Failure(Nowhere(img, q)).how # "found"
        BY <4>2 DEF Failure
      <4> QED BY <2>2, <4>1, <4>3
    <3>9. CASE Nowhere(img, q) = "none"
      <4> DEFINE first == FirstPlace(img, q, m)
      <4>1. /\ m[q] = IF first.how = "found" THEN m[Onward(q, first)] ELSE first
            /\ m[o] = IF first.how = "found" THEN m[Onward(o, first)] ELSE first
        BY <2>7, <2>9, <3>6, <3>7, <3>9, <3>o DEF Says
      <4>2. first \in Answers(q.spent)
        <5>1. ThroughLink(img, q) => Behind(img, q) \in Questions
          BY <2>2, <2>9, <3>9, Somewhere
        <5>2. ThroughLink(img, q) => m[Behind(img, q)] \in Answers(Behind(img, q).spent)
          BY <5>1, MeaningIs DEF m
        <5> QED BY <2>2, <2>9, <3>9, <5>2, FirstIs
      <4> HIDE DEF first
      <4>3. CASE first.how # "found"
        BY <2>2, <4>1, <4>3
      <4>4. CASE first.how = "found"
        <5>1. Onward(q, first) \in Questions /\ Simpler(Onward(q, first), q)
          BY <2>2, <2>9, <4>2, <4>4, OnwardIs
        <5>2. Onward(q, first) = Question(first.way, first.spent, Tail(q.parts), TRUE)
          BY <2>2 DEF Onward
        <5>3. Onward(q, first).follow = TRUE /\ Onward(q, first).way = first.way
              /\ Onward(q, first).spent = first.spent /\ Onward(q, first).parts = Tail(q.parts)
          BY <5>2 DEF Question
        <5>4. On(Onward(q, first)) = Question(first.way, first.spent, Tail(q.parts) \o b, follow)
          BY <5>3
        <5>5. Onward(o, first) = Question(first.way, first.spent, Tail(q.parts) \o b, follow)
          BY <2>6, <3>1 DEF Onward
        <5>6. m[On(Onward(q, first))] = Then(m[Onward(q, first)])
          BY <2>3, <5>1, <5>3
        <5> HIDE DEF On, Then
        <5>7. m[o] = Then(m[q])
          BY <4>1, <4>4, <5>4, <5>5, <5>6
        <5> QED BY <2>2, <5>7 DEF On
      <4> QED BY <4>3, <4>4
    <3> QED BY <3>8, <3>9
  <2> QED BY <2>8, <2>9
<1> DEFINE q == Question(w, s, a, TRUE)
<1>2. q \in Questions /\ q.way = w /\ q.spent = s /\ q.parts = a /\ q.follow = TRUE
  BY QuestionIs
<1>3. m[On(q)] = Then(m[q])
  BY <1>1, <1>2
<1> QED BY <1>2, <1>3 DEF From

-----------------------------------------------------------------------------

\* What is left to resolve, as a question.
Now == Question(Append(descended, node), hops, pending, follow_final)

\* What is left means what was asked, until it is answered.
SameMeaning ==
    answer \notin {"unasked", "damaged"} =>
        Meaning(image)[Question(<<Root>>, 0, path, follow_final)]
            = IF answer = "resolving" THEN Meaning(image)[Now]
              ELSE IF answer = "found" THEN Place(Append(descended, node), hops) ELSE Failure(answer)

\* It is one, from the way descended through.
LEMMA NowIs ==
    ASSUME ResolveTypeOK
    PROVE  /\ Now \in Questions /\ Now.way = Append(descended, node) /\ Now.spent = hops
           /\ Now.parts = pending /\ Now.follow = follow_final /\ Append(descended, node) \in Ways
           /\ End(Append(descended, node)) = node
           /\ Above(Append(descended, node)) =
                  IF descended = << >> THEN Append(descended, node)
                  ELSE Append(SubSeq(descended, 1, Len(descended) - 1), descended[Len(descended)])
           /\ image \in Images /\ pending \in Seq(Component) /\ hops \in 0..MaxHops /\ hops \in Nat
<1>1. /\ descended \in Seq(Nodes) /\ node \in Nodes /\ pending \in Seq(Component) /\ hops \in 0..MaxHops
      /\ follow_final \in BOOLEAN /\ image \in Images /\ hops \in Nat
  BY NodesAssumption, PathsAssumption DEF ResolveTypeOK
<1> DEFINE way == Append(descended, node)
<1>2. Len(descended) \in Nat /\ way \in Seq(Nodes) /\ way # << >> /\ Len(way) = Len(descended) + 1
      /\ way[Len(descended) + 1] = node
  BY <1>1
<1>3. way \in Ways /\ End(way) = node
  BY <1>2 DEF Ways, End
<1>4. CASE descended = << >>
  <2>1. Len(way) = 1
    BY <1>2, <1>4
  <2>2. Above(way) = way
    BY <2>1 DEF Above
  <2> HIDE DEF way
  <2>3. /\ Question(way, hops, pending, follow_final) \in Questions
        /\ Question(way, hops, pending, follow_final).way = way
        /\ Question(way, hops, pending, follow_final).spent = hops
        /\ Question(way, hops, pending, follow_final).parts = pending
        /\ Question(way, hops, pending, follow_final).follow = follow_final
    BY <1>1, <1>3, QuestionIs
  <2> QED BY <1>1, <1>3, <1>4, <2>2, <2>3 DEF Now, way
<1>5. CASE descended # << >>
  <2> DEFINE n == Len(descended)
  <2>1. n \in Nat /\ n >= 1 /\ Len(way) = n + 1
    BY <1>1, <1>2, <1>5, LenProperties, EmptySeq
  <2>2. Above(way) = SubSeq(way, 1, n)
    BY <2>1 DEF Above
  <2>3. SubSeq(way, 1, n) = descended
    BY <1>1, <2>1
  <2>4. Append(SubSeq(descended, 1, n - 1), descended[n]) = descended
    BY <1>1, <1>5, <2>1
  <2> HIDE DEF way, n
  <2>5. /\ Question(way, hops, pending, follow_final) \in Questions
        /\ Question(way, hops, pending, follow_final).way = way
        /\ Question(way, hops, pending, follow_final).spent = hops
        /\ Question(way, hops, pending, follow_final).parts = pending
        /\ Question(way, hops, pending, follow_final).follow = follow_final
    BY <1>1, <1>3, QuestionIs
  <2> QED BY <1>1, <1>3, <1>5, <2>2, <2>3, <2>4, <2>5 DEF Now, way, n
<1> QED BY <1>4, <1>5

\* Its first component is the one the loop takes, and where it leads is where the loop goes.
LEMMA NowTakes ==
    ASSUME ResolveTypeOK, pending # << >>
    PROVE  /\ Holding(image, Now) = Held /\ Meant(image, Now) = Entry /\ Aim(image, Now) = Link
           /\ ThroughLink(image, Now) <=> (Part # Up /\ Following)
           /\ Nowhere(image, Now) =
                  IF node \notin Dirs THEN "not_a_directory"
                  ELSE IF Part # Up /\ Part \notin DOMAIN Held THEN "not_found"
                  ELSE IF Part # Up /\ Following THEN LinkRefusal ELSE "none"
<1>1. /\ Now.way = Append(descended, node) /\ Now.spent = hops /\ Now.parts = pending
      /\ Now.follow = follow_final /\ End(Now.way) = node /\ hops \in 0..MaxHops /\ hops \in Nat
  BY NowIs
<1>2. Holding(image, Now) = Held /\ Head(Now.parts) = Part
  BY <1>1 DEF Holding, Held, Part
<1>3. Meant(image, Now) = Entry
  BY <1>2 DEF Meant, Entry
<1>4. Aim(image, Now) = Link
  BY <1>3 DEF Aim, Link
<1>5. ThroughLink(image, Now) <=> (Part # Up /\ Following)
  BY <1>1, <1>2, <1>3 DEF ThroughLink, Following
<1>6. hops + 1 > MaxHops <=> hops = MaxHops
  BY <1>1, PathsAssumption
<1>7. LinkRefusal = IF Link.is = "long" THEN "not_found" ELSE IF hops = MaxHops THEN "too_many_links"
                    ELSE IF Link.is = "empty" THEN "not_found" ELSE "none"
  BY <1>6 DEF LinkRefusal
<1> QED BY <1>1, <1>2, <1>3, <1>4, <1>5, <1>7 DEF Nowhere

\* A step of the resolution leaves the meaning.
LEMMA ResolveMeans == ResolveTypeOK /\ SameMeaning /\ [ResolveNext]_resolveVars => SameMeaning'
<1> SUFFICES ASSUME ResolveTypeOK, SameMeaning, [ResolveNext]_resolveVars PROVE SameMeaning'
  OBVIOUS
<1> DEFINE m == Meaning(image)
           asked == m[Question(<<Root>>, 0, path, follow_final)]
           way == Append(descended, node)
<1>1. CASE UNCHANGED resolveVars
  BY <1>1 DEF resolveVars, call, SameMeaning, Now
<1>2. CASE LookupFails
  BY <1>2 DEF LookupFails, Return, SameMeaning
<1>3. CASE ResolveStep
  <2>1. answer = "resolving" /\ UNCHANGED call
    BY <1>3 DEF ResolveStep, NotADirectory, Ascend, Absent, LinkRefused, Expand, Enter, Reach, Return, Found,
           Naming, Taking
  <2>2. asked = m[Now]
    BY <2>1 DEF SameMeaning
  <2>3. m' = m /\ asked' = asked
    BY <2>1 DEF call
  <2>4. /\ Now \in Questions /\ Now.way = way /\ Now.spent = hops /\ Now.parts = pending
        /\ Now.follow = follow_final /\ way \in Ways /\ image \in Images /\ pending \in Seq(Component)
        /\ hops \in 0..MaxHops /\ hops \in Nat
    BY NowIs
  <2>5. m[Now] = Says(image, Now, m)
    BY <2>4, MeaningIs
  <2> HIDE DEF asked, m, way
  <2>6. ASSUME answer' = "resolving", m[Now] = m[Now'] PROVE SameMeaning'
    BY <2>2, <2>3, <2>6 DEF SameMeaning, asked, m
  <2>7. ASSUME NEW how \in Noways, Return(how), m[Now] = Failure(how) PROVE SameMeaning'
    <3>1. answer' = how /\ how # "resolving" /\ how # "found" /\ asked' = Failure(how)
      BY <2>2, <2>3, <2>7 DEF Return, Noways
    <3> QED BY <3>1 DEF SameMeaning, asked, m
  <2>8. CASE Reach
    <3>1. m[Now] = Place(way, hops)
      BY <2>4, <2>5, <2>8 DEF Reach, Says
    <3>2. answer' = "found" /\ UNCHANGED <<descended, node, hops>>
      BY <2>8 DEF Reach, Return
    <3>3. asked' = Place(Append(descended', node'), hops')
      BY <2>2, <2>3, <3>1, <3>2 DEF way
    <3> QED BY <3>2, <3>3 DEF SameMeaning, asked, m
  <2>9. CASE pending # << >> /\ Nowhere(image, Now) # "none"
    <3>1. m[Now] = Failure(Nowhere(image, Now))
      BY <2>4, <2>5, <2>9 DEF Says
    <3>2. Nowhere(image, Now) =
              IF node \notin Dirs THEN "not_a_directory"
              ELSE IF Part # Up /\ Part \notin DOMAIN Held THEN "not_found"
              ELSE IF Part # Up /\ Following THEN LinkRefusal ELSE "none"
      BY <2>9, NowTakes
    <3>3. Return(Nowhere(image, Now))
      BY <1>3, <2>9, <3>2 DEF ResolveStep, NotADirectory, Ascend, Absent, LinkRefused, Expand, Enter, Reach, Found,
             Naming, Taking
    <3>4. Nowhere(image, Now) \in Noways
      BY <2>9 DEF Nowhere, Noways
    <3> QED BY <2>7, <3>1, <3>3, <3>4
  <2>10. CASE pending # << >> /\ Nowhere(image, Now) = "none"
    <3> DEFINE first == FirstPlace(image, Now, m)
    <3>1. m[Now] = IF first.how = "found" THEN m[Onward(Now, first)] ELSE first
      BY <2>4, <2>5, <2>10 DEF Says
    <3>2. /\ Meant(image, Now) = Entry /\ Aim(image, Now) = Link
          /\ ThroughLink(image, Now) <=> (Part # Up /\ Following) 
          /\ node \in Dirs /\ (Part # Up => Part \in DOMAIN Held)
          /\ Part # Up /\ Following => LinkRefusal = "none"
      BY <2>10, NowTakes
    <3>3. ThroughLink(image, Now) => Behind(image, Now) \in Questions
      BY <2>4, <2>10, Somewhere
    <3> HIDE DEF first
    <3>4. Ascend \/ Enter \/ Expand
      BY <1>3, <2>10, <3>2 DEF ResolveStep, NotADirectory, Absent, LinkRefused, Reach, Found, Naming, Taking
    <3>5. CASE Ascend
      <4>1. Part = Up /\ pending' = Tail(pending) /\ hops' = hops /\ follow_final' = follow_final
            /\ answer' = "resolving"
        BY <2>1, <3>5 DEF Ascend, call
      <4>2. first = Place(Above(way), hops)
        <5>1. Head(Now.parts) = Up
          BY <2>4, <4>1 DEF Part
        <5> QED BY <2>4, <3>2, <4>1, <5>1 DEF first, FirstPlace, OneOn
      <4>3. first.how = "found" /\ Onward(Now, first) = Question(Above(way), hops, Tail(pending), follow_final)
        BY <2>4, <4>2, PlaceIs DEF Onward
      <4>4. Append(descended', node') = Above(way)
        BY <3>5, NowIs DEF Ascend, way
      <4>5. Now' = Question(Above(way), hops, Tail(pending), follow_final)
        BY <4>1, <4>4 DEF Now
      <4> QED BY <2>6, <3>1, <4>1, <4>3, <4>5
    <3>6. CASE Enter
      <4>1. Part # Up /\ ~Following /\ pending' = Tail(pending) /\ hops' = hops /\ follow_final' = follow_final
            /\ answer' = "resolving" /\ Append(descended', node') = Append(way, Entry)
        BY <2>1, <3>6 DEF Enter, Found, Naming, call, way
      <4>2. first = Place(Append(way, Entry), hops)
        <5>1. Head(Now.parts) # Up
          BY <2>4, <4>1 DEF Part
        <5> QED BY <2>4, <3>2, <4>1, <5>1 DEF first, FirstPlace, OneOn
      <4>3. first.how = "found" /\ Onward(Now, first) = Question(Append(way, Entry), hops, Tail(pending), follow_final)
        BY <2>4, <4>2, PlaceIs DEF Onward
      <4>4. Now' = Question(Append(way, Entry), hops, Tail(pending), follow_final)
        BY <4>1 DEF Now
      <4> QED BY <2>6, <3>1, <4>1, <4>3, <4>4
    <3>7. CASE Expand
      <4>1. /\ Part # Up /\ Following /\ pending' = Link.parts \o Tail(pending) /\ hops' = hops + 1
            /\ follow_final' = follow_final /\ answer' = "resolving"
        BY <2>1, <3>7 DEF Expand, Found, Naming, call
      <4> DEFINE from == IF Link.is = "absolute" THEN <<Root>> ELSE way
      <4>2. Append(descended', node') = from
        <5>1. Append(<< >>, Root) = <<Root>>
          OBVIOUS
        <5> QED BY <3>7, <5>1 DEF Expand, way
      <4>3. Behind(image, Now) = Question(from, hops + 1, Link.parts, TRUE)
        BY <2>4, <3>2 DEF Behind
      <4>4. from \in Ways /\ hops + 1 \in 0..MaxHops /\ Link.parts \in Seq(Component)
        <5>1. Behind(image, Now) \in Questions
          BY <3>2, <3>3, <4>1
        <5>2. /\ Behind(image, Now).way = from /\ Behind(image, Now).spent = hops + 1
              /\ Behind(image, Now).parts = Link.parts
          BY <4>3 DEF Question
        <5> HIDE DEF from
        <5> QED BY <5>1, <5>2, QuestionParts
      <4>5. first = m[Question(from, hops + 1, Link.parts, TRUE)]
        BY <3>2, <4>1, <4>3 DEF first, FirstPlace
      <4>6. Tail(pending) \in Seq(Component) /\ (Tail(pending) # << >> \/ follow_final = TRUE)
        <5>1. Tail(pending) \in Seq(Component)
          BY <2>4, <2>10, HeadTailProperties
        <5>2. follow_final \/ Tail(pending) # << >>
          BY <4>1 DEF Following
        <5>3. follow_final \in BOOLEAN
          BY DEF ResolveTypeOK
        <5> QED BY <5>1, <5>2, <5>3
      <4> DEFINE rest == Tail(pending)
                 target == Link.parts
                 more == hops + 1
      <4> HIDE DEF from, rest, target, more
      <4>7. m[Question(from, more, target \o rest, follow_final)]
                = IF first.how = "found" THEN m[Question(first.way, first.spent, rest, follow_final)] ELSE first
        <5>1. from \in Ways /\ more \in 0..MaxHops /\ target \in Seq(Component) /\ rest \in Seq(Component)
              /\ (rest # << >> \/ follow_final = TRUE) /\ follow_final \in BOOLEAN /\ image \in Images
          BY <2>4, <4>4, <4>6 DEF ResolveTypeOK, rest, target, more
        <5>2. first = m[Question(from, more, target, TRUE)]
          BY <4>5 DEF target, more
        <5>3. first = Meaning(image)[Question(from, more, target, TRUE)]
          BY <5>2 DEF m
        <5>4. Meaning(image)[Question(from, more, target \o rest, follow_final)]
                  = IF first.how = "found"
                    THEN Meaning(image)[Question(first.way, first.spent, rest, follow_final)] ELSE first
          <6> DEFINE last == Question(from, more, target \o rest, follow_final)
          <6>1. Meaning(image)[last] = From(image, Meaning(image)[Question(from, more, target, TRUE)], rest, follow_final)
            BY <5>1, MeaningOnward
          <6> QED BY <5>3, <6>1 DEF From
        <5> QED BY <5>4 DEF m
      <4>8. Onward(Now, first) = Question(first.way, first.spent, rest, follow_final)
        BY <2>4 DEF Onward, rest
      <4>9. Now' = Question(from, more, target \o rest, follow_final)
        BY <4>1, <4>2 DEF Now, rest, target, more
      <4> QED BY <2>6, <3>1, <4>1, <4>7, <4>8, <4>9
    <3> QED BY <3>4, <3>5, <3>6, <3>7
  <2>11. pending = << >> => Reach
    BY <1>3 DEF ResolveStep, NotADirectory, Ascend, Absent, LinkRefused, Expand, Enter, Found, Naming, Taking
  <2> QED BY <2>8, <2>9, <2>10, <2>11
<1> QED BY <1>1, <1>2, <1>3 DEF ResolveNext, Answered

\* resolve.rs: whatever graph the image is, `drive` answers what the path means by recursion on
\* its components and on the targets of the links it passes, and where the path means nothing it
\* refuses for the reason the meaning gives; asked in the middle of a walk too.
THEOREM ResolutionIsTheMeaning == ReadSpec => []ResolvesToItsMeaning
<1>1. ReadInit => SameMeaning
  <2> SUFFICES ASSUME ReadInit PROVE SameMeaning
    OBVIOUS
  <2>1. CASE Unasked
    BY <2>1 DEF Unasked, SameMeaning
  <2>2. CASE ResolveInit
    <3>1. Append(<< >>, Root) = <<Root>>
      OBVIOUS
    <3>2. Now = Question(<<Root>>, 0, path, follow_final) /\ answer = "resolving"
      BY <2>2, <3>1 DEF ResolveInit, Now
    <3> QED BY <3>2 DEF SameMeaning
  <2> QED BY <2>1, <2>2 DEF ReadInit
<1>2. ResolveTypeOK /\ SameMeaning /\ [ReadNext]_readVars => SameMeaning'
  <2> SUFFICES ASSUME ResolveTypeOK, SameMeaning, [ReadNext]_readVars PROVE SameMeaning'
    OBVIOUS
  <2>1. CASE VisitorReturns
    BY <2>1 DEF VisitorReturns, SameMeaning
  <2>2. CASE Ask
    <3>1. Append(<< >>, Root) = <<Root>>
      OBVIOUS
    <3>2. Now' = Question(<<Root>>, 0, path', follow_final') /\ answer' = "resolving"
      BY <2>2, <3>1 DEF Ask, Now
    <3> QED BY <3>2 DEF SameMeaning
  <2>3. CASE [ResolveNext]_resolveVars
    BY <2>3, ResolveMeans
  <2> QED
    BY <2>1, <2>2, <2>3 DEF ReadNext, ReadStep, WalkOn, Resolve, Both, ResolveNext, readVars, vars, resolveVars, call
<1>3. SameMeaning => ResolvesToItsMeaning
  BY DEF SameMeaning, ResolvesToItsMeaning
<1> QED
  BY <1>1, <1>2, <1>3, ReadTypes, PTL DEF ReadSpec
=============================================================================
