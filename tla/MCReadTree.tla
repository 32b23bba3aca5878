----------------------------- MODULE MCReadTree -----------------------------
(***************************************************************************)
(* Walks over every image of three directories and a link with up to MaxFan*)
(* names in a directory: trees, shared directories and cycles. Resolutions *)
(* over two directories, a file and two links, with entries that name the  *)
(* root and links that lead up, back to the root, at each other, and       *)
(* nowhere.                                                                *)
(***************************************************************************)
EXTENDS ReadTree, TLC

CONSTANTS r, a, b, f, l, k, MaxFan

Fans(values) == UNION {[1..n -> values] : n \in 0..MaxFan}

To(is, parts) == [is |-> is, parts |-> parts]

MCWalked ==
    [entries : [Dirs -> Fans({r, a, b, l})], target : {l :> To("relative", <<1>>) @@ k :> To("long", << >>)}]

MCSearched ==
    {[entries |-> (r :> er @@ a :> ea @@ b :> << >>), target |-> (l :> tl @@ k :> tk)] :
        er \in Fans({a, f, l, k}), ea \in Fans({r, f, l, k}),
        tl \in {To("absolute", <<1>>), To("absolute", <<1, Up>>), To("relative", <<Up, 2>>),
                To("relative", << >>), To("empty", << >>)},
        tk \in {To("relative", <<1>>), To("long", << >>)}}

MCImages == MCWalked \cup MCSearched

MCAsked == {<< >>} \cup UNION {[1..n -> {1, 2, Up}] : n \in 1..2}
           \cup {<<1, 2, Up>>, <<1, Up, 2>>, <<2, Up, Up>>, <<1, 1, 2>>, <<2, 1, 1>>}
=============================================================================
