-------------------------- MODULE MCDirectorySink ---------------------------
(***************************************************************************)
(* DirectorySink over every filling of four shapes: a name left behind two *)
(* directories, two full directories, siblings after a nested one, and an  *)
(* ext image's /lost+found. One file and one special node have two names.  *)
(***************************************************************************)
EXTENDS DirectorySink

Directory(search) == [kind |-> "directory", node |-> "d", shared |-> FALSE, search |-> search]
Leaf(kind, node, shared) == [kind |-> kind, node |-> node, shared |-> shared, search |-> FALSE]

Shapes == {{<< >>, <<1>>, <<1, 1>>, <<1, 1, 1>>, <<2>>},
           {<< >>, <<1>>, <<1, 1>>, <<2>>, <<2, 1>>},
           {<< >>, <<1>>, <<1, 1>>, <<1, 2>>, <<2>>},
           {<< >>, <<1>>, <<3>>, <<3, 1>>}}

Directories == {Directory(TRUE), Directory(FALSE)}
Entries == Directories \cup {Leaf("file", "x", TRUE), Leaf("special", "w", TRUE),
                             Leaf("file", "y", FALSE)}

MCTrees ==
    UNION {{t \in [D -> Entries] :
               \A p \in D : t[p].kind = "directory" <=> (p = << >> \/ \E q \in D : Under(q, p))}
           : D \in Shapes}
=============================================================================
