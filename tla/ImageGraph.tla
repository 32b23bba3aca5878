----------------------------- MODULE ImageGraph -----------------------------
(***************************************************************************)
(* An image as its reader meets it: a directed graph nobody vouches for.   *)
(* Every directory maps names to nodes, and an entry may name the root, an *)
(* ancestor, or a directory another entry names too; a link holds a path.  *)
(* Names are numbered in the order a directory stores them.                *)
(***************************************************************************)
EXTENDS Integers, Sequences, FiniteSets

CONSTANTS
    Nodes,      \* what entries name: inode numbers, first clusters
    Dirs,       \* the nodes with a directory's storage to descend into
    Links,      \* the nodes that are symbolic links
    Root,       \* the root directory
    Up,         \* the component `..`
    Images      \* the images read: [entries, target]

Component == Nat \cup {Up}
Target == [is : {"long", "empty", "relative", "absolute"}, parts : Seq(Component)]

ASSUME NodesAssumption ==
    /\ Root \in Dirs /\ Dirs \subseteq Nodes /\ Links \subseteq Nodes /\ Dirs \cap Links = {}
    /\ Up \notin Nat
\* Directories are inode numbers or first clusters: numbers of a fixed width.
ASSUME FiniteAssumption == IsFiniteSet(Dirs)
ASSUME ImagesAssumption ==
    Images \subseteq [entries : [Dirs -> Seq(Nodes)], target : [Links -> Target]]

VARIABLE image
=============================================================================
