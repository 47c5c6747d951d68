------------------------------ MODULE DirTree ------------------------------
(***************************************************************************)
(* What the users of the encrypting file system are promised of names: a   *)
(* tree of directories and files under the names they gave, in which a     *)
(* listing shows those names and no others.                                *)
(***************************************************************************)
EXTENDS Integers, Sequences

CONSTANTS Names,   \* the names users give
          Paths    \* bound: the paths they use, sequences of names

VARIABLES nodes,     \* the kind of every path there is
          listing    \* the last listing: a path and the names in it

treeVars == <<nodes, listing>>

-----------------------------------------------------------------------------
Root == <<>>

Parent(p) == SubSeq(p, 1, Len(p) - 1)

Children(p) == {q \in DOMAIN nodes : q # Root /\ Parent(q) = p}

Init ==
    /\ nodes = [p \in {Root} |-> "dir"]
    /\ listing = [of |-> Root, names |-> {}]

Make(p, kind) ==
    /\ p # Root /\ p \notin DOMAIN nodes
    /\ Parent(p) \in DOMAIN nodes /\ nodes[Parent(p)] = "dir"
    /\ nodes' = [q \in DOMAIN nodes \union {p} |-> IF q = p THEN kind ELSE nodes[q]]
    /\ UNCHANGED listing

Remove(p) ==
    /\ p # Root /\ p \in DOMAIN nodes
    /\ Children(p) = {}
    /\ nodes' = [q \in DOMAIN nodes \ {p} |-> nodes[q]]
    /\ UNCHANGED listing

List(p) ==
    /\ p \in DOMAIN nodes /\ nodes[p] = "dir"
    /\ listing' = [of |-> p, names |-> {q[Len(q)] : q \in Children(p)}]
    /\ UNCHANGED nodes

Next ==
    \E p \in Paths :
        \/ \E kind \in {"dir", "file"} : Make(p, kind)
        \/ Remove(p)
        \/ List(p)

Spec == Init /\ [][Next]_treeVars
=============================================================================
