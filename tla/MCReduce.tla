------------------------------ MODULE MCReduce ------------------------------
(* Instances of Reduce: all unreduced diagrams of three shapes.            *)
EXTENDS Reduce, TLC

Pointers(d) == {Terminal(v) : v \in BOOLEAN} \cup {n.uid : n \in d}
WithLevel(d, l, k) ==
    {d \cup {Node(Uid(l, i), f[i][1], f[i][2]) : i \in 0 .. k - 1} :
        f \in [0 .. k - 1 -> Pointers(d) \X Pointers(d)]}

(* All diagrams of the given depth with up to width[l] nodes on level l.   *)
Diagrams(depth, width) ==
    LET D[l \in 0 .. depth] ==
            IF l = depth THEN {{}}
            ELSE UNION {WithLevel(d, l, k) : d \in D[l + 1], k \in 0 .. width[l]}
    IN  {d \in D[0] : Cardinality(Roots(d)) = 1}

(* All diagrams with width[l] nodes on level l, in which the root is above *)
(* two others, up to exchanging the terminals.                             *)
Rooted(depth, width) ==
    LET D[l \in 1 .. depth] ==
            IF l = depth THEN {{}} ELSE UNION {WithLevel(d, l, width[l]) : d \in D[l + 1]}
    IN  {d \in {e \cup {Node(Uid(0, 0), Uid(1, 0), Uid(1, 1))} : e \in D[1]} :
            /\ Cardinality(Roots(d)) = 1
            /\ NodeAt(d, Uid(depth - 1, 0)).low = Terminal(FALSE)}

Job(kind, map, inputs) == [zdd |-> kind, map |-> map, inputs |-> inputs]

(* Two nodes on each level below the root: nodes to merge on two levels,   *)
(* and mappings of both rules side by side.  A chain under two nodes: an   *)
(* arc rerouted by rule 1 crosses levels it was not counted on.  Up to two *)
(* nodes at the bottom, levels left out, one level unused by map_level:    *)
(* small diagrams, single nodes and terminals included.  The same below an *)
(* empty level, all levels moved up by one.                                *)
AllJobs == {
    Job(FALSE, [l \in 0 .. 2 |-> l], Rooted(3, <<2, 2>>)),
    Job(FALSE, [l \in 0 .. 3 |-> l], Rooted(4, <<2, 1, 1>>)),
    Job(TRUE, <<2, 3>> @@ (0 :> 0), Diagrams(3, <<1, 2>> @@ (0 :> 1))),
    Job(FALSE, <<0, 1>>, Diagrams(3, <<1, 2>> @@ (0 :> 0)))}
=============================================================================
