---------------------------- MODULE MCNestedSweep ----------------------------
(* Instances of NestedSweep.                                               *)
EXTENDS NestedSweep, TLC

Same == [l \in Level |-> l]
Job(kind, o, entry, ns, quant, max) ==
    [zdd |-> kind, op |-> o, entry |-> entry, nodes |-> ns, quant |-> quant, map |-> Same, max |-> max]
Operations(kind) == IF kind THEN {"project"} ELSE {"exists", "forall"}

(* By the first two variables, one of three functions of the others.       *)
Below == <<{{2, 3}}, {{2}, {3}}, {{3}, {2, 3}}>>
Split(kind, which) ==
    CanonicalNodesOf(kind, {x \in SUBSET Level : x \cap {2, 3} \in Below[which[x \cap {0, 1}]]})
Selections == {c \in [SUBSET {0, 1} -> 1 .. 3] : c[{}] = 1 /\ c[{0}] # 3}

(* Canonical diagrams, in every way that quantification is called, with    *)
(* and without partial sweeps.                                             *)
Canonical(kind) ==
    LET ways(ns, q) == {<<"nested", 0>>, <<"nested", 2>>, <<"singleton", 0>>, <<"repeated", 0>>,
                            <<"generator", 0>>}
                           \cup (IF Cardinality(q) = 1 THEN {<<"single", 0>>} ELSE {})
        jobs(ns) == UNION {{Job(kind, o, way[1], ns, q, way[2]) :
                               o \in Operations(kind), way \in ways(ns, q)} :
                              q \in {{1}, {0, 2}, {1, 2}, {2, 3}, {0, 1, 3}}} \cup
                  {Job(kind, o, "repeated", ns, Level, 0) : o \in Operations(kind)}
    IN  UNION {jobs(Split(kind, c)) : c \in Selections}

(* Unreduced diagrams, given as arcs: two nodes below the root, over three *)
(* nodes that may be redundant or the same.                                *)
Bottom == {Node(Uid(3, 0), Terminal(FALSE), Terminal(TRUE))}
Pointers(d) == {Terminal(b) : b \in BOOLEAN} \cup {n.uid : n \in d}
WithLevel(d, l, pairs) ==
    {d \cup {Node(Uid(l, i), f[i][1], f[i][2]) : i \in 0 .. 1} : f \in [0 .. 1 -> pairs]}
Unreduced ==
    LET third == WithLevel(Bottom, 2, {<<Uid(3, 0), Uid(3, 0)>>, <<Terminal(FALSE), Uid(3, 0)>>,
                                       <<Uid(3, 0), Terminal(TRUE)>>})
        second == UNION {WithLevel(d, 1, Pointers(d) \X {n.uid : n \in d}) : d \in third}
    IN  {d \in {e \cup {Node(Uid(0, 0), Uid(1, 0), Uid(1, 1))} : e \in second} :
            Cardinality(Roots(d)) = 1}

(* Successors in a relation over two variables, whose next states are     *)
(* interleaved or come last; or of which nothing or all is kept.           *)
Successors(entry, ns, q, m) == [Job(FALSE, "relnext", entry, ns, q, 0) EXCEPT !.map = m]
Interleaved == [l \in Level |-> IF l % 2 = 0 THEN l ELSE l - 1]
Blocked == [l \in Level |-> IF l < 2 THEN l ELSE l - 2]
Relations ==
    {Successors("next", Split(FALSE, c), {0, 2}, Interleaved) : c \in Selections} \cup
    {Successors("next", Split(FALSE, c), {0, 1}, Blocked) : c \in Selections} \cup
    {Successors("arcs", d, {0, 2}, Interleaved) : d \in Unreduced} \cup
    {Successors("arcs", d, {0, 1}, Blocked) : d \in Unreduced} \cup
    {Successors("next", CanonicalNodesOf(FALSE, {x \in SUBSET Level : 3 \in x}), {0, 2}, Interleaved),
     Successors("next", CanonicalNodesOf(FALSE, SUBSET Level), {0, 2}, Interleaved)}

AllJobs ==
    Relations \cup
    Canonical(FALSE) \cup Canonical(TRUE) \cup
    {Job(FALSE, "exists", "arcs", d, q, 0) : d \in Unreduced, q \in {{0, 2}, {1}}} \cup
    {Job(TRUE, "project", "arcs", d, {0, 3}, 0) : d \in Unreduced}
=============================================================================
