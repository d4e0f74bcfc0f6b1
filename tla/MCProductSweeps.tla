-------------------------- MODULE MCProductSweeps ---------------------------
(* Instances of ProductSweeps.                                             *)
EXTENDS ProductSweeps, TLC

And == AndOp.op
Or == OrOp.op
Xor == XorOp.op

Ask(name, kind, o, f, g, h) ==
    [name |-> name, zdd |-> kind, op |-> o, in0 |-> f, in1 |-> g, in2 |-> h, quant |-> {}]
Job(o, kind, f, g) == Ask("apply", kind, o, f, g, NoHandle)
Ite(f, g, h) == Ask("ite", FALSE, And, f, g, h)
Test(name, kind, f, g) == Ask(name, kind, And, f, g, NoHandle)
Plain(id, nodes) == Handle(id, nodes, FALSE, 0)

(* Only diagrams with nodes are ever shifted.                              *)
Moved(id, nodes, b, s) ==
    Handle(id, nodes, b, IF \A n \in nodes : IsTerminal(n.uid) THEN 0 ELSE s)

(* All functions of some levels, as sets of assignments, and their         *)
(* canonical diagrams.                                                     *)
Functions(kind, levels) ==
    {IF kind THEN f ELSE {x \in SUBSET Level : x \cap levels \in f} :
        f \in SUBSET (SUBSET levels)}
Canonical(kind, levels) == {CanonicalNodesOf(kind, f) : f \in Functions(kind, levels)}

(* Two small diagrams, the second one negated or shifted, which ZDDs never *)
(* are; and one diagram with itself.                                       *)
SmallBdds == Canonical(FALSE, {0, 1})
SmallZdds == Canonical(TRUE, {0, 1})
Small(kind, operators, negations) ==
    LET files == IF kind THEN SmallZdds ELSE SmallBdds
        shifts == IF kind THEN {0} ELSE {0, 1}
    IN  {{Job(o, kind, Plain(1, f), Moved(2, g, b, s)) :
            o \in operators, f \in files, g \in files, b \in negations, s \in shifts},
         {Job(o, kind, Handle(1, f, b, 0), Moved(1, f, c, s)) :
            o \in operators, f \in files, b \in negations, c \in negations, s \in shifts}}

(* Every other operator, with a terminal or a single node on either side.  *)
Rest == {NandOp.op, OrOp.op, NorOp.op, XnorOp.op, Invimp, Diff, Less}
OneNode == Canonical(FALSE, {1})
OtherOperators == {
    {Job(o, FALSE, Plain(1, f), Plain(2, g)) : o \in Rest, f \in SmallBdds, g \in OneNode},
    {Job(o, FALSE, Plain(1, g), Plain(2, f)) : o \in Rest, f \in SmallBdds, g \in OneNode}}

(* Diagrams with three nodes on a level, so that a node whose children are *)
(* carried may be asked for when nodes after it are at hand already: by    *)
(* the first two variables, one of three functions of the others.          *)
Below == <<{{2}, {3}}, {{}, {2, 3}}, {{2, 3}}>>
Split(kind, which) ==
    CanonicalNodesOf(kind, {x \in SUBSET Level : x \cap {2, 3} \in Below[which[x \cap {0, 1}]]})
Selections == [SUBSET {0, 1} -> 1 .. 3]
OneChoice == [x \in SUBSET {0, 1} |-> IF x = {} THEN 1 ELSE IF x = {0} THEN 2 ELSE 3]
Surjections == {c \in Selections : \A i \in 1 .. 3 : \E x \in DOMAIN c : c[x] = i}
LargeBdds == {Split(FALSE, which) : which \in Surjections}
LargeZdds == {Split(TRUE, which) : which \in Surjections}
LargeBdd == Split(FALSE, OneChoice)
LargeZdd == Split(TRUE, OneChoice)
Large(kind, o) ==
    {Job(o, kind, Plain(1, IF kind THEN LargeZdd ELSE LargeBdd), Plain(2, g)) :
        g \in IF kind THEN LargeZdds ELSE LargeBdds}

ProductJobs ==
    {Large(FALSE, Xor), Large(TRUE, And)} \cup OtherOperators
        \cup Small(FALSE, {And, Xor, Imp}, BOOLEAN) \cup Small(TRUE, {And, Or, Xor, Diff}, {FALSE})

(* Products of a relation with a set, of which a part is quantified later. *)
RelProd(f, g, q) == [Ask("relprod", FALSE, And, f, g, NoHandle) EXCEPT !.quant = q]
RelProdJobs == {
    {RelProd(Handle(1, f, b, 0), Handle(2, g, FALSE, s), q) :
        f \in Canonical(FALSE, {0, 1}), g \in Canonical(FALSE, {1, 2}), b \in BOOLEAN, s \in {0},
        q \in {{0}, {0, 1}, {2}}},
    {RelProd(Plain(1, LargeBdd), Plain(2, g), q) : g \in LargeBdds, q \in {{1}, {0, 2}}}}

(* If-then-else of three small diagrams, of three with three nodes on a    *)
(* level, of diagrams that coincide, and of ones with separate levels.     *)
RotatedBdds ==
    {Split(FALSE, which) :
        which \in {c \in Surjections : \A x \in SUBSET {0, 1} : c[x] # OneChoice[x]}}
Over0 == Canonical(FALSE, {0})
Over2 == Canonical(FALSE, {2})
Over3 == Canonical(FALSE, {3})
Over13 == Canonical(FALSE, {1, 3})
Handles(id, files, negations) == {Handle(id, f, b, 0) : f \in files, b \in negations}
IteJobs == {
    {Ite(Plain(1, f), Plain(2, g), Plain(3, h)) : f \in SmallBdds, g \in SmallBdds, h \in SmallBdds},
    {Ite(Plain(1, LargeBdd), Plain(2, g), Plain(3, h)) : g \in RotatedBdds, h \in RotatedBdds},
    {Ite(Handle(i, f, b, 0), Handle(j, f, FALSE, 0), Moved(k, f, c, s)) :
            f \in SmallBdds, i \in {1, 2}, j \in {1, 2}, k \in {1, 2},
            b \in BOOLEAN, c \in BOOLEAN, s \in {0, 1}},
    {Ite(f, g, h) : f \in Handles(1, Over0, BOOLEAN), g \in Handles(2, Over13, BOOLEAN),
                         h \in Handles(3, Over2, {FALSE})},
    {Ite(f, g, h) : f \in Handles(1, SmallBdds, {FALSE}), g \in Handles(2, Over2, {FALSE}),
                         h \in Handles(3, Over3, BOOLEAN)}}

(* Predicates.  A file whose nodes are in another order, as a builder may  *)
(* leave it, is not canonical.                                             *)
Renumbered(nodes) ==
    LET other(p) == IF ~IsNode(p) THEN p
                    ELSE Uid(LevelOf(p), 2 * MaxId + 1 - IdOf(p)
                                             - Cardinality(OnLevel(nodes, LevelOf(p))))
    IN  {Node(other(n.uid), other(n.low), other(n.high)) : n \in nodes}

Top(nodes) == (CHOOSE n \in Roots(nodes) : TRUE).uid
Negation(nodes) == CanonicalNodesOf(FALSE, (SUBSET Level) \ DenotesOf(FALSE, nodes, Top(nodes)))

(* Left out: two families of one node each (for disjointness, Disjointness *)
(* below), and families with a node whose two children are the same.       *)
Comparisons == {"subseteq", "subset", "disjoint"}
HasNode(files) == {f \in files : Cardinality(f) > 1}
NoneEqual(files) == {f \in files : \A n \in f : n.low # n.high}

TestJobs == {
    {Test(name, FALSE, Plain(1, f), Moved(2, g, b, s)) :
        name \in {"equal", "unequal"}, f \in SmallBdds, g \in SmallBdds, b \in BOOLEAN, s \in {0, 1}},
    {Test("equal", FALSE, Handle(1, f, b, 0), Moved(1, f, FALSE, s)) :
            f \in SmallBdds, b \in BOOLEAN, s \in {0, 1}},
    UNION {{Test("equal", FALSE, Plain(1, LargeBdd), Plain(2, g)),
                 Test("equal", FALSE, Plain(1, LargeBdd), Plain(2, Renumbered(g))),
                 Test("equal", FALSE, Handle(1, Negation(g), TRUE, 0), Plain(2, LargeBdd))} :
                    g \in LargeBdds},
    {Test(name, TRUE, Plain(1, f), Plain(2, g)) :
            name \in Comparisons, f \in HasNode(SmallZdds), g \in SmallZdds},
    {Test(name, TRUE, Plain(1, f), Plain(2, g)) :
            name \in Comparisons \ {"disjoint"}, f \in SmallZdds, g \in SmallZdds},
    {Test(name, TRUE, Plain(1, f), Plain(1, f)) : name \in Comparisons, f \in SmallZdds},
    {Test(name, TRUE, Plain(1, LargeZdd), Plain(2, g)) : name \in Comparisons, g \in LargeZdds},
    {Test(name, FALSE, Moved(1, f, b, s), NoHandle) :
            name \in {"isvar", "isithvar", "isnithvar", "iscube"},
            f \in SmallBdds, b \in BOOLEAN, s \in {0, 2}},
    {Test("ispoint", TRUE, Plain(1, f), NoHandle) : f \in NoneEqual(SmallZdds) \cup {LargeZdd}}}

AllJobs == ProductJobs \cup RelProdJobs \cup IteJobs \cup TestJobs

-----------------------------------------------------------------------------
(* Predicates on families that the documentation says more of than the     *)
(* code does.                                                              *)

Family(f) == CanonicalNodesOf(TRUE, f)
AnyOp == [a \in BOOLEAN |-> [b \in BOOLEAN |-> a /\ b]]
Compared(name, f, g) ==
    [name |-> name, zdd |-> TRUE, op |-> AnyOp, in0 |-> f, in1 |-> g, in2 |-> NoHandle,
     quant |-> {}]

(* Two families of one node each, which share the empty set or not.        *)
Singles == {{{}, {0}}, {{}, {1}}, {{0}}, {{1}}}
Disjointness == {{
    Compared("disjoint", Handle(1, Family(f), FALSE, 0), Handle(2, Family(g), FALSE, 0)) :
        f \in Singles, g \in Singles}}
=============================================================================
