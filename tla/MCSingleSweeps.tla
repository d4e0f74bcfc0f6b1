--------------------------- MODULE MCSingleSweeps ---------------------------
(* Instances of SingleSweeps.                                              *)
EXTENDS SingleSweeps, TLC

None == [l \in Level |-> FALSE]
Same == [l \in Level |-> l]
JobWith(op, kind, handle, list) ==
    [op |-> op, zdd |-> kind, in |-> handle, labels |-> list, values |-> None,
     var |-> 0, negated |-> {}, map |-> Same, cost |-> Same, true |-> {}]
JobOn(op, kind, handle, labelSet, vals) ==
    [JobWith(op, kind, handle, SetToSortSeq(labelSet, <)) EXCEPT !.values = vals]

(* The canonical diagrams of all functions of three variables, with a gap. *)
Gapped == {0, 2, 3}
FunctionsOf(kind, variables) ==
    {IF kind THEN f ELSE {x \in SUBSET Level : x \cap variables \in f} :
        f \in SUBSET (SUBSET variables)}
BddFiles == {CanonicalNodesOf(FALSE, f) : f \in FunctionsOf(FALSE, Gapped)}
ZddFiles == {CanonicalNodesOf(TRUE, f) : f \in FunctionsOf(TRUE, Gapped)}

RootLevel(nodes) == LevelOf((CHOOSE n \in nodes : \A m \in nodes : n.uid <= m.uid).uid)

Restrictions == {
    {JobOn("restrict", FALSE, Handle(1, f, b, 0), q, vals) :
        f \in BddFiles, b \in BOOLEAN, q \in {{0}, {1, 2}, {2, 3}, {}},
        vals \in {None, [None EXCEPT ![0] = TRUE, ![2] = TRUE]}}}

Subsets == {
    {JobOn("offset", TRUE, Handle(1, f, FALSE, 0), q, None) :
        f \in ZddFiles, q \in {{0}, {1, 2}, {0, 3}, {}}},
    {job \in {JobOn("onset", TRUE, Handle(1, f, FALSE, 0), q, None) :
                 f \in ZddFiles, q \in {{0}, {3}, {0, 2}, {2, 3}, {0, 1}, {}}} :
        \A i \in DOMAIN job.labels : RootLevel(job.in.nodes) <= job.labels[i]}}

Cuts == {
    {JobOn("expand", TRUE, Handle(1, f, FALSE, 0), q, None) :
        f \in {CanonicalNodesOf(TRUE, g) : g \in FunctionsOf(TRUE, {1, 3})},
        q \in {{0}, {2}, {0, 2}, {}}},
    {JobOn("complement", TRUE, Handle(1, f, FALSE, 0), q, None) :
        f \in ZddFiles \ {{TerminalNode(TRUE)}}, q \in {Gapped, Level}},
    {JobOn("change", TRUE, Handle(1, f, FALSE, 0), q, None) :
        f \in ZddFiles, q \in {{0}, {1, 2}, {0, 2, 3}, {}}}}

Conversions == {
    {JobOn("zdd_from", TRUE, Handle(1, f, b, 0), q, None) :
        f \in BddFiles, b \in BOOLEAN, q \in {Gapped, Level}},
    {JobOn("bdd_from", FALSE, Handle(1, f, FALSE, 0), q, None) :
        f \in ZddFiles, q \in {Gapped, Level}}}

Shifted == {
    {JobOn("restrict", FALSE, Handle(1, CanonicalNodesOf(FALSE, f), FALSE, 2), {3}, None) :
        f \in FunctionsOf(FALSE, {0, 1})}}

(* The chains of labels in any order, with repetitions.                    *)
SeqsUpTo(n, S) == UNION {[1 .. k -> S] : k \in 0 .. n}
NoInput == Handle(0, {}, FALSE, 0)
Building == {
    {[JobWith(op, kind, NoInput, <<>>) EXCEPT !.var = l] :
        op \in {"const", "ithvar"}, kind \in BOOLEAN, l \in {0, 1}},
    {[JobWith("nithvar", FALSE, NoInput, <<>>) EXCEPT !.var = l] : l \in Level},
    {[JobWith(op, FALSE, NoInput, q) EXCEPT !.negated = neg] :
        op \in {"and", "or"}, q \in SeqsUpTo(3, Level), neg \in {{}, {0, 2}, {1, 3}}},
    {JobWith(op, TRUE, NoInput, q) :
        op \in {"vars", "singletons", "powerset"}, q \in SeqsUpTo(3, Level) \cup {<<3, 2, 1, 0>>}},
    {[JobWith(op, TRUE, NoInput, q) EXCEPT !.var = l] :
        op \in {"zdd_ithvar", "zdd_nithvar"}, l \in {0, 1},
        q \in {<<3, 2, 1, 0>>, <<3, 1, 1, 0>>, <<1, 0>>, <<0, 1>>}},
    {[JobWith(op, TRUE, NoInput, q) EXCEPT !.var = 2] :
        op \in {"zdd_ithvar", "zdd_nithvar"}, q \in {<<2>>, <<3, 2>>, <<>>}}}

Maps == {Same, [l \in Level |-> l - 2], [l \in Level |-> IF l = 0 THEN 0 ELSE l - 1],
         [l \in Level |-> 3 - l], [l \in Level |-> IF l <= 2 THEN l ELSE 2],
         [l \in Level |-> IF l = 2 THEN 1 ELSE l]}
InRange(job) ==
    \A n \in job.in.nodes : IsNode(n.uid) => job.map[LevelOf(n.uid) + job.in.shift] \in Level
Replacements == {
    {job \in {[JobWith("replace", FALSE, Handle(1, f, b, 0), <<>>) EXCEPT !.map = m] :
                  f \in BddFiles, m \in Maps, b \in BOOLEAN} : InRange(job)},
    {job \in {[JobWith("replace", FALSE, Handle(1, CanonicalNodesOf(FALSE, f), FALSE, 2), <<>>)
                    EXCEPT !.map = m] :
                  f \in {g \in FunctionsOf(FALSE, {0, 1}) : g \notin {{}, SUBSET Level}},
                  m \in Maps} : InRange(job)}}

(* Counts with more variables than levels, of diagrams with a shift, and   *)
(* with too few.                                                           *)
Countings == {
    {[JobWith(op, FALSE, Handle(1, f, b, 0), <<>>) EXCEPT !.var = n] :
        op \in {"pathcount", "satcount"}, f \in BddFiles, b \in BOOLEAN, n \in {0, 2, 3, 5}},
    {JobWith("size", TRUE, Handle(1, f, FALSE, 0), <<>>) : f \in ZddFiles}}

Costs == {[l \in Level |-> 1], [l \in Level |-> 3 - l], [l \in Level |-> IF l = 2 THEN 0 ELSE l],
          [l \in Level |-> IF l = 3 THEN -1 ELSE 1]}
Minima == {
    {[JobWith("optmin", FALSE, Handle(1, f, b, 0), <<>>) EXCEPT !.cost = c] :
        f \in BddFiles, b \in BOOLEAN, c \in Costs}}

Walking == {
    {[JobWith("eval", FALSE, Handle(1, f, b, 0), <<>>) EXCEPT !.true = x] :
        f \in BddFiles, b \in BOOLEAN, x \in {{}, {0}, {0, 2}, {2, 3}, {0, 1, 2, 3}}},
    {[JobWith("eval_given", FALSE, Handle(1, f, FALSE, 0), q) EXCEPT !.true = x] :
        f \in BddFiles, x \in {{0}, {2, 3}},
        q \in {<<0, 1, 2, 3>>, <<0, 2, 3>>, <<0, 3, 2>>, <<2>>, <<1, 0, 2, 3>>}},
    {JobWith("contains", TRUE, Handle(1, f, FALSE, 0), SetToSortSeq(x, <)) :
        f \in ZddFiles, x \in SUBSET Level},
    {JobWith(op, FALSE, Handle(1, f, b, 0), q) :
        op \in {"satmin", "satmax"}, f \in BddFiles, b \in BOOLEAN,
        q \in {<<>>, <<1, 2>>, <<0, 1, 2, 3>>}},
    {JobWith(op, TRUE, Handle(1, f, FALSE, 0), <<>>) :
        op \in {"minelem", "maxelem"}, f \in ZddFiles}}

AllJobs ==
    Restrictions \cup Subsets \cup Cuts \cup Conversions \cup Shifted
        \cup Building \cup Replacements \cup Countings \cup Minima \cup Walking
=============================================================================
