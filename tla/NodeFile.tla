------------------------------ MODULE NodeFile ------------------------------
(***************************************************************************)
(* The file of a node-based diagram with its meta data (io/node_file.h)    *)
(* and the writer that fills it bottom-up and derives the meta data from   *)
(* what is pushed (io/node_ofstream.h).  A writer is a record; each        *)
(* operator is one member function, from a writer to the writer after the  *)
(* call.                                                                   *)
(***************************************************************************)
EXTENDS DecisionDiagram

CONSTANT CutMax     \* cut::max, the largest value of a cut size

(* A cut is a size_t, up to 2^64 - 1; a uid has 21 bits for its level and  *)
(* 41 for its identifier (ptr.h:177, 415): there are fewer than 2^62.      *)
ASSUME CutAssumption ==
    /\ CutMax \in Nat
    /\ Levels * (MaxId + 1) < CutMax

Bigger(a, b) == IF a > b THEN a ELSE b
Smaller(a, b) == IF a < b THEN a ELSE b
One(b) == IF b THEN 1 ELSE 0

NoCut == [k \in CutKinds |-> 0]
EmptyFile == [nodes |-> <<>>, levels |-> <<>>, sorted |-> FALSE, indexable |-> FALSE,
              width |-> 0, terminals |-> [v \in BOOLEAN |-> 0],
              cut1 |-> [k \in CutKinds |-> CutMax], cut2 |-> [k \in CutKinds |-> CutMax]]

(* What __reduce_init_output hands to a sweep that writes a reduced file.  *)
EmptyOutput == [EmptyFile EXCEPT !.sorted = TRUE, !.indexable = TRUE, !.cut1 = NoCut]

Dummy == Node(Uid(0, 0), Nil, Nil)

(* A writer right after open(f).                                           *)
Opened(f) == [open |-> TRUE, file |-> f, latest |-> Dummy, levelSize |-> 0,
              atBottom |-> [v \in BOOLEAN |-> 0], maxShort |-> 0, curShort |-> 0,
              longPtr |-> Nil, long |-> 0]

HasPushed(w) == w.file.nodes # <<>> \/ w.file.levels # <<>>

(* The constructors open the file and then set the flags; open() does not. *)
Constructed(f) ==
    LET w == Opened(f)
    IN  [w EXCEPT !.file.sorted = ~HasPushed(w), !.file.indexable = ~HasPushed(w)]

----------------------------------------------------------------------------
UnsafePushLevel(w, l, wid) ==
    [w EXCEPT !.file.levels = Append(@, [level |-> l, width |-> wid]),
              !.file.width = Bigger(@, wid)]

TerminalsOf(n, v) ==
    One(IsTerminal(n.low) /\ Value(n.low) = v) + One(IsTerminal(n.high) /\ Value(n.high) = v)

UnsafePushNode(w, n) ==
    [w EXCEPT !.file.nodes = Append(@, n),
              !.file.terminals = [v \in BOOLEAN |-> @[v] + TerminalsOf(n, v)]]

SetNumberOfTerminals(w, f, t) ==
    [w EXCEPT !.file.terminals = [v \in BOOLEAN |-> IF v THEN t ELSE f]]

(* A file of one terminal, as its writers have it.                         *)
PushTerminalNode(w, v) ==
    SetNumberOfTerminals(UnsafePushNode(w, TerminalNode(v)), One(~v), One(v))

SetCanonical(w, b) == [w EXCEPT !.file.sorted = b, !.file.indexable = b]

MaxOneLevelCut(w, c) == [w EXCEPT !.file.cut1 = [k \in CutKinds |-> Bigger(@[k], c[k])]]
IncOneLevelCut(w, c) == [w EXCEPT !.file.cut1 = [k \in CutKinds |-> @[k] + c[k]]]

(* The cut of some arcs, and those of a node with or without a taint.      *)
Cut(inner, f, t) == [k \in CutKinds |->
    inner + (IF Includes(k, FALSE) THEN f ELSE 0) + (IF Includes(k, TRUE) THEN t ELSE 0)]
CutOfArc(p) == Cut(One(IsNode(p)), One(IsFalse(p)), One(IsTrue(p)))
CutAdd(c, d) == [k \in CutKinds |-> c[k] + d[k]]

NeverTainted(p) == FALSE                                    \* (mutant)
IsTainted(p) == IsFlagged(p)

CutsOf(n, flagged) ==
    LET arcCut(p) == IF IsTainted(p) = flagged THEN CutOfArc(Unflag(p)) ELSE NoCut
    IN  CutAdd(arcCut(n.low), arcCut(n.high))

----------------------------------------------------------------------------
(* push(n): canonicity flags, level information and the 1-level cut.       *)
InOrderOfHigh(w, n) == n.high <= w.latest.high              \* (mutant)
InOrderOfLow(w, n) ==                                       \* (mutant)
    \/ n.low < w.latest.low
    \/ n.low = w.latest.low /\ n.high < w.latest.high
InOrder(w, n) ==
    \/ n.high < w.latest.high
    \/ n.high = w.latest.high /\ n.low < w.latest.low

Follows(w, n, newLevel) ==
    IF newLevel THEN IdOf(n.uid) = MaxId ELSE IdOf(n.uid) = IdOf(w.latest.uid) - 1

NeverLong(w, p) == FALSE                                    \* (mutant)
IsLong(w, p) == IsNode(p) /\ p > w.longPtr

CommitLevel(w) ==
    [UnsafePushLevel(w, LevelOf(w.latest.uid), w.levelSize) EXCEPT
        !.levelSize = 0,
        !.maxShort = Bigger(@, w.curShort),
        !.curShort = 0,
        !.longPtr = Uid(LevelOf(w.latest.uid), MaxId)]

Flagged(w, n, first, newLevel) ==
    IF first
    THEN [w EXCEPT !.file.indexable = @ /\ (IsTerminal(n.uid) \/ IdOf(n.uid) = MaxId)]
    ELSE [w EXCEPT !.file.sorted = @ /\ (newLevel \/ InOrder(w, n)),
                   !.file.indexable = @ /\ Follows(w, n, newLevel)]

Push(w, n) ==
    LET first == w.latest = Dummy
        newLevel == ~first /\ LevelOf(w.latest.uid) # LevelOf(n.uid)
        checked == Flagged(w, n, first, newLevel)
        x == IF newLevel THEN CommitLevel(checked) ELSE checked
        bottom == x.longPtr = Nil /\ IsNode(n.uid)
        long == Cardinality({s \in {"low", "high"} : IsLong(x, n[s])})
        short == Cardinality({s \in {"low", "high"} : IsNode(n[s]) /\ ~IsLong(x, n[s])})
        terminal == [v \in BOOLEAN |-> One(IsTerminal(n.uid) /\ Value(n.uid) = v)]
        y == [x EXCEPT
                !.file.terminals = [v \in BOOLEAN |-> @[v] + terminal[v]],
                !.atBottom = [v \in BOOLEAN |-> @[v] + One(bottom) * TerminalsOf(n, v)],
                !.long = @ + long,
                !.curShort = @ + short,
                !.latest = n,
                !.levelSize = @ + 1]
    IN  UnsafePushNode(y, n)

----------------------------------------------------------------------------
(* fixup_ilevel_cuts(): cap the cuts by what the sizes of the file allow.  *)
Count(f) == Len(f.nodes)
IsTerminalFile(f) == f.terminals[FALSE] + f.terminals[TRUE] = 1

AllArcs(f, k) ==
    IF Count(f) > CutMax \div 2 THEN CutMax
    ELSE 2 * Count(f) - (IF Includes(k, FALSE) THEN 0 ELSE f.terminals[FALSE])
                      - (IF Includes(k, TRUE) THEN 0 ELSE f.terminals[TRUE])

TightNodeBound(f) == Smaller(Count(f), CutMax)              \* (mutant)
NodeBound(f) == IF Count(f) < CutMax THEN Count(f) + 1 ELSE CutMax

FixedCut1(f) == [k \in CutKinds |->
    IF IsTerminalFile(f)
    THEN CASE k = "Internal" -> 0 [] k = "All" -> 1
           [] OTHER -> f.terminals[k = "Internal_True"]
    ELSE Bigger(1, Smaller(f.cut1[k], Smaller(NodeBound(f), AllArcs(f, k))))]

FromCut1(c, k) ==
    IF c[k] < CutMax \div 3 THEN (c["Internal"] * 3) \div 2 + (c[k] - c["Internal"])
                            ELSE CutMax

FixedCut2(f, c) == [k \in CutKinds |->
    IF IsTerminalFile(f) \/ Count(f) = Len(f.levels) THEN c[k]
    ELSE Smaller(Smaller(f.cut2[k], FromCut1(c, k)), Smaller(NodeBound(f), AllArcs(f, k)))]

Fixup(f) == LET c == FixedCut1(f) IN [f EXCEPT !.cut1 = c, !.cut2 = FixedCut2(f, c)]

(* close(): commit the last level, if push was used, then fix the cuts.    *)
AboveBottom(w, k) ==
    LET above(v) == IF Includes(k, v) THEN w.file.terminals[v] - w.atBottom[v] ELSE 0
    IN  above(FALSE) + above(TRUE)

InFile(w, k) ==
    LET all(v) == IF Includes(k, v) THEN w.file.terminals[v] ELSE 0 IN all(FALSE) + all(TRUE)

WithCut1(w) ==
    LET short == Bigger(w.maxShort, w.curShort)
    IN  [w EXCEPT
            !.levelSize = 0,
            !.maxShort = short,
            !.file.cut1 = [k \in CutKinds |->
                Bigger(short + w.long + AboveBottom(w, k), InFile(w, k))]]

LevelForgotten(w) == w                                      \* (mutant)
LevelCommitted(w) ==
    IF IsTerminal(w.latest.uid) THEN w
    ELSE UnsafePushLevel(w, LevelOf(w.latest.uid), w.levelSize)

Closed(w) ==
    IF ~w.open THEN w
    ELSE LET x == IF w.latest = Dummy THEN w ELSE WithCut1(LevelCommitted(w))
         IN  [x EXCEPT !.open = FALSE, !.file = Fixup(@)]

----------------------------------------------------------------------------
(* What the meta data of a closed file is worth to an algorithm that reads *)
(* it.                                                                     *)
NodesOf(f) == {f.nodes[i] : i \in DOMAIN f.nodes}
InnerNodes(f) == {n \in NodesOf(f) : IsNode(n.uid)}

CutsAreBounds(f) ==
    InnerNodes(f) # {} => \A k \in CutKinds :
        /\ OneLevelCut(InnerNodes(f), k) <= f.cut1[k]
        /\ TwoLevelCut(InnerNodes(f), k) <= f.cut2[k]

ArcsTo(nodes, v) ==
    Cardinality({a \in nodes \X {"low", "high"} :
                    IsTerminal(a[1][a[2]]) /\ Value(a[1][a[2]]) = v})

CountsAreExact(f) ==
    LET inner == InnerNodes(f)
        here == {LevelOf(n.uid) : n \in inner}
    IN  /\ inner # {} => \A v \in BOOLEAN : f.terminals[v] = ArcsTo(inner, v)
        /\ {f.levels[i] : i \in DOMAIN f.levels} =
               {[level |-> l, width |-> Cardinality(OnLevel(inner, l))] : l \in here}
        /\ \A i, j \in DOMAIN f.levels : i < j => f.levels[i].level > f.levels[j].level
        /\ f.width = MaxOf({Cardinality(OnLevel(inner, l)) : l \in here} \cup {0})

(* A diagram with the flags of a canonical one is the one canonical diagram *)
(* of its function, which is what comparing two files node by node needs.  *)
Reduced(nodes) ==
    /\ \A n \in nodes : ReductionRule(n) = n.uid
    /\ \A m, n \in nodes :
           LevelOf(m.uid) = LevelOf(n.uid) /\ m.low = n.low /\ m.high = n.high => m = n

FlagsMeanCanonical(f) ==
    LET inner == InnerNodes(f)
    IN  (f.sorted /\ f.indexable /\ Reduced(inner) /\ Cardinality(Roots(inner)) = 1)
            => inner = CanonicalNodes(Denotes(inner, (CHOOSE n \in Roots(inner) : TRUE).uid))
=============================================================================
