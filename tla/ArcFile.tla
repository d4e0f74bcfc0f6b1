------------------------------ MODULE ArcFile -------------------------------
(***************************************************************************)
(* The file of an unreduced diagram (io/arc_file.h): its arcs, split into  *)
(* those to nodes, in the order they are pushed, and those to terminals.   *)
(* The latter have to be read back by descending source; the writer        *)
(* (io/arc_ofstream.h) keeps the ones that come out of order apart and     *)
(* sorts them when it is closed, the reader (io/arc_ifstream.h) merges the *)
(* two.  A writer is a record; each operator is one member function.       *)
(***************************************************************************)
EXTENDS DecisionDiagram, SequencesExt

(* An arc's source has out-index 1 if it is the high arc of its node.      *)
Arc(s, t) == [source |-> s, target |-> t]
ArcsOf(nodes) ==
    {Arc(n.uid, n.low) : n \in nodes} \cup {Arc(n.uid + OutBit, n.high) : n \in nodes}

EmptyArcFile == [internal |-> <<>>, inOrder |-> <<>>, outOfOrder |-> <<>>, levels |-> <<>>,
                 terminals |-> [v \in BOOLEAN |-> 0], width |-> 0, cut1 |-> 0]

NoSource == -1      \* There is no latest terminal yet; less than every source

NewArcWriter == [file |-> EmptyArcFile, latest |-> NoSource]

PushInternal(w, a) == [w EXCEPT !.file.internal = Append(@, a)]

AlwaysInOrder(w, a) == TRUE                                 \* (mutant)
ArcInOrder(w, a) == a.source > w.latest

PushTerminal(w, a) ==
    LET x == IF ArcInOrder(w, a)
             THEN [w EXCEPT !.file.inOrder = Append(@, a), !.latest = a.source]
             ELSE [w EXCEPT !.file.outOfOrder = Append(@, a)]
    IN  [x EXCEPT !.file.terminals[Value(a.target)] = @ + 1]

(* The arcs of several sources to one target, in the order of the sources. *)
PushAllInternal(w, sources, p) ==
    FoldLeft(LAMBDA x, s : PushInternal(x, Arc(s, p)), w, sources)
PushAllTerminal(w, sources, p) ==
    FoldLeft(LAMBDA x, s : PushTerminal(x, Arc(s, p)), w, sources)

PushLevelInfo(w, l, width) ==
    [w EXCEPT !.file.levels = Append(@, [level |-> l, width |-> width]),
              !.file.width = IF width > @ THEN width ELSE @]

BySource(a, b) == a.source < b.source
CloseArcs(w) == [w EXCEPT !.file.outOfOrder = SortSeq(@, BySource)]

----------------------------------------------------------------------------
(* Reading the arcs to terminals backwards, with i arcs of one file and j  *)
(* of the other unread.                                                    *)
TakesInOrder(f, i, j) ==
    IF (i > 0) # (j > 0) THEN i > 0 ELSE f.inOrder[i].source > f.outOfOrder[j].source

TerminalsRead(f) ==
    LET Read[i \in 0 .. Len(f.inOrder), j \in 0 .. Len(f.outOfOrder)] ==
            IF i + j = 0 THEN <<>>
            ELSE IF TakesInOrder(f, i, j)
                 THEN <<f.inOrder[i]>> \o Read[i - 1, j]
                 ELSE <<f.outOfOrder[j]>> \o Read[i, j - 1]
    IN  Read[Len(f.inOrder), Len(f.outOfOrder)]

----------------------------------------------------------------------------
(* The nodes the arcs of a file stand for.                                 *)
AllArcsIn(f) == ToSet(f.internal) \cup ToSet(f.inOrder) \cup ToSet(f.outOfOrder)

NodesOfArcs(arcs) ==
    LET target(s) == (CHOOSE a \in arcs : a.source = s).target
    IN  {Node(u, target(u), target(u + OutBit)) : u \in {Essential(a.source) : a \in arcs}}

(* Nodes are told apart by their uids, are prior to their children         *)
(* (node.h:231-234) and have one root among them.                          *)
IsDiagram(nodes) ==
    /\ IsFiniteSet(nodes)
    /\ Cardinality(Roots(nodes)) = 1
    /\ \A m, n \in nodes : m.uid = n.uid => m = n
    /\ \A n \in nodes :
        /\ n = Node(n.uid, n.low, n.high)
        /\ n.uid = Uid(LevelOf(n.uid), IdOf(n.uid))
        /\ LevelOf(n.uid) \in Level /\ IdOf(n.uid) \in 0 .. MaxId
        /\ \A p \in Targets(n) :
            \/ \E v \in BOOLEAN : p = Terminal(v)
            \/ LevelOf(n.uid) < LevelOf(p) /\ \E m \in nodes : m.uid = p

(* What Reduce needs of a file of arcs (reduce.h:617-627, util.h:169-179): *)
(* both arcs of each node, arcs to nodes by ascending target, arcs to      *)
(* terminals read back by descending source, and exact level information.  *)
IsSemiTransposed(f) ==
    LET arcs == AllArcsIn(f)
        nodes == NodesOfArcs(arcs)
        back == TerminalsRead(f)
    IN  /\ Cardinality(arcs) = 2 * Cardinality(nodes)
        /\ arcs = ArcsOf(nodes)
        /\ IsDiagram(nodes)
        /\ \A i, j \in DOMAIN f.internal : i < j => f.internal[i].target <= f.internal[j].target
        /\ \A i, j \in DOMAIN back : i < j => back[i].source > back[j].source
        /\ \A i, j \in DOMAIN f.levels : i < j => f.levels[i].level < f.levels[j].level
        /\ ToSet(f.levels) = {[level |-> l, width |-> Cardinality(OnLevel(nodes, l))] :
                                 l \in {LevelOf(n.uid) : n \in nodes}}
        /\ \A v \in BOOLEAN :
               f.terminals[v] = Cardinality({a \in arcs : IsTerminal(a.target) /\ Value(a.target) = v})
=============================================================================
