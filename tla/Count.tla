------------------------------- MODULE Count --------------------------------
(***************************************************************************)
(* Counting paths or satisfying assignments (internal/algorithms/count.h,  *)
(* bdd/count.cpp, zdd/count.cpp).  Every node is read; the counts of all   *)
(* arcs into it are added up and passed on to both children.  For          *)
(* assignments, an arc also knows how many levels its paths have visited,  *)
(* and a node that is reached over fewer levels is counted twice for each  *)
(* that is missing; requests of one target come in that order.             *)
(*                                                                         *)
(* Shifts by a number of levels are exact for less than 32 of them.        *)
(*                                                                         *)
(* And optimisation, the cheapest satisfying assignment for costs of       *)
(* setting a variable (internal/algorithms/optmin.h, bdd/optmin.cpp).  On  *)
(* the way down, of all arcs into a node only a cheapest is kept, written  *)
(* to best_parent_graph, and what cannot beat the best path found so far   *)
(* is left unread.  Read backwards, the graph yields the path bottom-up,   *)
(* and so the nodes of a cube.                                             *)
(***************************************************************************)
EXTENDS Chain

VARIABLES
    answer,     \* What is returned in place of a diagram
    minSoFar,   \* Optimisation: the cost of the best path found
    minEnd      \* Its last arc

optVars == <<minSoFar, minEnd>>

Counts == asked.op \in {"pathcount", "size", "satcount"}

CountRequest(source, p, sum, visited) ==
    [source |-> source, target |-> p, level |-> LevelOf(p), sum |-> sum, visited |-> visited]

CountTerminal(b) ==
    CASE asked.op = "pathcount" -> 0
      [] asked.op = "size" -> One(b)
      [] asked.op = "satcount" -> IF b THEN Smaller(1, asked.var) * 2 ^ asked.var ELSE 0

TooFewVariables == asked.op = "satcount" /\ asked.var < VarCount(asked.in)

RejectVarCount ==
    /\ phase = "begin" /\ Counts /\ TooFewVariables
    /\ phase' = "failed"
    /\ UNCHANGED <<zdd, asked, bound, sweepVars, result, answer>>

CountTrivially ==
    /\ phase = "begin" /\ Counts /\ ~TooFewVariables /\ IsTerminalDiagram(asked.in)
    /\ answer' = CountTerminal(ValueOf(asked.in))
    /\ phase' = "done"
    /\ UNCHANGED <<zdd, asked, bound, sweepVars, result>>

BeginCount ==
    /\ phase = "begin" /\ Counts /\ ~TooFewVariables /\ ~IsTerminalDiagram(asked.in)
    /\ bound' = Max2LevelCut(asked.in, "Internal")
    /\ pq' = {CountRequest(Nil, First(asked.in).uid, 1, 0)}
    /\ phase' = "level"
    /\ UNCHANGED <<zdd, asked, label, outId, v, labels, aw, result, answer>>

CountNextLevel ==
    /\ phase = "level" /\ Counts /\ pq # {}
    /\ label' \in {r.level : r \in pq}
    /\ \A r \in pq : label' <= r.level
    /\ phase' = "requests"
    /\ UNCHANGED <<zdd, asked, bound, pq, outId, v, labels, aw, result, answer>>

----------------------------------------------------------------------------
(* The next node is taken to be what the first request asks for.           *)
Pulled == IF v = Dummy THEN First(asked.in) ELSE Seek(asked.in, v, v.uid + 4)

MergeSums(acc, next) ==
    [sum |-> IF asked.op = "satcount" THEN acc.sum * 2 ^ (next.visited - acc.visited) + next.sum
             ELSE acc.sum + next.sum,
     visited |-> next.visited]

ByVisited(r, s) == r.visited < s.visited

Merged(requests) ==
    LET sorted == SetToSortSeq(requests, LAMBDA r, s : ByVisited(r, s))
    IN  FoldLeft(MergeSums, [sum |-> 0, visited |-> sorted[1].visited], sorted)

ValueOfTrue(data) ==
    IF asked.op = "satcount" THEN data.sum * 2 ^ (asked.var - data.visited) ELSE data.sum

CountNode ==
    /\ phase = "requests" /\ Counts /\ AtLevel # {}
    /\ v' = Pulled
    /\ LET requests == {Top} \cup With(v'.uid)
           merged == Merged(requests)
           data == [merged EXCEPT !.visited = @ + 1]
           arcs == {<<v'.uid, v'.low>>, <<v'.uid + OutBit, v'.high>>}
       IN  /\ answer' = answer + ValueOfTrue(data) * Cardinality({a \in arcs : IsTrue(a[2])})
           /\ pq' = (pq \ requests)
                    \cup {CountRequest(a[1], a[2], data.sum, data.visited) :
                             a \in {b \in arcs : IsNode(b[2])}}
    /\ UNCHANGED <<zdd, asked, phase, bound, label, outId, labels, aw, result>>

FinishCount ==
    /\ phase = "level" /\ Counts /\ pq = {}
    /\ phase' = "done"
    /\ UNCHANGED <<zdd, asked, bound, sweepVars, result, answer>>

CountNext ==
    RejectVarCount \/ CountTrivially \/ BeginCount \/ CountNextLevel \/ CountNode \/ FinishCount

----------------------------------------------------------------------------
(* Reference: paths to the true terminal, of the tree of all paths; sets;  *)
(* assignments of the given number of variables.                           *)
Paths ==
    LET nodes == Read(asked.in)
        P[p \in 0 .. Nil] ==
            IF IsTerminal(p) THEN One(Value(p))
            ELSE P[NodeAt(nodes, p).low] + P[NodeAt(nodes, p).high]
    IN  P[First(asked.in).uid]

HowMany ==
    CASE asked.op = "pathcount" -> IF IsTerminalDiagram(asked.in) THEN 0 ELSE Paths
      [] asked.op = "size" -> Cardinality(InputFunction(zdd))
      [] asked.op = "satcount" ->
            IF asked.var = 0 THEN 0
            ELSE (Cardinality(InputFunction(zdd)) * 2 ^ asked.var) \div 2 ^ Levels

----------------------------------------------------------------------------
(* Optimisation.                                                           *)
Infinity == 1000000                     \* More than the costs of all levels
NotANumber == -1

OptInit == minSoFar = Infinity /\ minEnd = Nil

IsOptMin == asked.op = "optmin"
CostOf(l) == asked.cost[l]

OptRequest(p, cost, source) ==
    [source |-> source, target |-> p, level |-> LevelOf(p), cost |-> cost]

(* A terminal is its own cube.                                             *)
OptTrivially ==
    /\ phase = "begin" /\ IsOptMin /\ IsTerminalDiagram(asked.in)
    /\ answer' = IF ValueOf(asked.in) THEN 0 ELSE NotANumber
    /\ result' = asked.in
    /\ phase' = "done"
    /\ UNCHANGED <<zdd, asked, bound, sweepVars, chainVars, optVars>>

BeginOptMin ==
    /\ phase = "begin" /\ IsOptMin /\ ~IsTerminalDiagram(asked.in)
    /\ bound' = Max2LevelCut(asked.in, "Internal")
    /\ v' = First(asked.in)
    /\ pq' = {OptRequest(v'.uid, 0, Nil)}
    /\ phase' = "level"
    /\ UNCHANGED <<zdd, asked, label, outId, labels, aw, result, answer, chainVars, optVars>>

OptNextLevel ==
    /\ phase = "level" /\ IsOptMin /\ pq # {}
    /\ label' \in {r.level : r \in pq}
    /\ \A r \in pq : label' <= r.level
    /\ phase' = IF CostOf(label') < 0 THEN "failed" ELSE "requests"
    /\ UNCHANGED <<zdd, asked, bound, pq, outId, v, labels, aw, result, answer, chainVars, optVars>>

----------------------------------------------------------------------------
(* Of equally cheap arcs it is the one that the queue happens to give      *)
(* first.                                                                  *)
IsCheapest(r) == \A s \in With(r.target) : r.cost <= s.cost

(* A node whose low arc already costs too much is not even read.           *)
OptSkip ==
    /\ phase = "requests" /\ IsOptMin /\ AtLevel # {}
    /\ \E best \in With(Top.target) :
        /\ IsCheapest(best)
        /\ best.cost >= minSoFar
    /\ pq' = pq \ With(Top.target)
    /\ UNCHANGED <<zdd, asked, phase, bound, label, outId, v, labels, aw, result, answer,
                   chainVars, optVars>>

(* The better of a path that ends here and the best so far; the high arc   *)
(* is dropped if it costs too much after the low one was looked at.        *)
Ends(found, p, cost, arc) ==
    IF IsTrue(p) /\ cost < found[1] THEN <<cost, arc>> ELSE found
GoesOn(p, cost, arc) == IF IsNode(p) THEN {OptRequest(p, cost, arc)} ELSE {}

OptNode ==
    /\ phase = "requests" /\ IsOptMin /\ AtLevel # {}
    /\ \E best \in With(Top.target) :
        /\ IsCheapest(best)
        /\ best.cost < minSoFar
        /\ v' = Seek(asked.in, v, best.target)
        /\ aw' = IF best.source = Nil THEN aw ELSE PushInternal(aw, Arc(best.source, v'.uid))
        /\ LET costHigh == best.cost + CostOf(label)
               low == Ends(<<minSoFar, minEnd>>, v'.low, best.cost, v'.uid)
               high == IF costHigh >= low[1] THEN low
                       ELSE Ends(low, v'.high, costHigh, v'.uid + OutBit)
           IN  /\ minSoFar' = high[1] /\ minEnd' = high[2]
               /\ pq' = (pq \ With(best.target))
                        \cup GoesOn(v'.low, best.cost, v'.uid)
                        \cup IF costHigh >= low[1] THEN {}
                             ELSE GoesOn(v'.high, costHigh, v'.uid + OutBit)
    /\ UNCHANGED <<zdd, asked, phase, bound, label, outId, labels, result, answer, chainVars>>

----------------------------------------------------------------------------
(* The arcs of the path, from the last to the first.                       *)
OntoPath(path, arc) ==
    IF arc.target = Essential(Last(path)) THEN Append(path, arc.source) ELSE path
BestPath == FoldLeft(OntoPath, <<minEnd>>, Reverse(aw.file.internal))

OntoCube(w, arc) ==
    LET root == IF w.file.nodes = <<>> THEN Terminal(TRUE) ELSE w.latest.uid
        u == Uid(LevelOf(arc), MaxId)
    IN  Push(w, IF OutIdx(arc) = 1 THEN Node(u, Terminal(FALSE), root)
                                   ELSE Node(u, root, Terminal(FALSE)))

OutputCheapest ==
    /\ phase = "level" /\ IsOptMin /\ pq = {}
    /\ nw' = Closed(FoldLeft(OntoCube, nw, BestPath))
    /\ result' = Written(FALSE)
    /\ answer' = minSoFar
    /\ phase' = "done"
    /\ UNCHANGED <<zdd, asked, bound, sweepVars, policy, given, tally, optVars>>

OptNext == OptTrivially \/ BeginOptMin \/ OptNextLevel \/ OptSkip \/ OptNode \/ OutputCheapest

----------------------------------------------------------------------------
(* Reference: variables that the diagram does not depend on are left out.  *)
CostOfSet(x) == FoldSet(LAMBDA l, c : c + CostOf(l), 0, x)
LeastCost ==
    LET used == {LevelOf(n.uid) : n \in Read(asked.in)}
        f == {x \in InputFunction(zdd) : x \subseteq used}
    IN  IF f = {} THEN NotANumber
        ELSE CHOOSE c \in {CostOfSet(x) : x \in f} : \A x \in f : c <= CostOfSet(x)
=============================================================================
