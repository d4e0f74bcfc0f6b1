---------------------------- MODULE SingleInput ----------------------------
(***************************************************************************)
(* What the sweeps over one diagram have in common: Select and Intercut.   *)
(* Both read the nodes once, top down, and answer requests from one queue, *)
(* each request an arc that has a source but does not yet know which node  *)
(* it ends in; both are given labels in ascending order, of which those    *)
(* not yet passed are kept.                                                *)
(*                                                                         *)
(* A queue is the set of its requests.  All requests for one target are    *)
(* answered in one step, in the order of their sources, as a debug build   *)
(* does; a release build leaves that order open.                           *)
(***************************************************************************)
EXTENDS Handle, ArcFile

CONSTANT
    Jobs        \* Sets of what to compute: an operation, its diagram, labels and their values

ASSUME JobsAssumption == \A family \in Jobs : \A job \in family : job.zdd \in BOOLEAN

VARIABLES
    asked,      \* The job
    phase,      \* Where the sweep is
    bound,      \* The size the queue is allocated with
    pq,         \* The requests
    label,      \* The current level
    outId,      \* The number of nodes output on it
    v,          \* The node last read
    labels,     \* The labels not passed yet
    aw,         \* The writer of out_arcs
    result      \* The handle returned in place of the arcs, if so

sweepVars == <<pq, label, outId, v, labels, aw>>
vars == <<zdd, asked, phase, bound, sweepVars, result>>

NoLevel == -1

SweepInit ==
    /\ \E family \in Jobs : asked \in family
    /\ zdd = asked.zdd
    /\ phase = "begin" /\ bound = 0
    /\ pq = {}
    /\ label = NoLevel /\ outId = 0
    /\ v = Dummy
    /\ labels = asked.labels
    /\ aw = NewArcWriter
    /\ result = NoHandle

----------------------------------------------------------------------------
(* Requests, each on the level where it is to be answered.                 *)
Request(source, target, level) == [source |-> source, target |-> target, level |-> level]

AtLevel == {r \in pq : r.level = label}
Top == CHOOSE r \in AtLevel : \A s \in AtLevel : r.target <= s.target
With(t) == {r \in AtLevel : r.target = t}
Sources(t) == SetToSortSeq({r.source : r \in With(t)}, <)

IsRoot(source) == source = Nil
ArcsIn(t) == SelectSeq(Sources(t), LAMBDA s : ~IsRoot(s))

(* The 1-level cut of the output is the largest queue at the start of a    *)
(* level.                                                                  *)
CutAtLevel(c) == Cardinality(pq)                            \* (mutant)
CutUpToLevel(c) == Bigger(c, Cardinality(pq))

EndSweepLevel ==
    /\ phase = "requests" /\ AtLevel = {}
    /\ aw' = IF outId > 0 THEN PushLevelInfo(aw, label, outId) ELSE aw
    /\ phase' = "level"
    /\ UNCHANGED <<zdd, asked, bound, pq, label, outId, v, labels, result>>

(* The writer is closed with the sweep; it caps the cut by the number of   *)
(* arcs.                                                                   *)
CloseOutput == aw' = CloseArcs([aw EXCEPT !.file.cut1 = Smaller(Len(aw.file.internal), @)])

----------------------------------------------------------------------------
(* The meta data Reduce leaves with a canonical diagram: the 1-level cuts  *)
(* are exact, and the 2-level cuts follow from them.                       *)
Listed(S) == FoldSet(LAMBDA x, listed : Append(listed, x), <<>>, S)

ReducedFile(nodes) ==
    Fixup([EmptyFile EXCEPT
        !.nodes = Listed(nodes),
        !.levels = Listed({LevelOf(n.uid) : n \in nodes}),
        !.terminals = [b \in BOOLEAN |-> ArcsTo(nodes, b)],
        !.cut1 = [k \in CutKinds |-> OneLevelCut(nodes, k)]])

----------------------------------------------------------------------------
(* Reference: the function of the arcs or the handle the sweep ends with.  *)
HasResult == result # NoHandle
OutputNodes == NodesOfArcs(AllArcsIn(aw.file))
OutputFunction ==
    IF HasResult THEN FunctionOf(result)
    ELSE Denotes(OutputNodes, (CHOOSE n \in Roots(OutputNodes) : TRUE).uid)

InputFunction(kind) == DenotesOf(kind, Read(asked.in), First(asked.in).uid)
LabelSet == ToSet(asked.labels)

ArcsAcross(l) ==
    Cardinality({a \in ToSet(aw.file.internal) : LevelOf(a.source) < l /\ l <= LevelOf(a.target)})
=============================================================================
