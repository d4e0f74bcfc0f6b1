------------------------------- MODULE Reduce -------------------------------
(***************************************************************************)
(* The Reduce sweep (internal/algorithms/reduce.h): from the arcs of an    *)
(* unreduced diagram, read bottom-up, to the nodes of the reduced one.     *)
(* Nodes of a level are put together from the arcs forwarded by the levels *)
(* below and from the file of arcs to terminals; rule 1 maps a redundant   *)
(* node to its child, rule 2 maps nodes with equal children to one of      *)
(* them; the mapping of a node is forwarded along the arcs into it.        *)
(*                                                                         *)
(* A file of arcs is the set of its unread arcs, delivered largest target  *)
(* (internal) or largest source (terminal) first.  The priority queue is   *)
(* LevelizedQueue, its levels renumbered bottom-up; this module uses it as *)
(* its client and is checked to keep to its specification.                 *)
(***************************************************************************)
EXTENDS NodeFile, ArcFile

CONSTANT
    Jobs        \* What to reduce: a kind of diagram, policy.map_level, which is
                \* from levels of the input to levels, and the inputs

(* reduction_rule answers with the uid of the node itself if the node is   *)
(* not redundant (reduce.h:311-312), so that uid must not be the one of a  *)
(* child, which is a node of the output.  Only levels that map_level moves *)
(* up can meet; there the sweeps number the nodes from 0 and Reduce does   *)
(* from MaxId down, with 2^41 identifiers between them (ptr.h:415).        *)
KeepsApart(map, nodes) ==
    \A m, n \in nodes :
        LevelOf(n.uid) < LevelOf(m.uid) /\ map[LevelOf(m.uid)] = LevelOf(n.uid)
            => IdOf(n.uid) + Cardinality(OnLevel(nodes, LevelOf(m.uid))) <= MaxId

ASSUME JobsAssumption ==
    \A job \in Jobs :
        /\ job.zdd \in BOOLEAN
        /\ DOMAIN job.map \subseteq Level
        /\ \A l \in DOMAIN job.map : job.map[l] \in Level
        /\ \A l, m \in DOMAIN job.map : l < m => job.map[l] < job.map[m]
        /\ \A nodes \in job.inputs :
            /\ IsDiagram(nodes)
            /\ \A n \in nodes : LevelOf(n.uid) \in DOMAIN job.map
            /\ KeepsApart(job.map, nodes)

VARIABLES
    input,      \* The nodes of the unreduced diagram
    mapLevel,   \* policy.map_level
    levels,     \* The levels not yet read from its level information
    internal,   \* The arcs to nodes not yet read
    terminal,   \* The arcs to terminals not yet read
    pq,         \* The content of reduce_pq
    pqLevel,    \* Its current level, or NoLabel
    phase,      \* Where the sweep is
    label,      \* in_label, the level being reduced
    eHigh,      \* The high arc of the node being put together, if any
    grouping,   \* child_grouping: the nodes rule 1 left
    red1,       \* red1_mapping not yet forwarded
    red2,       \* red2_mapping not yet forwarded
    lastRed1,   \* next_red1: the mapping read last from red1_mapping
    outNode,    \* out_node
    outId,      \* out_id
    local,      \* local_1level_cut
    tainted,    \* tainted_1level_cut
    w           \* out, the writer of the output file

levelVars == <<label, eHigh, grouping, red1, red2, lastRed1, outNode, outId, local, tainted>>
vars == <<zdd, input, mapLevel, levels, internal, terminal, pq, pqLevel, phase, levelVars, w>>

NoLabel == -1
NoArc == [source |-> Nil, target |-> Nil]
NoNode == Node(Uid(0, 0), Nil, Nil)
NoMapping == [old |-> Uid(0, 0), new |-> Uid(0, 0)]

----------------------------------------------------------------------------
(* The arcs to be read, and the queue of those forwarded.                  *)
LargestSource(arcs) == CHOOSE a \in arcs : \A c \in arcs : c.source <= a.source

PeekTerminal == LargestSource(terminal)
PeekInternal ==
    LargestSource({a \in internal : \A c \in internal : c.target <= a.target})

(* The queue as its client sees it.  Every stop level is a level of the     *)
(* input, so it does not matter that Known has the other levels, too.      *)
Upward(l) == IF l = NoLabel THEN NoLabel ELSE Levels - 1 - l
Queued(a) == [level |-> Upward(LevelOf(a.source)), key |-> Uid(Levels, 0) - a.source]
Q == INSTANCE LevelizedQueue WITH
        Element <- {Queued(Arc(Uid(l, i) + x, Nil)) :
                       l \in Level, i \in 0 .. MaxId, x \in {0, OutBit}},
        Known <- {Upward(l) : l \in Level},
        StopLevels <- {Upward(l) : l \in Level},
        NoLabel <- NoLabel,
        content <- {Queued(a) : a \in pq},
        level <- Upward(pqLevel)

AtLevel == {a \in pq : LevelOf(a.source) = pqLevel}
CanPull == AtLevel # {}
QueueBottom == CHOOSE a \in AtLevel : \A c \in AtLevel : a.source <= c.source   \* (mutant)
QueueTop == LargestSource(AtLevel)
TerminalsQueued(v) == Cardinality({a \in pq : IsTerminal(a.target) /\ Value(a.target) = v})
UnreadTerminals(v) == Cardinality({a \in terminal : Value(a.target) = v})

----------------------------------------------------------------------------
Init ==
    /\ \E job \in Jobs : zdd = job.zdd /\ mapLevel = job.map /\ input \in job.inputs
    /\ levels = {LevelOf(n.uid) : n \in input}
    /\ internal = {a \in ArcsOf(input) : IsNode(a.target)}
    /\ terminal = {a \in ArcsOf(input) : IsTerminal(a.target)}
    /\ pq = {} /\ pqLevel = NoLabel
    /\ phase = "begin"
    /\ label = NoLabel /\ eHigh = NoArc /\ grouping = {}
    /\ red1 = {} /\ red2 = {} /\ lastRed1 = NoMapping
    /\ outNode = NoNode /\ outId = MaxId
    /\ local = NoCut /\ tainted = NoCut
    /\ w = Constructed(EmptyOutput)

(* The trivial single-node case.                                           *)
SingleArc(i) == CHOOSE a \in terminal : OutIdx(a.source) = i

SingleCut(n) == [k \in CutKinds |->
    CASE k = "Internal" -> 1
      [] k = "All" -> 2
      [] OTHER -> Bigger(1, TerminalsOf(n, k = "Internal_True"))]

SingleTerminal(v) ==
    LET x == PushTerminalNode(w, v)
        cut == CutAdd(x.file.cut1, Cut(0, One(~v), One(v)))
    IN  [x EXCEPT !.file.cut1 = cut, !.file.cut2 = cut]

SingleInner(n) ==
    LET l == mapLevel[LevelOf(n.uid)]
        out == Node(Uid(l, MaxId), n.low, n.high)
        x == UnsafePushLevel(UnsafePushNode(w, out), l, 1)
    IN  [x EXCEPT !.file.cut1 = SingleCut(out), !.file.cut2 = SingleCut(out)]

ReduceSingleNode ==
    /\ phase = "begin" /\ levels = {LevelOf(n.uid) : n \in input} /\ internal = {}
    /\ LET n == Node(SingleArc(0).source, SingleArc(0).target, SingleArc(1).target)
           p == ReductionRule(n)
       IN  w' = IF p = n.uid THEN SingleInner(n) ELSE SingleTerminal(Value(p))
    /\ terminal' = {} /\ levels' = {}
    /\ phase' = "close"
    /\ UNCHANGED <<internal, pq, pqLevel, levelVars>>

BeginLevel ==
    /\ phase = "begin" /\ levels # {}
    /\ internal # {} \/ levels # {LevelOf(n.uid) : n \in input}
    /\ label' = MaxOf(levels)
    /\ levels' = levels \ {label'}
    /\ phase' = "pull"
    /\ eHigh' = NoArc /\ grouping' = {}
    /\ red1' = {} /\ red2' = {} /\ lastRed1' = NoMapping
    /\ outNode' = NoNode /\ outId' = MaxId
    /\ local' = NoCut /\ tainted' = NoCut
    /\ UNCHANGED <<internal, terminal, pq, pqLevel, w>>

----------------------------------------------------------------------------
(* Putting the nodes of the level together, high arc first.                *)
MorePulls ==
    \/ terminal # {} /\ LevelOf(PeekTerminal.source) = label
    \/ CanPull

TakesTerminal ==
    ~CanPull \/ (terminal # {} /\ PeekTerminal.source > QueueTop.source)

NextArc == IF TakesTerminal THEN PeekTerminal ELSE QueueTop

TakeNextArc ==
    IF TakesTerminal THEN terminal' = terminal \ {PeekTerminal} /\ UNCHANGED pq
                     ELSE pq' = pq \ {QueueTop} /\ UNCHANGED terminal

PullHigh ==
    /\ phase = "pull" /\ eHigh = NoArc /\ MorePulls
    /\ eHigh' = NextArc
    /\ TakeNextArc
    /\ UNCHANGED <<levels, internal, pqLevel, phase, label, grouping, red1, red2,
                   lastRed1, outNode, outId, local, tainted, w>>

PullLow ==
    /\ phase = "pull" /\ eHigh # NoArc
    /\ LET n == Node(Essential(NextArc.source), NextArc.target, eHigh.target)
           p == ReductionRule(n)
       IN  IF p = n.uid
           THEN grouping' = grouping \cup {n} /\ UNCHANGED red1
           ELSE red1' = red1 \cup {[old |-> n.uid, new |-> Essential(p)]} /\ UNCHANGED grouping
    /\ eHigh' = NoArc
    /\ TakeNextArc
    /\ UNCHANGED <<levels, internal, pqLevel, phase, label, red2, lastRed1, outNode,
                   outId, local, tainted, w>>

(* The arcs that cross the level: queued for a level above, or unread.     *)
Crossing ==
    Cut(Cardinality(pq) - TerminalsQueued(FALSE) - TerminalsQueued(TRUE),
        TerminalsQueued(FALSE) + UnreadTerminals(FALSE),
        TerminalsQueued(TRUE) + UnreadTerminals(TRUE))

EndPulls ==
    /\ phase = "pull" /\ eHigh = NoArc /\ ~MorePulls
    /\ local' = Crossing
    /\ phase' = "output"
    /\ UNCHANGED <<levels, internal, terminal, pq, pqLevel, label, eHigh, grouping,
                   red1, red2, lastRed1, outNode, outId, tainted, w>>

----------------------------------------------------------------------------
(* Rule 2.  The sorter leaves the order of nodes with equal children open, *)
(* and with it whose flags count.                                          *)
ChildrenFirst(n, m) ==
    \/ Unflag(n.high) > Unflag(m.high)
    \/ Unflag(n.high) = Unflag(m.high) /\ Unflag(n.low) >= Unflag(m.low)

SameRawChildren(n) == outNode.low = n.low /\ outNode.high = n.high     \* (mutant)
SameChildren(n) == outNode.low = Unflag(n.low) /\ outNode.high = Unflag(n.high)

OutputNew(n) ==
    /\ ~SameChildren(n)
    /\ outNode' = Node(Uid(mapLevel[label], outId), Unflag(n.low), Unflag(n.high))
    /\ outId' = outId - 1
    /\ w' = UnsafePushNode(w, outNode')
    /\ local' = CutAdd(local, CutsOf(n, FALSE))
    /\ tainted' = CutAdd(tainted, CutsOf(n, TRUE))

OutputSame(n) ==
    /\ SameChildren(n)
    /\ UNCHANGED <<outNode, outId, w, local, tainted>>

Output ==
    /\ phase = "output"
    /\ \E n \in grouping :
        /\ \A m \in grouping : ChildrenFirst(n, m)
        /\ OutputNew(n) \/ OutputSame(n)
        /\ grouping' = grouping \ {n}
        /\ red2' = red2 \cup {[old |-> n.uid, new |-> outNode'.uid]}
    /\ UNCHANGED <<levels, internal, terminal, pq, pqLevel, phase, label, eHigh, red1,
                   lastRed1>>

EndOutput ==
    /\ phase = "output" /\ grouping = {}
    /\ w' = IF outId < MaxId THEN UnsafePushLevel(w, mapLevel[label], MaxId - outId) ELSE w
    /\ phase' = "forward"
    /\ UNCHANGED <<levels, internal, terminal, pq, pqLevel, levelVars>>

----------------------------------------------------------------------------
(* Forwarding the mappings, largest old uid first.                         *)
SmallestMapped ==                                           \* (mutant)
    CHOOSE m \in red1 \cup red2 : \A o \in red1 \cup red2 : m.old <= o.old
Mapped == CHOOSE m \in red1 \cup red2 : \A o \in red1 \cup red2 : o.old <= m.old
IsRed1 == Mapped \in red1

ForwardsEverything == internal # {}                         \* (mutant)
Forwards == internal # {} /\ PeekInternal.target = Mapped.old

ForwardArc ==
    /\ phase = "forward" /\ red1 \cup red2 # {}
    /\ Forwards
    /\ internal' = internal \ {PeekInternal}
    /\ pq' = pq \cup {Arc(PeekInternal.source, IF IsRed1 THEN Flag(Mapped.new) ELSE Mapped.new)}
    /\ UNCHANGED <<levels, terminal, pqLevel, phase, levelVars, w>>

NextMapping ==
    /\ phase = "forward" /\ red1 \cup red2 # {}
    /\ ~Forwards
    /\ IF IsRed1 THEN red1' = red1 \ {Mapped} /\ lastRed1' = Mapped /\ UNCHANGED red2
                 ELSE red2' = red2 \ {Mapped} /\ UNCHANGED <<red1, lastRed1>>
    /\ UNCHANGED <<levels, internal, terminal, pq, pqLevel, phase, label, eHigh,
                   grouping, outNode, outId, local, tainted, w>>

(* The end of __reduce_level and its epilogue.                             *)
StopLevel == IF terminal # {} THEN Upward(LevelOf(PeekTerminal.source)) ELSE NoLabel

WithCuts == IncOneLevelCut(MaxOneLevelCut(w, local), tainted)

WithTerminal(x) == PushTerminalNode(x, IsTerminal(lastRed1.new) /\ Value(lastRed1.new))

EndLevel ==
    /\ phase = "forward" /\ red1 \cup red2 = {}
    /\ IF pq # {}
       THEN w' = WithCuts /\ pqLevel' = Upward(Q!Target(StopLevel))
       ELSE /\ w' = IF HasPushed(w) THEN WithCuts ELSE WithTerminal(WithCuts)
            /\ UNCHANGED pqLevel
    /\ phase' = IF levels = {} THEN "close" ELSE "begin"
    /\ UNCHANGED <<levels, internal, terminal, pq, levelVars>>

Close ==
    /\ phase = "close"
    /\ w' = Closed(w)
    /\ phase' = "done"
    /\ UNCHANGED <<levels, internal, terminal, pq, pqLevel, levelVars>>

Done ==
    /\ phase = "done"
    /\ UNCHANGED <<levels, internal, terminal, pq, pqLevel, phase, levelVars, w>>

Next ==
    /\ UNCHANGED <<zdd, input, mapLevel>>
    /\ \/ ReduceSingleNode \/ BeginLevel
       \/ PullHigh \/ PullLow \/ EndPulls
       \/ Output \/ EndOutput
       \/ ForwardArc \/ NextMapping \/ EndLevel
       \/ Close \/ Done

Spec == Init /\ [][Next]_vars

----------------------------------------------------------------------------
TypeOK ==
    /\ levels \subseteq Level
    /\ phase \in {"begin", "pull", "output", "forward", "close", "done"}
    /\ label \in Level \cup {NoLabel} /\ pqLevel \in Level \cup {NoLabel}
    /\ \A a \in pq \cup internal \cup terminal : IsNode(a.source) /\ a.target < Nil
    /\ outId \in -1 .. MaxId
    /\ local \in [CutKinds -> Nat] /\ tainted \in [CutKinds -> Nat]

(* The function the output has to denote: that of the input, its variables *)
(* renamed by map_level.                                                   *)
InputFunction == Denotes(input, (CHOOSE n \in Roots(input) : TRUE).uid)
Function ==
    LET f == InputFunction
        old(x) == {l \in DOMAIN mapLevel : mapLevel[l] \in x} \cup (Level \ DOMAIN mapLevel)
    IN  IF zdd THEN {{mapLevel[l] : l \in x} : x \in f}
        ELSE {x \in SUBSET Level : old(x) \in f}

(* The output is the canonical diagram of the input's function: the same   *)
(* function, fully reduced, and with the identifiers and the order on each *)
(* level that make it comparable node by node (reduce.h:336-362).          *)
OutputIsCanonical ==
    phase = "done" => /\ NodesOf(w.file) = CanonicalNodes(Function)
                      /\ \A i, j \in DOMAIN w.file.nodes :
                            i < j => w.file.nodes[i].uid > w.file.nodes[j].uid
                      /\ w.file.sorted /\ w.file.indexable

(* The cuts of the output, summed up from arcs of which some are rerouted  *)
(* by rule 1 in levels still to come, bound the true cuts, and its counts  *)
(* of terminal arcs and nodes on each level are exact (reduce.h:327-425).  *)
MetaDataIsSound == phase = "done" => CutsAreBounds(w.file) /\ CountsAreExact(w.file)

(* The two arcs of a node come one after the other, whichever of the queue *)
(* and the terminal file each is in (reduce.h:306-310); mappings are       *)
(* forwarded in sync with the internal arcs, and when a level is done      *)
(* nothing of it is left (the assertions at reduce.h:391, 467-477, 596).   *)
SweepInSync ==
    /\ (phase = "pull" /\ eHigh # NoArc) =>
            /\ CanPull \/ terminal # {}
            /\ NextArc.source = eHigh.source - OutBit
            /\ LevelOf(eHigh.source) = label
    /\ (phase = "forward" /\ internal # {} /\ red1 \cup red2 # {}) =>
            PeekInternal.target <= Mapped.old
    /\ phase = "begin" =>
            /\ \A a \in internal : LevelOf(a.target) \in levels
            /\ \A a \in pq \cup terminal : LevelOf(a.source) \in levels
            /\ pqLevel # NoLabel => levels = {} \/ pqLevel = MaxOf(levels)
    /\ phase \in {"close", "done"} => internal = {} /\ terminal = {} /\ pq = {}

(* The queue never holds more than the 1-level cut of the input, the size  *)
(* it is allocated with (reduce.h:584).                                    *)
QueueWithinCut == Cardinality(pq) <= OneLevelCut(input, "Internal")

(* The sweep uses the levelized priority queue as LevelizedQueue allows:   *)
(* it only pushes to levels still to come and only moves on from a level   *)
(* that is empty.                                                          *)
KeepsToTheQueue == Q!AbsSpec

=============================================================================
