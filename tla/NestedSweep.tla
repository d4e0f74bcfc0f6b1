---------------------------- MODULE NestedSweep -----------------------------
(***************************************************************************)
(* Quantification of one or more variables (internal/algorithms/           *)
(* quantify.h) with nested sweeping (internal/algorithms/                  *)
(* nested_sweeping.h).  The diagram is reduced bottom-up by an outer sweep *)
(* until a level to quantify.  There its nodes turn into requests, the     *)
(* roots of an inner sweep: top-down (module Quantify) through what is     *)
(* already reduced, then bottom-up into a new file.  Arcs of the two       *)
(* bottom-up sweeps are told apart by a flag on their source; arcs that    *)
(* end above the next level to quantify are kept as roots for its sweep.   *)
(* For the successors in a relation (bdd_relnext, bdd/relprod.cpp), the    *)
(* outer sweep renames the levels it reduces, too, so that sources of arcs *)
(* have old levels and targets new ones.                                   *)
(*                                                                         *)
(* One level is reduced in one step: how, is the matter of module Reduce.  *)
(***************************************************************************)
EXTENDS Quantify

CONSTANT
    Jobs        \* What to compute: a kind of diagram, the operation, how it is
                \* called, the nodes, the levels to quantify and what the others
                \* become, and quantify::transposition_max

ASSUME JobsAssumption ==
    \A job \in Jobs :
        /\ job.zdd \in BOOLEAN /\ job.max \in Nat
        /\ job.entry \in {"single", "singleton", "repeated", "nested", "arcs", "generator", "next"}
        /\ job.entry = "single" => Cardinality(job.quant) = 1
        /\ job.op \in IF job.zdd THEN {"project"} ELSE {"exists", "forall", "relnext"}
        /\ job.op = "relnext" => job.entry \in {"next", "arcs"}
        /\ job.entry = "next" => job.op = "relnext"
        /\ job.op # "relnext" => \A l \in Level : job.map[l] = l

VARIABLES
    asked,      \* The job
    stage,      \* What the top-down sweep at work is for
    sweeps,     \* How many partial sweeps there were
    dag,        \* The arcs nested sweeping starts from, and their 1-level cut
    next,       \* next_inner
    outer,      \* The outer sweep's streams and queue
    inner,      \* The streams and queue of the inner sweep on its way up
    w,          \* outer_ofstream, the writer of outer_file
    nonGC,      \* non_gc_request
    result      \* What is returned

nestedVars == <<stage, sweeps, dag, next, outer, inner, w, nonGC, result>>
vars == <<zdd, op, asked, phase, sweepVars, nestedVars>>

NoResult == [kind |-> "none", file |-> EmptyFile]
ReturnNodes(f) == [kind |-> "nodes", file |-> f]
ReturnArcs(f) == [kind |-> "arcs", file |-> f]

TerminalFile(b) ==
    Closed(SetCanonical(PushTerminalNode(Constructed(EmptyFile), b), TRUE)).file
FileOf(ns) ==
    IF \A n \in ns : IsNode(n.uid)
    THEN Closed(FoldLeft(Push, Constructed(EmptyFile),
                         SetToSortSeq(ns, LAMBDA m, n : m.uid > n.uid))).file
    ELSE TerminalFile(\A n \in ns : IsTrue(n.uid))

----------------------------------------------------------------------------
(* A sweep bottom-up: the arcs and levels it has not read, and its queue.  *)
Streams(arcs, levels) ==
    [internal |-> {a \in arcs : IsNode(a.target)},
     terminal |-> {a \in arcs : IsTerminal(a.target)},
     levels |-> levels, pq |-> {}, level |-> NoLevel]
NoStreams == Streams({}, {})

Deepest(levels) == IF levels = {} THEN NoLevel ELSE MaxOf(levels)
SourceLevels(arcs) == {LevelOf(a.source) : a \in arcs}

(* Where the queue moves, at the latest to the deepest of the stops.       *)
Advance(s, stops) == [s EXCEPT !.level = Deepest(SourceLevels(s.pq) \cup stops)]

(* The level the next unread arc to a terminal starts from.                *)
TerminalStop(s) ==
    IF s.terminal = {} THEN {} ELSE {LevelOf(MaxOf({a.source : a \in s.terminal}))}

(* The nodes of a level, and the arcs into them.                           *)
Pulled(s, l) ==
    {a \in s.terminal : LevelOf(a.source) = l} \cup {a \in s.pq : LevelOf(a.source) = s.level}
NodesAtLevel(s, l) == NodesOfArcs(Pulled(s, l))
Into(s, l) == {a \in s.internal : LevelOf(a.target) = l}

Read(s, l) ==
    [s EXCEPT !.levels = @ \ {l}, !.internal = @ \ Into(s, l),
              !.terminal = @ \ Pulled(s, l), !.pq = @ \ Pulled(s, l)]

----------------------------------------------------------------------------
(* Reducing the nodes ns of level l to nodes of level out.                 *)
ChildPair(n) == <<Unflag(n.high), Unflag(n.low)>>
IsKept(n) == ReductionRule(n) = n.uid
PairsOf(ns) == {ChildPair(n) : n \in {m \in ns : IsKept(m)}}

NewUid(ns, out, c) ==
    Uid(out, MaxId - Cardinality({d \in PairsOf(ns) : d[1] > c[1] \/ (d[1] = c[1] /\ d[2] > c[2])}))
Mapped(ns, out, n) ==
    IF IsKept(n) THEN NewUid(ns, out, ChildPair(n)) ELSE Flag(Essential(ReductionRule(n)))

Forwarded(s, ns, l, out) ==
    {Arc(a.source, Mapped(ns, out, NodeAt(ns, a.target))) : a \in Into(s, l)}

(* Any node counts for those with its children.                            *)
Representatives(ns) ==
    {r \in SUBSET {n \in ns : IsKept(n)} :
        PairsOf(r) = PairsOf(ns) /\ Cardinality(r) = Cardinality(PairsOf(ns))}

SumOfCuts(r, flagged) == FoldSet(LAMBDA n, c : CutAdd(c, CutsOf(n, flagged)), NoCut, r)

To(arcs, b) == Cardinality({a \in arcs : IsTerminal(a.target) /\ Value(a.target) = b})

(* The arcs that cross a level: those in the queues and roots of both      *)
(* sweeps, and all unread ones to terminals.                               *)
CrossingRead(o, i) ==                                       \* (mutant)
    Cut(Cardinality(roots) + Cardinality(o.pq) + Cardinality(i.pq)
            - To(o.pq, FALSE) - To(o.pq, TRUE) - To(i.pq, FALSE) - To(i.pq, TRUE),
        To(o.pq, FALSE) + To(i.pq, FALSE), To(o.pq, TRUE) + To(i.pq, TRUE))
Crossing(o, i) ==
    Cut(Cardinality(roots) + Cardinality(o.pq) + Cardinality(i.pq)
            - To(o.pq, FALSE) - To(o.pq, TRUE) - To(i.pq, FALSE) - To(i.pq, TRUE),
        To(o.pq, FALSE) + To(i.pq, FALSE) + To(o.terminal, FALSE) + To(i.terminal, FALSE),
        To(o.pq, TRUE) + To(i.pq, TRUE) + To(o.terminal, TRUE) + To(i.terminal, TRUE))

WriteLevel(ns, out, r, crossing) ==
    LET new == {Node(NewUid(ns, out, c), c[2], c[1]) : c \in PairsOf(ns)}
        x == FoldLeft(UnsafePushNode, w, SetToSortSeq(new, LAMBDA m, n : m.uid > n.uid))
        y == IF new = {} THEN x ELSE UnsafePushLevel(x, out, Cardinality(new))
    IN  IncOneLevelCut(MaxOneLevelCut(y, CutAdd(crossing, SumOfCuts(r, FALSE))),
                       SumOfCuts(r, TRUE))

(* nesting_policy::map_level.                                              *)
MapLevel(l) == asked.map[l]

(* The value read from the last mapping of rule 1, if any.                 *)
LastValue(ns) ==
    LET removed == {n \in ns : ~IsKept(n)}
    IN  removed # {} /\ IsTrue(ReductionRule(FirstOf(removed)))

----------------------------------------------------------------------------
(* The requests from which an inner sweep starts.                          *)
RootRequest(t, source) == Request(t, Flag(source), NoCarry)

(* outer::up__pq_decorator::push: arcs to nodes from above the next level  *)
(* to quantify are roots of its sweep.                                     *)
IsRootOrLevel(a, level) ==                                  \* (mutant)
    IsNil(a.source) \/ (LevelOf(a.source) <= level /\ IsNode(a.target))
IsRoot(a, level) == IsNil(a.source) \/ (LevelOf(a.source) < level /\ IsNode(a.target))
RootsAmong(arcs, level) ==
    {RootRequest(<<a.target, Nil>>, a.source) : a \in {b \in arcs : IsRoot(b, level)}}
Others(arcs, level) == {a \in arcs : ~IsRoot(a, level)}

RequestFromNode(n, source) ==
    LET p == ResolveRoot(n)
    IN  IF p # n.uid THEN RootRequest(<<p, Nil>>, source)
        ELSE RootRequest(<<Smaller(n.low, n.high), Bigger(n.low, n.high)>>, source)

HasTwoTargets(r) == ~IsNil(r.target[2])

DeepestSource(requests) ==
    LET sources == {r.source : r \in {s \in requests : ~IsNil(s.source)}}
    IN  IF sources = {} THEN {} ELSE {LevelOf(MaxOf(sources))}

NextInner(below) == Deepest({l \in dag.levels \cap asked.quant : l < below})

----------------------------------------------------------------------------
(* Pruning the levels to quantify (pruning_quantify_policy, select.h).     *)
Bypass(n) ==
    CASE LevelOf(n.uid) \notin asked.quant -> n.uid
      [] CollapseToTerminal(n.low) -> n.low
      [] IsTerminal(n.low) /\ ~KeepTerminal(n.low) -> n.high
      [] CollapseToTerminal(n.high) -> n.high
      [] IsTerminal(n.high) /\ ~KeepTerminal(n.high) -> n.low
      [] OTHER -> n.uid

(* Where an arc to p has got to when the sweep arrives at level l.         *)
Passing(ns, l) ==
    LET P[p \in 0 .. Nil] ==
            IF ~IsNode(p) \/ LevelOf(p) >= l \/ Bypass(NodeAt(ns, p)) = p THEN p
            ELSE P[Bypass(NodeAt(ns, p))]
    IN  P

PrunedNodes(ns) ==
    LET end == Passing(ns, Levels)
        Seen[l \in 0 .. Levels] ==
            IF l = 0 THEN {end[FirstOf(ns).uid]}
            ELSE Seen[l - 1] \cup UNION {{end[NodeAt(ns, p).low], end[NodeAt(ns, p).high]} :
                                            p \in {q \in Seen[l - 1] : LevelOf(q) = l - 1}}
    IN  {Node(p, end[NodeAt(ns, p).low], end[NodeAt(ns, p).high]) :
            p \in {q \in Seen[Levels] : IsNode(q)}}

RequestsAt(ns, l) ==
    LET above == {NodeAt(ns, n.uid) : n \in {m \in PrunedNodes(ns) : LevelOf(m.uid) < l}}
    IN  Cardinality({a \in above \X {"low", "high"} : IsNode(Passing(ns, l)[a[1][a[2]]])})
            + One(above = {})

----------------------------------------------------------------------------
(* The levels of a diagram to quantify that are near its root: with at     *)
(* most a third of the nodes, and no level of full width, above.           *)
LevelsIn(ns) == {LevelOf(n.uid) : n \in {m \in ns : IsNode(m.uid)}}
WidthOf(ns, l) == Cardinality(OnLevel(ns, l))
ShallowLevels(ns) ==
    LET widest == MaxOf({WidthOf(ns, l) : l \in Level})
    IN  {l \in asked.quant \cap LevelsIn(ns) :
            /\ Cardinality(Above(ns, l)) <= Cardinality(ns) \div 3
            /\ \A m \in 0 .. l - 1 : WidthOf(ns, m) # widest}

----------------------------------------------------------------------------
(* How quantification starts, depending on how it is called.               *)
Init ==
    /\ asked \in Jobs
    /\ zdd = asked.zdd /\ op = asked.op
    /\ phase = "start" /\ stage = asked.entry
    /\ quantified = {} /\ partial = FALSE /\ nodes = asked.nodes /\ access = "ra"
    /\ bound1 = 0 /\ bound2 = 0 /\ pq1 = {} /\ pq2 = {} /\ roots = {}
    /\ label = NoLevel /\ outId = 0 /\ v = FirstOf(asked.nodes) /\ aw = NewArcWriter
    /\ remaining = 0 /\ answer = Nil
    /\ sweeps = 0 /\ dag = [arcs |-> {}, levels |-> {}, cut1 |-> 0]
    /\ next = NoLevel /\ outer = NoStreams /\ inner = NoStreams
    /\ w = Constructed(EmptyOutput) /\ nonGC = FALSE /\ result = NoResult

IsTerminalDiagram(ns) == \E n \in ns : IsTerminal(n.uid)
Present(ns) == LevelsIn(ns) \cap asked.quant
Iterations == Smaller(asked.max, Cardinality(ShallowLevels(asked.nodes)))

Arcs(ns, cut) == [arcs |-> ArcsOf(ns), levels |-> LevelsIn(ns), cut1 |-> cut]
ArcsOfFile(f) == [arcs |-> AllArcsIn(f), levels |-> {f.levels[i].level : i \in DOMAIN f.levels},
                  cut1 |-> f.cut1]

Return(r) == result' = r /\ phase' = "done"

(* The arcs to nodes that cross some level.                                *)
InternalCut(ns) ==
    MaxOf({Cardinality({a \in ArcsOf(ns) :
               IsNode(a.target) /\ LevelOf(a.source) < l /\ l <= LevelOf(a.target)}) : l \in Level})

NothingToDo ==
    /\ phase = "start" /\ asked.entry # "arcs"
    /\ IF asked.entry = "next" \/ (asked.entry = "generator" /\ zdd)
       THEN IsTerminalDiagram(asked.nodes) ELSE Present(asked.nodes) = {}
    /\ Return(ReturnNodes(FileOf(asked.nodes)))
    /\ UNCHANGED <<zdd, op, asked, sweepVars, stage, sweeps, dag, next, outer, inner, w, nonGC>>

SweepOver(ns, levels, isPartial, mode) ==
    StartAtRoot(ns, levels, isPartial, mode, NodeCut1(ns), NodeCut2(ns))

StartWithSweep(mode) ==
    /\ phase = "start" /\ Present(asked.nodes) # {}
    /\ \/ /\ asked.entry \in {"single", "singleton"} \/ (asked.entry = "generator" /\ ~zdd)
          /\ SweepOver(asked.nodes, {Deepest(Present(asked.nodes))}, FALSE, mode)
       \/ /\ asked.entry = "nested" /\ Iterations > 0
          /\ SweepOver(asked.nodes, asked.quant, TRUE, mode)
    /\ sweeps' = 1
    /\ UNCHANGED <<zdd, op, asked, stage, dag, next, outer, inner, w, nonGC, result>>

(* Repetition over a generator; without levels to keep, a ZDD is not read. *)
StartRepeated(mode) ==
    /\ phase = "start" /\ asked.entry = "repeated" /\ Present(asked.nodes) # {}
    /\ IF zdd /\ asked.quant = Level
       THEN /\ Return(ReturnNodes(TerminalFile(FileOf(asked.nodes).terminals[TRUE] > 0)))
            /\ UNCHANGED <<sweepVars, sweeps>>
       ELSE /\ SweepOver(asked.nodes, {Deepest(Present(asked.nodes))}, FALSE, mode)
            /\ sweeps' = 1 /\ UNCHANGED result
    /\ UNCHANGED <<zdd, op, asked, stage, dag, next, outer, inner, w, nonGC>>

StartWithPruning ==
    /\ phase = "start" /\ asked.entry = "nested"
    /\ Present(asked.nodes) # {} /\ Iterations = 0
    /\ LET ns == asked.nodes
           root == Passing(ns, Levels)[FirstOf(ns).uid]
       IN  IF IsTerminal(root)
           THEN Return(ReturnNodes(TerminalFile(Value(root)))) /\ UNCHANGED dag
           ELSE /\ dag' = Arcs(PrunedNodes(ns), MaxOf({RequestsAt(ns, l) : l \in LevelsIn(ns)}))
                /\ phase' = "begin" /\ UNCHANGED result
    /\ UNCHANGED <<zdd, op, asked, sweepVars, stage, sweeps, next, outer, inner, w, nonGC>>

(* Given as arcs, or transposed.                                           *)
StartNested ==
    /\ phase = "start"
    /\ \/ asked.entry = "arcs" /\ dag' = Arcs(asked.nodes, InternalCut(asked.nodes))
       \/ /\ asked.entry = "next" \/ (asked.entry = "generator" /\ zdd)
          /\ ~IsTerminalDiagram(asked.nodes)
          /\ dag' = Arcs(asked.nodes, FileOf(asked.nodes).cut1["Internal"])
    /\ phase' = "begin"
    /\ UNCHANGED <<zdd, op, asked, sweepVars, stage, sweeps, next, outer, inner, w, nonGC, result>>

----------------------------------------------------------------------------
(* What becomes of the outcome of a sweep.                                 *)
CollapsedToTerminal ==
    /\ phase = "terminal"
    /\ Return(ReturnNodes(TerminalFile(Value(answer))))
    /\ UNCHANGED <<zdd, op, asked, sweepVars, stage, sweeps, dag, next, outer, inner, w, nonGC>>

(* The last level of a generator is quantified after the loop.             *)
IsLastRepetition ==
    stage = "repeated" /\ ~zdd /\ \A l \in asked.quant : \E m \in quantified : m <= l

ReturnUnreduced ==
    /\ phase = "swept"
    /\ stage = "single" \/ (stage = "nested" /\ partial /\ remaining = 0) \/ IsLastRepetition
    /\ Return(ReturnArcs(aw.file))
    /\ UNCHANGED <<zdd, op, asked, sweepVars, stage, sweeps, dag, next, outer, inner, w, nonGC>>

SweptNodes == NodesOfArcs(AllArcsIn(aw.file))
ReducedNodes(ns) == CanonicalNodes(Denotes(ns, FirstOf(ns).uid))

QuantifyNext(mode) ==
    /\ phase = "swept" /\ stage \in {"singleton", "repeated"} /\ ~IsLastRepetition
    /\ LET ns == ReducedNodes(SweptNodes)
       IN  IF Present(ns) = {}
           THEN Return(ReturnNodes(FileOf(ns))) /\ UNCHANGED <<sweepVars, sweeps>>
           ELSE /\ SweepOver(ns, {Deepest(Present(ns))}, FALSE, mode)
                /\ sweeps' = sweeps + 1 /\ UNCHANGED result
    /\ UNCHANGED <<zdd, op, asked, stage, dag, next, outer, inner, w, nonGC>>

RepeatPartial(mode) ==
    /\ phase = "swept" /\ stage = "nested" /\ partial /\ remaining > 0
    /\ sweeps < Iterations
    /\ LET f == aw.file
       IN  /\ Start(SweptNodes, asked.quant, TRUE, mode,
                    Bound1Of(ArcCut2(f), SizeOf(f)), Bound2Of(ArcCut1(f)),
                    {Request(<<FirstOf(SweptNodes).uid, Nil>>, Nil, NoCarry)})
           /\ UNCHANGED roots
    /\ sweeps' = sweeps + 1
    /\ UNCHANGED <<zdd, op, asked, stage, dag, next, outer, inner, w, nonGC, result>>

(* After the last partial sweep, or an earlier one with too large a result;*)
(* and after the one for the deepest level of a generator.                 *)
GoOnNested ==
    /\ phase = "swept"
    /\ (stage = "nested" /\ partial /\ remaining > 0) \/ stage = "generator"
    /\ dag' = ArcsOfFile(aw.file)
    /\ phase' = "begin"
    /\ UNCHANGED <<zdd, op, asked, sweepVars, stage, sweeps, next, outer, inner, w, nonGC, result>>

----------------------------------------------------------------------------
(* __nested_sweep: the outer sweep; without a level to quantify, Reduce.   *)
FunctionOf(ns) == Denotes(ns, FirstOf(ns).uid)
Renamed(f, levels) ==
    IF zdd THEN f ELSE {x \in SUBSET Level : {l \in levels : MapLevel(l) \in x} \in f}

Begin ==
    /\ phase = "begin" /\ stage' = "inner"
    /\ next' = NextInner(Levels)
    /\ IF next' = NoLevel
       THEN /\ Return(ReturnNodes(FileOf(CanonicalNodes(Renamed(FunctionOf(NodesOfArcs(dag.arcs)), dag.levels)))))
            /\ UNCHANGED <<outer, w>>
       ELSE /\ outer' = Streams(dag.arcs, dag.levels) /\ w' = Constructed(EmptyOutput)
            /\ phase' = "outer" /\ UNCHANGED result
    /\ UNCHANGED <<zdd, op, asked, sweepVars, sweeps, dag, inner, nonGC>>

(* The end of a reduced level: the queue moves on, or all is a terminal.   *)
Epilogue(wr, ns, left) ==
    IF left # {} \/ HasPushed(wr) THEN wr ELSE PushTerminalNode(wr, LastValue(ns))

ReduceLevel ==
    /\ phase = "outer" /\ outer.levels # {}
    /\ LET l == MaxOf(outer.levels)
           ns == NodesAtLevel(outer, l)
           after == Read(outer, l)
           forwarded == Forwarded(outer, ns, l, MapLevel(l))
           o == [after EXCEPT !.pq = @ \cup Others(forwarded, next)]
       IN  /\ next < l
           /\ roots' = roots \cup RootsAmong(forwarded, next)
           /\ outer' = IF o.pq \cup roots' = {} THEN o ELSE Advance(o, TerminalStop(o))
           /\ \E r \in Representatives(ns) :
                  w' = Epilogue(WriteLevel(ns, MapLevel(l), r, Crossing(after, NoStreams)), ns,
                                o.pq \cup roots')
    /\ UNCHANGED <<zdd, op, quantified, partial, nodes, access, bound1, bound2, phase, pq1, pq2,
                   label, outId, v, aw, remaining, answer>>
    /\ UNCHANGED <<asked, stage, sweeps, dag, next, inner, nonGC, result>>

(* A level to quantify: its nodes become requests from their parents.      *)
Parents(n) ==
    IF outer.levels = {LevelOf(n.uid)} THEN {Nil}
    ELSE {a.source : a \in {b \in outer.internal : b.target = n.uid}}

RequestsOf(ns) ==
    UNION {{RequestFromNode(n, s) : s \in Parents(n)} : n \in {m \in ns : IsKept(m)}}
Bypassed(ns) ==
    UNION {{Arc(s, Flag(Essential(ReductionRule(n)))) : s \in Parents(n)} :
              n \in {m \in ns : ~IsKept(m)}}

Settled(requests) ==
    {Arc(Unflag(r.source), r.target[1]) : r \in {q \in requests : IsTerminal(q.target[1])}}

AskFromLevel ==
    /\ phase = "outer" /\ outer.levels # {} /\ next = MaxOf(outer.levels)
    /\ LET ns == NodesAtLevel(outer, next)
           requests == RequestsOf(ns)
           arcs == Bypassed(ns)
           terminals == {a \in Settled(requests) \cup arcs : IsTerminal(a.target)}
       IN  IF \E a \in terminals : IsNil(a.source)
           THEN /\ \E a \in terminals : Return(ReturnNodes(TerminalFile(Value(a.target))))
                /\ UNCHANGED <<roots, outer, nonGC, next>>
           ELSE /\ roots' = roots \cup {r \in requests : IsNode(r.target[1])}
                                  \cup RootsAmong(arcs, next)
                /\ outer' = [Read(outer, next) EXCEPT !.pq = @ \cup terminals]
                /\ nonGC' = \E r \in requests : HasTwoTargets(r)
                /\ next' = NextInner(next)
                /\ phase' = "asked" /\ UNCHANGED result
    /\ UNCHANGED <<zdd, op, quantified, partial, nodes, access, bound1, bound2, pq1, pq2,
                   label, outId, v, aw, remaining, answer>>
    /\ UNCHANGED <<asked, stage, sweeps, dag, inner, w>>

RunsForProducts == roots # {} /\ nonGC                      \* (mutant)
RunsInner == roots # {} /\ (nonGC \/ next = NoLevel)

(* After a level to quantify, with requests rs and the file of wr.         *)
SetupOuter(o, rs, wr) ==
    IF o.pq \cup rs # {}
    THEN /\ outer' = Advance(o, TerminalStop(o) \cup DeepestSource(rs))
         /\ phase' = "outer" /\ UNCHANGED result
    ELSE /\ outer' = o
         /\ IF IsTerminalFile(wr.file) THEN Return(ReturnNodes(Closed(wr).file))
                                       ELSE phase' = "outer" /\ UNCHANGED result

(* Requests for single nodes wait for the next level to quantify.          *)
Postpone ==
    /\ phase = "asked" /\ roots # {} /\ ~RunsInner
    /\ LET arcs == {Arc(Unflag(r.source), r.target[1]) : r \in roots}
       IN  /\ roots' = RootsAmong(arcs, next)
           /\ SetupOuter([outer EXCEPT !.pq = @ \cup Others(arcs, next)], roots', w)
    /\ UNCHANGED <<zdd, op, quantified, partial, nodes, access, bound1, bound2, pq1, pq2,
                   label, outId, v, aw, remaining, answer>>
    /\ UNCHANGED <<asked, stage, sweeps, dag, next, inner, w, nonGC>>

(* Without requests, nothing that is already reduced survives.             *)
Prune ==
    /\ phase = "asked" /\ roots = {}
    /\ w' = IF HasPushed(w) THEN Opened(EmptyOutput) ELSE w
    /\ SetupOuter(outer, roots, w')
    /\ UNCHANGED <<zdd, op, asked, sweepVars, stage, sweeps, dag, next, inner, nonGC>>

----------------------------------------------------------------------------
(* The inner sweep: down through the closed outer_file, and up again.      *)
StartInner(mode) ==
    /\ phase = "asked" /\ RunsInner
    /\ LET f == Closed(w).file
       IN  /\ w' = Closed(w)
           /\ Start(NodesOf(f), {}, FALSE, mode, Bound1Of(f.cut2, Count(f)),
                    Bound2Of(f.cut1) + Cardinality(roots), {})
    /\ sweeps' = sweeps + 1
    /\ UNCHANGED <<zdd, op, roots, asked, stage, dag, next, outer, inner, nonGC, result>>

InnerTurns ==
    /\ phase = "swept" /\ stage = "inner"
    /\ LET d == ArcsOfFile(aw.file) IN inner' = Streams(d.arcs, d.levels)
    /\ w' = Opened(EmptyOutput)
    /\ phase' = "inner"
    /\ UNCHANGED <<zdd, op, asked, sweepVars, stage, sweeps, dag, next, outer, nonGC, result>>

(* What the inner sweep forwards to nodes of the outer one goes back there.*)
Leaving(arcs) == {Arc(Unflag(a.source), a.target) : a \in {b \in arcs : IsFlagged(b.source)}}
Staying(arcs) == {a \in arcs : ~IsFlagged(a.source)}

ReduceInnerLevel ==
    /\ phase = "inner" /\ inner.levels # {}
    /\ LET l == MaxOf(inner.levels)
           ns == NodesAtLevel(inner, l)
           after == Read(inner, l)
           forwarded == Forwarded(inner, ns, l, l)
           i == [after EXCEPT !.pq = @ \cup Staying(forwarded)]
       IN  /\ roots' = roots \cup RootsAmong(Leaving(forwarded), next)
           /\ outer' = [outer EXCEPT !.pq = @ \cup Others(Leaving(forwarded), next)]
           /\ inner' = IF i.pq = {} THEN i ELSE Advance(i, TerminalStop(i))
           /\ \E r \in Representatives(ns) :
                  w' = Epilogue(WriteLevel(ns, l, r, Crossing(outer, after)), ns,
                                i.pq \cup outer'.pq \cup roots')
    /\ UNCHANGED <<zdd, op, quantified, partial, nodes, access, bound1, bound2, phase, pq1, pq2,
                   label, outId, v, aw, remaining, answer>>
    /\ UNCHANGED <<asked, stage, sweeps, dag, next, nonGC, result>>

InnerEnds ==
    /\ phase = "inner" /\ inner.levels = {}
    /\ SetupOuter([outer EXCEPT !.pq = @ \cup Leaving(inner.terminal)], roots, w)
    /\ inner' = [inner EXCEPT !.terminal = {}]
    /\ UNCHANGED <<zdd, op, asked, sweepVars, stage, sweeps, dag, next, w, nonGC>>

Finish ==
    /\ phase = "outer" /\ outer.levels = {}
    /\ w' = Closed(w)
    /\ Return(ReturnNodes(w'.file))
    /\ UNCHANGED <<zdd, op, asked, sweepVars, stage, sweeps, dag, next, outer, inner, nonGC>>

Done == phase = "done" /\ UNCHANGED vars

Sweep == SweepStep /\ UNCHANGED <<zdd, op, asked, nestedVars>>

Next ==
    \/ NothingToDo \/ StartWithPruning \/ StartNested
    \/ \E mode \in {"ra", "pq"} :
           StartWithSweep(mode) \/ StartRepeated(mode) \/ QuantifyNext(mode) \/ RepeatPartial(mode) \/ StartInner(mode)
    \/ Sweep \/ CollapsedToTerminal \/ ReturnUnreduced \/ GoOnNested
    \/ Begin \/ ReduceLevel \/ AskFromLevel \/ Postpone \/ Prune
    \/ InnerTurns \/ ReduceInnerLevel \/ InnerEnds \/ Finish \/ Done

Spec == Init /\ [][Next]_vars

----------------------------------------------------------------------------
(* Properties.                                                             *)

(* Reference: the function with the levels in quant quantified.            *)
Quantification(f, quant) ==
    IF zdd THEN {x \ quant : x \in f}
    ELSE {x \in SUBSET Level :
             IF op = "forall" THEN \A y \in SUBSET quant : (x \ quant) \cup y \in f
                              ELSE \E y \in SUBSET quant : (x \ quant) \cup y \in f}
Wanted == Renamed(Quantification(FunctionOf(asked.nodes), asked.quant),
                  LevelsIn(asked.nodes) \ asked.quant)

(* Whatever the order of sweeps, the result is the quantification of the   *)
(* input, with what is left renamed if so asked; as nodes it is the        *)
(* canonical diagram, as arcs one that Reduce can take (quantify.h:1193,   *)
(* final_canonical).                                                       *)
ResultIsQuantified ==
    phase = "done" =>
        \/ result.kind = "nodes" /\ NodesOf(result.file) = CanonicalNodes(Wanted)
        \/ /\ result.kind = "arcs" /\ IsSemiTransposed(result.file)
           /\ FunctionOf(NodesOfArcs(AllArcsIn(result.file))) = Wanted

(* The meta data of the result is as good as that of any other algorithm:  *)
(* its cuts bound those of the diagram, whatever arcs of two sweeps were   *)
(* in three queues when they were counted.                                 *)
MetaDataIsSound ==
    phase = "done" /\ result.kind = "nodes" =>
        /\ result.file.sorted /\ result.file.indexable
        /\ CutsAreBounds(result.file) /\ CountsAreExact(result.file)

OuterBound == (3 * dag.cut1) \div 2
InnerBound == Bigger(aw.file.cut1, 1)

(* Queues and sorter never hold more than they are created for: 3/2 of the *)
(* cut of the arcs for the outer queue and the roots                       *)
(* (nested_sweeping.h:2151), the file's cuts for the inner sweep, even     *)
(* though the intermediate file has many roots.                            *)
QueuesWithinBounds ==
    /\ phase \in {"level", "requests"} =>
           Cardinality(pq1) <= bound1 /\ Cardinality(pq2) <= bound2
    /\ phase \in {"outer", "asked", "inner"} =>
           Cardinality(outer.pq) <= OuterBound /\ Cardinality(roots) <= OuterBound
    /\ phase = "inner" => Cardinality(inner.pq) <= InnerBound

(* The top-down sweep asks only for nodes that are in its diagram and that *)
(* it has not read past.                                                   *)
NothingIsPassed ==
    phase = "requests" /\ access = "pq" /\ ~(EmptyLevel /\ pq2 = {}) =>
        LET p == SeekTo(NextRequest)
        IN  (\E n \in nodes : n.uid = p) /\ v.uid <= p

(* The arcs are those of whole nodes, two of each.                         *)
ArePairs(arcs) ==
    arcs # {} /\ \A a \in arcs :
        LET other == a.source + OutBit * (1 - 2 * OutIdx(a.source))
        IN  Cardinality({b \in arcs : b.source \in {a.source, other}}) = 2

(* Streams, queues and level information of two sweeps stay in step: when  *)
(* a level is reduced, the queue is there, its nodes come with both arcs,  *)
(* and every request that waits is for a node that is still in the file.   *)
(* The arcs a top-down sweep leaves, among them those of the outer sweep,  *)
(* are in the order a bottom-up sweep reads them in (util.h:169-179).      *)
SweepsStayInSync ==
    /\ phase = "outer" /\ outer.levels # {} =>
           LET l == MaxOf(outer.levels)
           IN  /\ outer.level \in {NoLevel, l}
               /\ next <= l
               /\ ArePairs(Pulled(outer, l))
    /\ phase \in {"outer", "asked"} =>
           /\ \A r \in roots : \A p \in {q \in {r.target[1], r.target[2]} : IsNode(q)} :
                  \E n \in NodesOf(w.file) : n.uid = Essential(p)
           /\ \A a \in {b \in outer.pq : IsNode(b.target)} :
                  \E n \in NodesOf(w.file) : n.uid = Essential(a.target)
    /\ phase = "asked" /\ roots # {} /\ ~RunsInner => \A r \in roots : ~HasTwoTargets(r)
    /\ phase = "inner" /\ inner.levels = {} => \A a \in inner.terminal : IsFlagged(a.source)
    /\ phase = "terminal" /\ stage = "inner" => outer.levels = {}
    /\ phase = "swept" =>
        LET back == TerminalsRead(aw.file)
            inside == aw.file.internal
        IN  /\ \A i, j \in DOMAIN inside : i < j => inside[i].target <= inside[j].target
            /\ \A i, j \in DOMAIN back : i < j => back[i].source > back[j].source
=============================================================================
