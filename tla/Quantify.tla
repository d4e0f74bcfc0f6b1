------------------------------ MODULE Quantify ------------------------------
(***************************************************************************)
(* The top-down sweep of quantification (internal/algorithms/quantify.h)   *)
(* with the policies of bdd_exists and bdd_forall (bdd/quantify.cpp), of   *)
(* bdd_relnext (bdd/relprod.cpp) and of zdd_project (zdd/project.cpp).  A  *)
(* request is for the combination of one or two nodes of the same diagram. *)
(* On a quantified level it is replaced by one for the combination of      *)
(* their children; with up to four children and room for two, a partial    *)
(* sweep leaves a node for later.                                          *)
(*                                                                         *)
(* The module is the sweep by itself.  Who starts it, on which diagram,    *)
(* and what becomes of the arcs is left to the module that extends it; as  *)
(* the inner sweep of a nested one (nested_sweeping.h:795-980) it also     *)
(* answers the requests in roots, which it reads as if they were part of   *)
(* the queue.                                                              *)
(***************************************************************************)
EXTENDS NodeFile, ArcFile

VARIABLES
    op,         \* Policy: "exists", "forall" or "relnext" for BDDs, "project"
                \* for ZDDs
    quantified, \* The levels for which policy.should_quantify
    partial,    \* Policy::partial_quantification
    nodes,      \* The diagram read
    access,     \* "ra" with random access, "pq" with two queues
    bound1,     \* max_pq_1_size
    bound2,     \* max_pq_2_size
    phase,      \* Where the computation is
    pq1, pq2,   \* Requests across levels, and of this level with a carry
    roots,      \* outer_roots: the requests of a nested sweep
    label,      \* out_label
    outId,      \* out_id
    v,          \* The node at the head of the stream
    aw,         \* The writer of out_arcs
    remaining,  \* policy.remaining_nodes
    answer      \* The terminal the whole sweep collapsed to, or Nil

sweepVars == <<quantified, partial, nodes, access, bound1, bound2, pq1, pq2, roots, label,
               outId, v, aw, remaining, answer>>

NoLevel == -1
IsNil(p) == p >= Nil

----------------------------------------------------------------------------
(* The policies.                                                           *)
Shortcutting == op # "forall"

KeepTerminal(p) == Value(p) = Shortcutting
CollapseToTerminal(p) == ~zdd /\ IsTerminal(p) /\ Value(p) = Shortcutting
ResolveTerminals(p, q) == Terminal(Value(p) \/ Value(q))

(* The cut that a bound on the queues is derived from.  The policy of      *)
(* bdd_relnext, which otherwise quantifies as that of bdd_exists does,     *)
(* names the cut with the other terminal.                                  *)
QuantifyCut(shortcutting) == IF shortcutting THEN "Internal_False" ELSE "Internal_True"
RelnextCut == "Internal_True"
CutWithTerminals ==
    CASE op \in {"exists", "forall"} -> QuantifyCut(Shortcutting)
      [] op = "relnext" -> RelnextCut
      [] op = "project" -> "All"

(* What a node to be quantified is by itself, if one child decides it.     *)
Decides(p) == IsTerminal(p) /\ Value(p) = Shortcutting
Irrelevant(p) == IsTerminal(p) /\ Value(p) # Shortcutting

ResolveRoot(n) ==
    IF zdd
    THEN CASE IsTerminal(n.low) /\ IsTerminal(n.high) -> IF Value(n.low) THEN n.low ELSE n.high
           [] ~IsTerminal(n.high) /\ IsFalse(n.low) -> n.high
           [] OTHER -> n.uid
    ELSE IF Decides(n.low) THEN n.low
         ELSE IF Decides(n.high) THEN n.high
         ELSE IF Irrelevant(n.low) THEN n.high
         ELSE IF Irrelevant(n.high) THEN n.low
         ELSE n.uid

(* The canonical form of a request: ascending, without duplicates, and     *)
(* without terminals that do not matter; nil fills the rest.               *)
Pad(ts, n) == ts \o [i \in 1 .. n - Len(ts) |-> Nil]

ResolveRequest(ts) ==
    LET all == ToSet(ts) \ {Nil}
        least == CHOOSE p \in all : \A q \in all : p <= q
        kept == {p \in all : p = least \/ IsNode(p) \/ KeepTerminal(p)}
        largest == MaxOf(kept)
        left == IF CollapseToTerminal(largest) THEN {largest}
                ELSE IF IsTerminal(least) /\ kept # {least}
                     THEN {ResolveTerminals(least, largest)} ELSE kept
    IN  Pad(SetToSortSeq(left, <), Len(ts))

(* The children of a pointer on a level its diagram does not have.         *)
Suppressed(p) == IF zdd THEN <<p, Terminal(FALSE)>> ELSE <<p, p>>
Children(n) == <<n.low, n.high>>

----------------------------------------------------------------------------
(* Requests and the queues.                                                *)
NoCarry == <<Nil, Nil>>
Request(t, s, c) == [target |-> t, source |-> s, carry |-> c]
RequestLevel(r) == LevelOf(r.target[1])
EmptyCarry(r) == r.carry = NoCarry

FirstBefore(r, s) ==
    \/ r.target[1] < s.target[1]
    \/ r.target[1] = s.target[1] /\ r.target[2] < s.target[2]
    \/ r.target = s.target /\ r.source < s.source
SecondBefore(r, s) ==
    \/ r.target[2] < s.target[2]
    \/ r.target[2] = s.target[2] /\ r.target[1] < s.target[1]
    \/ r.target = s.target /\ r.source < s.source

Least(requests, Lt(_, _)) == CHOOSE r \in requests : \A s \in requests : ~Lt(s, r)
AtLabel(requests) == {r \in requests : RequestLevel(r) = label}
With(requests, t) == {r \in requests : r.target = t}
EssentialTarget(r) == <<Essential(r.target[1]), Essential(r.target[2])>>

(* down__pq_decorator: the smaller of the heads of queue and roots, where  *)
(* roots are in the order of pointers with flags and read without them.    *)
PqFirst ==
    /\ AtLabel(pq1) # {}
    /\ AtLabel(roots) # {} =>
           FirstBefore(Least(AtLabel(pq1), FirstBefore), Least(AtLabel(roots), FirstBefore))

Top1 == IF PqFirst THEN Least(AtLabel(pq1), FirstBefore)
        ELSE LET r == Least(AtLabel(roots), FirstBefore)
             IN  [r EXCEPT !.target = EssentialTarget(r)]
Top2 == Least(pq2, SecondBefore)

EmptyLevel == AtLabel(pq1) \cup AtLabel(roots) = {}

(* The roots that come up while the head is a request for t: those for t,  *)
(* up to the first one behind a request for something else.                *)
RootsWith(t) ==
    {r \in AtLabel(roots) :
        \A s \in AtLabel(roots) \cup AtLabel(pq1) :
            s = r \/ FirstBefore(s, r) => EssentialTarget(s) = t}

SourcesOf(requests, Lt(_, _)) ==
    LET inOrder == SetToSortSeq(requests, Lt) IN [i \in DOMAIN inOrder |-> inOrder[i].source]

(* The sources of all requests for t, queue by queue.                      *)
Asking(t) == SourcesOf(With(pq1, t), FirstBefore) \o SourcesOf(RootsWith(t), FirstBefore)
                 \o SourcesOf(With(pq2, t), FirstBefore)

----------------------------------------------------------------------------
(* Upper bounds on the queues, from the cuts and the size of a diagram.    *)
SizeBound(n) == n * n + 3
CutBound(cut, terminals) == cut["Internal"] * cut[terminals]
Bound1Of(cut2, size) == Smaller(CutBound(cut2, CutWithTerminals) + 2, SizeBound(size))
Bound2Of(cut1) == CutBound(cut1, CutWithTerminals)

(* Cuts of a diagram of nodes, the least that its file can have, and of    *)
(* one of arcs.                                                            *)
NodeCut1(ns) == [k \in CutKinds |-> OneLevelCut(ns, k)]
NodeCut2(ns) == [k \in CutKinds |-> TwoLevelCut(ns, k)]

TerminalArcs(f, k) ==
    LET all(b) == IF Includes(k, b) THEN f.terminals[b] ELSE 0 IN all(FALSE) + all(TRUE)
SizeOf(f) == (Len(f.internal) + f.terminals[FALSE] + f.terminals[TRUE]) \div 2
ArcCut1(f) == [k \in CutKinds |-> f.cut1 + TerminalArcs(f, k)]
ArcCut2(f) == [k \in CutKinds |-> Smaller((3 * f.cut1) \div 2 + TerminalArcs(f, k), SizeOf(f) + 1)]

----------------------------------------------------------------------------
(* The start of a sweep.                                                   *)
FirstOf(ns) == CHOOSE n \in ns : \A m \in ns : n.uid <= m.uid

Start(ns, levels, isPartial, mode, b1, b2, requests) ==
    /\ nodes' = ns /\ quantified' = levels /\ partial' = isPartial
    /\ access' = mode
    /\ bound1' = b1 /\ bound2' = IF mode = "pq" THEN b2 ELSE 0
    /\ pq1' = requests /\ pq2' = {}
    /\ label' = NoLevel /\ outId' = 0
    /\ v' = FirstOf(ns)
    /\ aw' = NewArcWriter
    /\ remaining' = 0 /\ answer' = Nil
    /\ phase' = "level"

StartAtRoot(ns, levels, isPartial, mode, cut1, cut2) ==
    /\ Start(ns, levels, isPartial, mode, Bound1Of(cut2, Cardinality(ns)), Bound2Of(cut1),
             {Request(<<FirstOf(ns).uid, Nil>>, Nil, NoCarry)})
    /\ UNCHANGED roots

SetupNextLevel ==
    /\ phase = "level" /\ pq1 \cup roots # {}
    /\ label' = -MaxOf({-RequestLevel(r) : r \in pq1 \cup roots})
    /\ outId' = 0
    /\ phase' = "requests"
    /\ UNCHANGED <<quantified, partial, nodes, access, bound1, bound2, pq1, pq2, roots, v, aw,
                   remaining, answer>>

----------------------------------------------------------------------------
(* Answering the requests for one target.                                  *)
ShouldQuantify == label \in quantified

NewRequests(u, low, high) ==
    {Request(a[2], a[1], NoCarry) :
        a \in {b \in {<<u, low>>, <<u + OutBit, high>>} : IsNode(b[2][1])}}

ToTerminal(w, s, t) == IF IsTerminal(t[1]) THEN PushTerminal(w, Arc(s, t[1])) ELSE w

OutputNode(t, low, high) ==
    LET u == Uid(label, outId)
        w == ToTerminal(ToTerminal(aw, u, low), u + OutBit, high)
    IN  /\ outId' = outId + 1
        /\ aw' = PushAllInternal(w, SelectSeq(Asking(t), LAMBDA s : ~IsNil(s)), u)
        /\ pq1' = (pq1 \ With(pq1, t)) \cup NewRequests(u, low, high)
        /\ UNCHANGED <<phase, answer>>

OutputTerminal(r, p) ==
    /\ IF IsNil(r.source) THEN phase' = "terminal" /\ answer' = p /\ UNCHANGED aw
       ELSE aw' = PushAllTerminal(aw, Asking(r.target), p) /\ UNCHANGED <<phase, answer>>
    /\ pq1' = pq1 \ With(pq1, r.target)
    /\ UNCHANGED outId

Forward(t, u) ==
    /\ pq1' = (pq1 \ With(pq1, t)) \cup {Request(u, s, NoCarry) : s \in ToSet(Asking(t))}
    /\ UNCHANGED <<outId, aw, phase, answer>>

Answer(r, fst, snd) ==
    LET t == r.target
        all == ResolveRequest(fst \o snd)
        fits == all[3] = Nil
    IN  /\ CASE ShouldQuantify /\ fits /\ IsTerminal(all[1]) -> OutputTerminal(r, all[1])
             [] ShouldQuantify /\ fits /\ IsNode(all[1]) -> Forward(t, <<all[1], all[2]>>)
             [] ShouldQuantify /\ ~fits -> OutputNode(t, <<all[1], all[2]>>, <<all[3], all[4]>>)
             [] ~ShouldQuantify -> OutputNode(t, ResolveRequest(<<fst[1], snd[1]>>),
                                                 ResolveRequest(<<fst[2], snd[2]>>))
        /\ pq2' = pq2 \ With(pq2, t)
        /\ roots' = roots \ RootsWith(t)
        /\ remaining' = remaining + One(ShouldQuantify /\ ~fits)

OnLabel(p) == IsNode(p) /\ LevelOf(p) = label

AnswerWithRandomAccess ==
    /\ phase = "requests" /\ access = "ra" /\ ~EmptyLevel
    /\ LET t == Top1.target
       IN  Answer(Top1, Children(NodeAt(nodes, t[1])),
                  IF OnLabel(t[2]) THEN Children(NodeAt(nodes, t[2])) ELSE Suppressed(t[2]))
    /\ UNCHANGED <<quantified, partial, nodes, access, bound1, bound2, label, v>>

(* With two queues, the diagram is read once.                              *)
TakesFromFirstIfAny == ~EmptyLevel                          \* (mutant)
TakesFromFirst == ~EmptyLevel /\ (pq2 = {} \/ Top1.target[1] < Top2.target[2])

NextRequest == IF TakesFromFirst THEN Top1 ELSE Top2

SeekTo(r) == IF EmptyCarry(r) THEN r.target[1] ELSE r.target[2]
Seek(p) ==
    IF v.uid >= p THEN v
    ELSE LET ahead == {n \in nodes : n.uid >= p}
         IN  IF ahead = {} THEN NodeAt(nodes, MaxOf({n.uid : n \in nodes})) ELSE FirstOf(ahead)

Carries(r) ==
    EmptyCarry(r) /\ IsNode(r.target[2]) /\ LevelOf(r.target[1]) = LevelOf(r.target[2])

CarryAcross ==
    /\ phase = "requests" /\ access = "pq" /\ ~(EmptyLevel /\ pq2 = {})
    /\ LET r == NextRequest
           moved == With(pq1, r.target) \cup
                        {[s EXCEPT !.target = r.target] : s \in RootsWith(r.target)}
       IN  /\ Carries(r)
           /\ v' = Seek(SeekTo(r))
           /\ pq1' = pq1 \ With(pq1, r.target)
           /\ roots' = roots \ RootsWith(r.target)
           /\ pq2' = pq2 \cup {[s EXCEPT !.carry = Children(v')] : s \in moved}
    /\ UNCHANGED <<quantified, partial, nodes, access, bound1, bound2, phase, label, outId, aw,
                   remaining, answer>>

AnswerInOrder ==
    /\ phase = "requests" /\ access = "pq" /\ ~(EmptyLevel /\ pq2 = {})
    /\ LET r == NextRequest
       IN  /\ ~Carries(r)
           /\ v' = Seek(SeekTo(r))
           /\ Answer(r, IF EmptyCarry(r) THEN Children(v') ELSE r.carry,
                     IF OnLabel(r.target[2]) THEN Children(v') ELSE Suppressed(r.target[2]))
    /\ UNCHANGED <<quantified, partial, nodes, access, bound1, bound2, label>>

----------------------------------------------------------------------------
(* The end of a level, and of the sweep.                                   *)
DistinctBelow == Cardinality({r.target : r \in pq1 \cup roots})    \* (mutant)
CutBelow == Cardinality(pq1) + Cardinality(roots)

EndLevel ==
    /\ phase = "requests" /\ EmptyLevel /\ pq2 = {}
    /\ LET w == IF outId > 0 THEN PushLevelInfo(aw, label, outId) ELSE aw
       IN  aw' = [w EXCEPT !.file.cut1 = Bigger(@, CutBelow)]
    /\ phase' = "level"
    /\ UNCHANGED <<quantified, partial, nodes, access, bound1, bound2, pq1, pq2, roots, label,
                   outId, v, remaining, answer>>

EndSweep ==
    /\ phase = "level" /\ pq1 \cup roots = {}
    /\ aw' = CloseArcs([aw EXCEPT !.file.cut1 = Smaller(Len(aw.file.internal), @)])
    /\ phase' = "swept"
    /\ UNCHANGED <<quantified, partial, nodes, access, bound1, bound2, pq1, pq2, roots, label,
                   outId, v, remaining, answer>>

SweepStep ==
    SetupNextLevel \/ AnswerWithRandomAccess \/ CarryAcross \/ AnswerInOrder \/ EndLevel \/ EndSweep
=============================================================================
