------------------------------ MODULE Intercut ------------------------------
(***************************************************************************)
(* Arcs that cross some levels are cut in two by a new node, and nodes on  *)
(* those levels are changed (internal/algorithms/intercut.h): zdd_expand,  *)
(* zdd_complement, zdd_change, and the conversions between the two kinds   *)
(* (convert.h).  Labels here are those of the levels to cut.               *)
(***************************************************************************)
EXTENDS SingleInput

VARIABLE
    hitLevel    \* hit_level: the current level is one to cut

Cuttings == {"expand", "complement", "change", "zdd_from", "bdd_from"}
IsCutting == asked.op \in Cuttings
Converts == asked.op \in {"zdd_from", "bdd_from"}

----------------------------------------------------------------------------
(* The policies.  A conversion writes a diagram of the one kind and reads  *)
(* one of the other: zdd is the kind that is written.                      *)
MultFactor == IF asked.op = "change" THEN 1 ELSE 2
CutsTerminal(b) == b \/ asked.op = "complement"
CutsKind == IF CutsTerminal(FALSE) THEN "All" ELSE "Internal_True"

RestoredNode(p) ==                      \* from_policy::reduction_rule_inv
    IF asked.op = "zdd_from" THEN <<p, p>> ELSE <<p, Terminal(FALSE)>>
NegateTerminal(p) == IF IsTerminal(p) THEN Terminal(~Value(p)) ELSE p

(* The children of the node that replaces one of the input on a level to   *)
(* cut, or that goes on an arc to p across it.                             *)
SkipsHit(n) ==
    CASE asked.op = "change" -> IsFalse(n.low)
      [] Converts -> ReductionRule(n) # n.uid
      [] OTHER -> FALSE
HitSkipTo(n) == IF asked.op = "change" THEN n.high ELSE ReductionRule(n)
HitExisting(n) ==
    CASE asked.op = "complement" -> <<NegateTerminal(n.low), NegateTerminal(n.high)>>
      [] asked.op = "change" -> <<n.high, n.low>>
      [] Converts -> <<n.low, n.high>>
HitCut(p) ==
    CASE asked.op = "expand" -> <<p, p>>
      [] asked.op = "complement" -> IF IsTrue(p) THEN <<p, p>> ELSE <<p, Terminal(TRUE)>>
      [] asked.op = "change" -> <<Terminal(FALSE), p>>
      [] Converts -> RestoredNode(p)

(* What replaces the terminal b: a node on each of the levels, each with   *)
(* the one below for both children or one, unless b stays a terminal.      *)
ChainEnd(b) == Terminal(IF asked.op = "complement" THEN ~b ELSE b)
StaysTerminal(b) == ~b /\ asked.op # "complement"
LinkTo(p) ==
    CASE asked.op = "change" -> <<Terminal(FALSE), p>>
      [] asked.op = "complement" /\ IsFalse(p) -> <<p, Terminal(TRUE)>>
      [] asked.op = "bdd_from" -> RestoredNode(p)
      [] OTHER -> <<p, p>>

OnTerminalInput(b) ==
    LET link(l, chain) ==
            LET n == Node(Uid(l, MaxId), LinkTo(chain.root)[1], LinkTo(chain.root)[2])
            IN  [root |-> n.uid, nodes |-> chain.nodes \cup {n}]
    IN  IF StaysTerminal(b) THEN TerminalHandle(b)
        ELSE Handle(0, FoldRight(link, asked.labels, [root |-> ChainEnd(b), nodes |-> {}]).nodes,
                    FALSE, 0)

----------------------------------------------------------------------------
(* Cases that need no sweep.                                               *)
CutTrivially ==
    /\ phase = "begin" /\ IsCutting
    /\ asked.labels = <<>> \/ IsTerminalDiagram(asked.in)
    /\ result' = IF asked.labels = <<>> THEN asked.in ELSE OnTerminalInput(ValueOf(asked.in))
    /\ phase' = "done"
    /\ UNCHANGED <<zdd, asked, bound, sweepVars, hitLevel>>

NoMoreCuts == Levels                    \* max_label + 1
NextCut == IF labels = <<>> THEN NoMoreCuts ELSE Head(labels)

FactorOnly == MultFactor * Max1LevelCut(asked.in, CutsKind)             \* (mutant)
CutBound == (3 * MultFactor * Max1LevelCut(asked.in, CutsKind)) \div 2 + 2

BeginCutting ==
    /\ phase = "begin" /\ IsCutting
    /\ asked.labels # <<>> /\ ~IsTerminalDiagram(asked.in)
    /\ bound' = CutBound
    /\ v' = First(asked.in)
    /\ pq' = {Request(Nil, v'.uid, Smaller(NextCut, LevelOf(v'.uid)))}
    /\ aw' = [aw EXCEPT !.file.cut1 = 0]
    /\ phase' = "level"
    /\ UNCHANGED <<zdd, asked, label, outId, labels, result, hitLevel>>

(* Whether the level is one to cut is seen before moving on to the next.   *)
CutNextLevel ==
    /\ phase = "level" /\ IsCutting /\ pq # {}
    /\ label' \in {r.level : r \in pq}
    /\ \A r \in pq : label' <= r.level
    /\ outId' = 0
    /\ hitLevel' = (label' = NextCut)
    /\ labels' = SelectSeq(labels, LAMBDA x : x > label')
    /\ aw' = [aw EXCEPT !.file.cut1 = CutUpToLevel(@)]
    /\ phase' = "requests"
    /\ UNCHANGED <<zdd, asked, bound, pq, v, result>>

----------------------------------------------------------------------------
(* An arc out of a node on this level, or past it, is done with if it goes *)
(* to a terminal that is not cut; the others are asked for on the level of *)
(* their target, or of the next cut before it.                             *)
CutsNoTerminal(p) == FALSE                                  \* (mutant)
CutTerminal(p) == label < NextCut /\ NextCut < NoMoreCuts /\ CutsTerminal(Value(p))
IsDone(p) == IsTerminal(p) /\ ~CutTerminal(p)

ForwardOut(w, source, p) == IF IsDone(p) THEN PushTerminal(w, Arc(source, p)) ELSE w
Pushed(source, p) ==
    IF IsDone(p) THEN {} ELSE {Request(source, p, Smaller(LevelOf(p), NextCut))}

OutputInstead(t, children) ==
    LET u == Uid(label, outId)
    IN  /\ aw' = PushAllInternal(ForwardOut(ForwardOut(aw, u, children[1]), u + OutBit, children[2]),
                                 ArcsIn(t), u)
        /\ pq' = (pq \ With(t)) \cup Pushed(u, children[1]) \cup Pushed(u + OutBit, children[2])
        /\ outId' = outId + 1
        /\ UNCHANGED <<phase, result>>

SkipOver(t, p) ==
    /\ IF IsDone(p) /\ IsRoot(Head(Sources(t)))
       THEN /\ result' = TerminalHandle(Value(p))
            /\ phase' = "done"
            /\ UNCHANGED <<pq, aw>>
       ELSE /\ aw' = FoldLeft(LAMBDA w, s : ForwardOut(w, s, p), aw, Sources(t))
            /\ pq' = (pq \ With(t)) \cup UNION {Pushed(r.source, p) : r \in With(t)}
            /\ UNCHANGED <<phase, result>>
    /\ UNCHANGED outId

(* Requests for the nodes on this level come first, in the order of the    *)
(* file.                                                                   *)
ResolveExisting ==
    /\ phase = "requests" /\ IsCutting /\ AtLevel # {}
    /\ LET t == Top.target
       IN  /\ LevelOf(t) = label
           /\ v' = Seek(asked.in, v, t)
           /\ CASE hitLevel /\ SkipsHit(v') -> SkipOver(t, HitSkipTo(v'))
                [] hitLevel /\ ~SkipsHit(v') -> OutputInstead(t, HitExisting(v'))
                [] OTHER -> OutputInstead(t, <<v'.low, v'.high>>)
    /\ UNCHANGED <<zdd, asked, bound, label, labels, hitLevel>>

(* Then those that only cross it.                                          *)
ResolveCut ==
    /\ phase = "requests" /\ IsCutting /\ AtLevel # {}
    /\ LevelOf(Top.target) # label
    /\ OutputInstead(Top.target, HitCut(Top.target))
    /\ UNCHANGED <<zdd, asked, bound, label, v, labels, hitLevel>>

FinishCutting ==
    /\ phase = "level" /\ IsCutting /\ pq = {}
    /\ CloseOutput
    /\ phase' = "done"
    /\ UNCHANGED <<zdd, asked, bound, pq, label, outId, v, labels, result, hitLevel>>

CutInit == hitLevel = FALSE
CutNext ==
    CutTrivially \/ BeginCutting \/ CutNextLevel \/ ResolveExisting \/ ResolveCut \/ FinishCutting

----------------------------------------------------------------------------
(* Reference.                                                              *)
CutFunction ==
    LET f == InputFunction(IF Converts THEN ~zdd ELSE zdd)
        within(x) == x \subseteq LabelSet
    IN  CASE asked.op = "expand" -> {x \in SUBSET Level : (x \ LabelSet) \in f}
          [] asked.op = "complement" -> {x \in SUBSET LabelSet : x \notin f}
          [] asked.op = "change" -> {(x \ LabelSet) \cup (LabelSet \ x) : x \in f}
          [] asked.op = "zdd_from" -> {x \in f : within(x)}
          [] asked.op = "bdd_from" -> {x \in SUBSET Level : (x \cap LabelSet) \in f}
=============================================================================
