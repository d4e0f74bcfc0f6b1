----------------------------- MODULE IfThenElse -----------------------------
(***************************************************************************)
(* bdd_ite (bdd/if_then_else.cpp): an apply where two of the three         *)
(* diagrams coincide or one is a terminal; a mere concatenation of the     *)
(* three files where the first is above the other two and these have no    *)
(* level in common; and otherwise the product of the three, whose requests *)
(* are for triples.  Up to three nodes of one level are met one after the  *)
(* other; the children of the first, and of the second, are carried by a   *)
(* queue each.                                                             *)
(***************************************************************************)
EXTENDS Prod2

VARIABLES
    in2,        \* The third input
    v2,         \* The node at the head of its stream
    pq3,        \* Requests of this level with two carries
    bound3,     \* max_pq_3_size
    zipped      \* The file of a concatenation

thirdVars == <<in2, v2, pq3, bound3>>
iteVars == <<thirdVars, zipped>>

IteInit ==
    /\ in2 = asked.in2
    /\ v2 = Dummy
    /\ pq3 = {} /\ bound3 = 0
    /\ zipped = EmptyFile

IsIte == algorithm = "ite"

----------------------------------------------------------------------------
(* Cases that are an apply, or no work at all.                             *)
SameFunction(d, e) == d.file = e.file /\ d.shift = e.shift

Return3(d) == [op |-> XnorOp.op, with |-> d, apply |-> FALSE]
Apply3(o, d) == [op |-> o, with |-> d, apply |-> TRUE]
Sweeps3 == Return3(NoHandle)

ElseOnly(g, h) == IF g THEN Apply3(OrOp.op, h) ELSE Apply3(Less, h)

Shortcut(f, g, h) ==
    CASE SameFunction(g, h) -> IF g.negate = h.negate THEN Return3(g) ELSE Apply3(XnorOp.op, g)
      [] ~SameFunction(g, h) /\ SameFunction(f, g) ->
            ElseOnly(f.negate = g.negate, h)
      [] ~SameFunction(g, h) /\ ~SameFunction(f, g) /\ SameFunction(f, h) ->
            Apply3(IF f.negate = h.negate THEN AndOp.op ELSE Imp, g)
      [] OTHER ->
            IF IsTerminalDiagram(f) THEN Return3(IF ValueOf(f) THEN g ELSE h)
            ELSE IF IsTerminalDiagram(g) THEN ElseOnly(ValueOf(g), h)
            ELSE IF IsTerminalDiagram(h) THEN Apply3(IF ValueOf(h) THEN Imp ELSE AndOp.op, g)
            ELSE Sweeps3

IteShortcut ==
    /\ IsIte /\ phase = "begin"
    /\ LET s == Shortcut(in0, in1, in2)
       IN  /\ s # Sweeps3
           /\ IF s.apply
              THEN /\ algorithm' = "apply" /\ op' = s.op /\ in1' = s.with
                   /\ UNCHANGED <<phase, result>>
              ELSE /\ result' = s.with /\ phase' = "done"
                   /\ UNCHANGED <<algorithm, op, in1>>
    /\ UNCHANGED <<zdd, asked, in0, access, bound1, bound2, streamVars, outputVars, iteVars>>

----------------------------------------------------------------------------
(* Concatenation: the nodes of the two cases bottom-up, then those of the  *)
(* condition with its terminals replaced by the roots of the cases.        *)
LevelsRead(d) == {LevelOf(n.uid) : n \in Read(d)}

CanConcatenate ==
    /\ \A l \in LevelsRead(in0), k \in LevelsRead(in1) \cup LevelsRead(in2) : l < k
    /\ LevelsRead(in1) \cap LevelsRead(in2) = {}

OntoCases(p) ==
    IF ~IsTerminal(p) THEN p ELSE IF Value(p) THEN First(in1).uid ELSE First(in2).uid

ZippedNodes ==
    Read(in1) \cup Read(in2)
        \cup {Node(n.uid, OntoCases(n.low), OntoCases(n.high)) : n \in Read(in0)}

(* The assigned cuts; close() computes the 1-level cut anew.               *)
RawCut(levels, d, kind) ==
    IF levels = 1 THEN OneLevelCut(d.nodes, kind) ELSE TwoLevelCut(d.nodes, kind)
ZippedCut(levels) == [k \in CutKinds |->
    Bigger(RawCut(levels, in0, "All"), RawCut(levels, in1, k) + RawCut(levels, in2, k))]

BottomUp(nodes) == SetToSortSeq(nodes, LAMBDA m, n : m.uid > n.uid)

Concatenate ==
    /\ IsIte /\ phase = "begin" /\ Shortcut(in0, in1, in2) = Sweeps3 /\ CanConcatenate
    /\ LET w == FoldLeft(Push, Constructed(EmptyFile), BottomUp(ZippedNodes))
       IN  zipped' = Closed([w EXCEPT !.file.cut1 = ZippedCut(1), !.file.cut2 = ZippedCut(2)]).file
    /\ result' = Handle(3, ZippedNodes, FALSE, 0)
    /\ phase' = "done"
    /\ UNCHANGED <<inputVars, streamVars, op, outputVars, thirdVars>>

----------------------------------------------------------------------------
(* The sizes of the queues.                                                *)
IteProductOfCuts(levels, inc) ==
    LET cut(d, kind) == MaxCut(levels, d, kind)
        inner(d) == cut(d, "Internal")
        falses(d) == cut(d, "Internal_False") - inner(d)
        trues(d) == cut(d, "Internal_True") - inner(d)
    IN  inner(in0) * (cut(in1, "All") * inner(in2) + inner(in1) * cut(in2, "All")
                         + falses(in1) * trues(in2) + trues(in1) * falses(in2))
            + trues(in0) * inner(in1) + falses(in0) * inner(in2) + inc

IteSizeBound ==
    LET size(d) == Cardinality(d.nodes)
    IN  size(in0) * ((size(in1) + 2) * (size(in2) + 2) - 2) + size(in1) + size(in2) + 1 + 2

(* Where an arc goes that asks for a triple: to a terminal, or on to what  *)
(* of the triple still matters.                                            *)
Agree(t) == IsTerminal(t[2]) /\ t[2] = t[3]
Pruned(t) == <<t[1], IF IsFalse(t[1]) THEN Nil ELSE t[2], IF IsTrue(t[1]) THEN Nil ELSE t[3]>>
IsSettled(t) ==
    Agree(t) \/ (IsTerminal(t[1]) /\ (IsTerminal(Pruned(t)[2]) \/ IsTerminal(Pruned(t)[3])))
Settled(t) == IF Agree(t) \/ IsTerminal(Pruned(t)[2]) THEN t[2] ELSE t[3]

NoCarries == <<NoCarry, NoCarry>>
IteRequests(u, low, high) ==
    {Request(Pruned(a[2]), a[1], NoCarries) :
        a \in {b \in {<<u, low>>, <<u + OutBit, high>>} : ~IsSettled(b[2])}}
IteTerminals(w, u, low, high) ==
    LET x == IF IsSettled(low) THEN PushTerminal(w, Arc(u, Settled(low))) ELSE w
    IN  IF IsSettled(high) THEN PushTerminal(x, Arc(u + OutBit, Settled(high))) ELSE x

(* The root is not a request: its node is output at once.                  *)
ChildrenAt(v, l) == IF LevelOf(v.uid) = l THEN Children(v) ELSE <<v.uid, v.uid>>
StreamAt(d, v, l) == IF LevelOf(v.uid) = l THEN Seek(d, v, v.uid + 4) ELSE v

BeginIte ==
    /\ IsIte /\ phase = "begin" /\ Shortcut(in0, in1, in2) = Sweeps3 /\ ~CanConcatenate
    /\ bound1' = Smaller(IteProductOfCuts(2, 2), IteSizeBound)
    /\ bound2' = IteProductOfCuts(1, 0)
    /\ bound3' = bound2'
    /\ LET roots == <<First(in0), First(in1), First(in2)>>
           l == RequestLevel([i \in 1 .. 3 |-> roots[i].uid])
           arc(j) == [i \in 1 .. 3 |-> ChildrenAt(roots[i], l)[j]]
           u == Uid(l, 0)
       IN  /\ label' = l
           /\ v0' = StreamAt(in0, roots[1], l)
           /\ v1' = StreamAt(in1, roots[2], l)
           /\ v2' = StreamAt(in2, roots[3], l)
           /\ aw' = PushLevelInfo(IteTerminals(aw, u, arc(1), arc(2)), l, 1)
           /\ pq1' = IteRequests(u, arc(1), arc(2))
    /\ phase' = "level"
    /\ UNCHANGED <<zdd, asked, algorithm, in0, in1, in2, access, pq2, pq3, op, outId, result, zipped>>

IteSetupNextLevel ==
    /\ IsIte /\ phase = "level" /\ pq1 # {}
    /\ IsNextLevel(label')
    /\ outId' = 0
    /\ aw' = [aw EXCEPT !.file.cut1 = Bigger(@, Cardinality(pq1))]
    /\ phase' = "requests"
    /\ UNCHANGED <<inputVars, pq1, pq2, v0, v1, op, result, iteVars>>

----------------------------------------------------------------------------
(* The next request of the three queues.                                   *)
ThirdBefore(t, u) == LastOf(t) < LastOf(u) \/ (LastOf(t) = LastOf(u) /\ Before(t, u))
Top3 == CHOOSE r \in pq3 : \A s \in pq3 : ~ThirdBefore(s.target, r.target)

TakesFirstOfThree ==
    /\ TakesFromFirst
    /\ pq3 = {} \/ FirstOf(Top1.target) < LastOf(Top3.target)
TakesSecondOfThree ==
    /\ pq2 # {}
    /\ pq3 = {} \/ SecondOf(Top2.target) < LastOf(Top3.target)

NextOfThree ==
    IF TakesFirstOfThree THEN Top1 ELSE IF TakesSecondOfThree THEN Top2 ELSE Top3

HasData1(r) == r.carry[1] # NoCarry
HasData2(r) == r.carry[2] # NoCarry
SeekTo3(r) ==
    IF HasData2(r) THEN LastOf(r.target)
    ELSE IF HasData1(r) THEN SecondOf(r.target) ELSE FirstOf(r.target)

SeekAll(r) ==
    /\ v0' = Seek(in0, v0, SeekTo3(r))
    /\ v1' = Seek(in1, v1, SeekTo3(r))
    /\ v2' = Seek(in2, v2, SeekTo3(r))

(* Nodes that are still to come, and those at hand that have to wait.      *)
Heads(r) == <<Seek(in0, v0, SeekTo3(r)), Seek(in1, v1, SeekTo3(r)), Seek(in2, v2, SeekTo3(r))>>

IsAhead(r, i) ==
    LET t == r.target[i]
    IN  IsNode(t) /\ LevelOf(t) = label /\ SeekTo3(r) < t /\ Heads(r)[i].uid # t
MustForward(r) == \E i \in 1 .. 3 : IsAhead(r, i)

Forwards(r) ==
    LET t == r.target
    IN  {i \in 1 .. 3 :
            /\ IF i = 1 THEN SeekTo3(r) <= t[1] ELSE SeekTo3(r) = t[i]
            /\ t[i] < LastOf(t)
            /\ Heads(r)[i].uid = t[i]}

(* Two carries, in the order of the inputs.                                *)
TwoCarries(r) ==
    LET f == Forwards(r)
        v == Heads(r)
        firstOfTwo == Children(v[IF 1 \in f THEN 1 ELSE 2])
        lastOfTwo == Children(v[IF 3 \in f THEN 3 ELSE 2])
    IN  IF ~HasData1(r) THEN <<firstOfTwo, lastOfTwo>>
        ELSE IF r.target[1] < SeekTo3(r) \/ 3 \in f THEN <<r.carry[1], lastOfTwo>>
        ELSE <<firstOfTwo, r.carry[1]>>

OneCarry(r) ==
    LET f == Forwards(r)
    IN  <<Children(Heads(r)[IF 1 \in f THEN 1 ELSE IF 2 \in f THEN 2 ELSE 3]), NoCarry>>

Carrying(requests, carry) == {[s EXCEPT !.carry = carry] : s \in requests}

ForwardAcross ==
    /\ IsIte /\ phase = "requests" /\ AtLabel \cup pq2 \cup pq3 # {}
    /\ LET r == NextOfThree
           moved == With(pq1 \cup pq2, r.target)
       IN  /\ MustForward(r)
           /\ SeekAll(r)
           /\ pq1' = pq1 \ moved
           /\ IF HasData1(r) \/ Cardinality(Forwards(r)) = 2
              THEN pq2' = pq2 \ moved /\ pq3' = pq3 \cup Carrying(moved, TwoCarries(r))
              ELSE pq2' = pq2 \cup Carrying(moved, OneCarry(r)) /\ UNCHANGED pq3
    /\ UNCHANGED <<inputVars, phase, label, prodVars, in2, bound3, zipped>>

(* The children of the i-th node: the pointer itself if it is below, read  *)
(* from the stream if the node is there, or else carried.                  *)
WhoseCarry(r, i) ==
    LET early == {j \in 1 .. i - 1 : r.target[j] < SeekTo3(r)}
    IN  IF early = {} THEN 1 ELSE 2
Children3(r, i) ==
    LET t == r.target[i]
    IN  IF label < LevelOf(t) THEN <<t, t>>
        ELSE IF t = Heads(r)[i].uid THEN Children(Heads(r)[i])
        ELSE r.carry[WhoseCarry(r, i)]

Asking3(t) == Asking(t) \o Sources(With(pq3, t))

AnswerTriple ==
    /\ IsIte /\ phase = "requests" /\ AtLabel \cup pq2 \cup pq3 # {}
    /\ LET r == NextOfThree
           t == r.target
           arc(j) == [i \in 1 .. 3 |-> Children3(r, i)[j]]
           u == Uid(label, outId)
       IN  /\ ~MustForward(r)
           /\ SeekAll(r)
           /\ outId' = outId + 1
           /\ aw' = PushAllInternal(IteTerminals(aw, u, arc(1), arc(2)), Asking3(t), u)
           /\ pq1' = (pq1 \ With(pq1, t)) \cup IteRequests(u, arc(1), arc(2))
           /\ pq2' = pq2 \ With(pq2, t)
           /\ pq3' = pq3 \ With(pq3, t)
    /\ UNCHANGED <<inputVars, phase, label, op, result, in2, bound3, zipped>>

IteEndLevel ==
    /\ IsIte /\ phase = "requests" /\ AtLabel \cup pq2 \cup pq3 = {}
    /\ aw' = PushLevelInfo(aw, label, outId)
    /\ phase' = "level"
    /\ UNCHANGED <<inputVars, streamVars, op, outId, result, iteVars>>

IteFinish ==
    /\ IsIte /\ phase = "level" /\ pq1 = {}
    /\ aw' = CloseArcs(aw)
    /\ phase' = "done"
    /\ UNCHANGED <<inputVars, streamVars, op, outId, result, iteVars>>

IteNext ==
    \/ IteShortcut \/ Concatenate \/ BeginIte
    \/ IteSetupNextLevel \/ ForwardAcross \/ AnswerTriple \/ IteEndLevel \/ IteFinish
=============================================================================
