------------------------------- MODULE Prod2 --------------------------------
(***************************************************************************)
(* The product construction (internal/algorithms/prod2.h) with the         *)
(* policies of bdd_apply (bdd/apply.cpp), zdd_binop (zdd/binop.cpp) and of *)
(* the conjunction in a relational product (bdd/relprod.cpp): from two     *)
(* diagrams and a binary operator to the arcs of an unreduced diagram.  A  *)
(* request stands for an arc into a pair of nodes.  With random access to  *)
(* one diagram, one queue is enough.                                       *)
(*                                                                         *)
(* All requests for one pair are answered in one step, in the order of     *)
(* their sources, as a debug build does; a release build leaves that order *)
(* open.                                                                   *)
(***************************************************************************)
EXTENDS DoubleInput

VARIABLES
    op,         \* The policy's operator
    outId,      \* out_id
    aw,         \* The writer of out_arcs
    result      \* The handle returned without a sweep, if so

outputVars == <<outId, aw>>
prodVars == <<op, outputVars, result>>

----------------------------------------------------------------------------
(* The binary operators of a product (bool_op.h, internal/bool_op.h).  An  *)
(* operator is the table of its values.  The six commutative ones have     *)
(* classes that know by heart which of their arguments decide the result,  *)
(* leave the other one as it is or negate it; for the others binary_op     *)
(* finds out.                                                              *)
Table(ff, ft, tf, tt) ==
    [a \in BOOLEAN |-> [b \in BOOLEAN |->
        IF a THEN (IF b THEN tt ELSE tf) ELSE (IF b THEN ft ELSE ff)]]

Imp    == Table(TRUE, TRUE, FALSE, TRUE)
Invimp == Table(TRUE, FALSE, TRUE, TRUE)
Diff   == Table(FALSE, FALSE, TRUE, FALSE)
Less   == Table(FALSE, TRUE, FALSE, FALSE)

(* The classes: the arguments for which the operator can be shortcut, is   *)
(* idempotent or is negating, on either side.                              *)
AndOp  == [op |-> Table(FALSE, FALSE, FALSE, TRUE),
           shortcut |-> {FALSE}, idempotent |-> {TRUE}, negating |-> {}]
NandOp == [op |-> Table(TRUE, TRUE, TRUE, FALSE),
           shortcut |-> {FALSE}, idempotent |-> {}, negating |-> {TRUE}]
OrOp   == [op |-> Table(FALSE, TRUE, TRUE, TRUE),
           shortcut |-> {TRUE}, idempotent |-> {FALSE}, negating |-> {}]
NorOp  == [op |-> Table(TRUE, FALSE, FALSE, FALSE),
           shortcut |-> {TRUE}, idempotent |-> {}, negating |-> {FALSE}]
XorOp  == [op |-> Table(FALSE, TRUE, TRUE, FALSE),
           shortcut |-> {}, idempotent |-> {FALSE}, negating |-> {TRUE}]
XnorOp == [op |-> Table(TRUE, FALSE, FALSE, TRUE),
           shortcut |-> {}, idempotent |-> {TRUE}, negating |-> {FALSE}]

Hardcoded == {AndOp, NandOp, OrOp, NorOp, XorOp, XnorOp}

(* binary_op: a predicate is asked for its values                          *)
Flip(o) == [a \in BOOLEAN |-> [b \in BOOLEAN |-> o[b][a]]]

ConstantIn(values) == values[FALSE] = values[TRUE]
IdentityIn(values) == ~values[FALSE] /\ values[TRUE]

Precomputed(o) ==
    [op |-> o,
     shortcut   |-> {v \in BOOLEAN : ConstantIn(o[v])},
     idempotent |-> {v \in BOOLEAN : IdentityIn(o[v])},
     negating   |-> {v \in BOOLEAN : o[v][FALSE] /\ ~o[v][TRUE]}]

(* The class an operator is called by: bdd_and and zdd_union, say, have    *)
(* theirs, bdd_imp and zdd_diff give a predicate.                          *)
ClassOf(o) ==
    IF \E c \in Hardcoded : c.op = o THEN CHOOSE c \in Hardcoded : c.op = o ELSE Precomputed(o)

(* commutative_op answers the same for either side; binary_op looks at the *)
(* table from the right.                                                   *)
Left(o)  == ClassOf(o)
Right(o) == ClassOf(Flip(o))

CanLeftShortcut(o, v)   == v \in Left(o).shortcut
CanRightShortcut(o, v)  == v \in Right(o).shortcut
IsLeftIdempotent(o, v)  == v \in Left(o).idempotent
IsRightIdempotent(o, v) == v \in Right(o).idempotent

----------------------------------------------------------------------------
(* What the policies make of the operator.                                 *)
LeftShortcut(v) ==
    IF zdd THEN ~op[v][FALSE] /\ ~op[v][TRUE] /\ ~op[FALSE][FALSE] /\ ~op[FALSE][TRUE]
           ELSE CanLeftShortcut(op, v)
RightShortcut(v) ==
    IF zdd THEN ~op[FALSE][v] /\ ~op[TRUE][v] /\ ~op[FALSE][FALSE] /\ ~op[TRUE][FALSE]
           ELSE CanRightShortcut(op, v)

ShortcutsLeft(t) == IsTerminal(t[1]) /\ LeftShortcut(Value(t[1]))
ShortcutsRight(t) == IsTerminal(t[2]) /\ RightShortcut(Value(t[2]))

BothTerminal(t) == IsTerminal(t[1]) /\ IsTerminal(t[2])
OpOf(t) == Terminal(op[Value(t[1])][Value(t[2])])

IsRelProd == asked.name = "relprod"
EmptyPair == <<Terminal(FALSE), Terminal(FALSE)>>
FullPair == <<Terminal(TRUE), Terminal(TRUE)>>

Shortcuts(t) == ShortcutsLeft(t) \/ ShortcutsRight(t)
Resolve(t) ==
    CASE Shortcuts(t) /\ IsRelProd -> EmptyPair
      [] ShortcutsLeft(t) /\ ~IsRelProd -> <<t[1], Terminal(TRUE)>>
      [] ~ShortcutsLeft(t) /\ ShortcutsRight(t) /\ ~IsRelProd -> <<Terminal(TRUE), t[2]>>
      [] OTHER -> t

(* A ZDD node whose high child is surely empty is not even output; nor is  *)
(* the node of a variable that is quantified later, if a child decides     *)
(* what becomes of it.                                                     *)
SuppressesNode(high) == zdd /\ (Shortcuts(high) \/ (BothTerminal(high) /\ ~Value(OpOf(high))))

PrunesAnyLevel == IsRelProd                                 \* (mutant)
PrunesLevel == IsRelProd /\ label \in asked.quant

SkipTargets(low, high) ==
    {t \in {low} : SuppressesNode(high)} \cup
    {t \in {Resolve(low), Resolve(high)} :
        /\ PrunesLevel
        /\ t = IF Shortcuts(low) THEN Resolve(high)
               ELSE IF Shortcuts(high) THEN Resolve(low) ELSE FullPair}

CutKind(f, t) ==
    CASE f /\ t -> "All" [] f /\ ~t -> "Internal_False" [] ~f /\ t -> "Internal_True"
      [] OTHER -> "Internal"
LeftCut == CutKind(~LeftShortcut(FALSE), ~LeftShortcut(TRUE))
RightCut == CutKind(~RightShortcut(FALSE), ~RightShortcut(TRUE))

----------------------------------------------------------------------------
(* Upper bounds on the queues, from the cuts and sizes of the inputs.      *)
TerminalValues(kind) == One(Includes(kind, FALSE)) + One(Includes(kind, TRUE))

MaxCut(levels, d, kind) == IF levels = 1 THEN Max1LevelCut(d, kind) ELSE Max2LevelCut(d, kind)

ProductOfCuts(levels, f, g, inc) ==
    LET fi == MaxCut(levels, f, "Internal")
        gi == MaxCut(levels, g, "Internal")
        ft == MaxCut(levels, f, LeftCut) - fi
        gt == MaxCut(levels, g, RightCut) - gi
    IN  fi * gi + ft * gi + fi * gt + inc

TwoLevelBound(f, g) ==
    LET f1 == Max1LevelCut(f, "Internal")
        f2 == Max2LevelCut(f, "Internal")
        ft == Max1LevelCut(f, LeftCut) - f1
        g1 == Max1LevelCut(g, "Internal")
        g2 == Max2LevelCut(g, "Internal")
        gt == Max1LevelCut(g, RightCut) - g1
    IN  f2 * g2 + g1 * ft + TerminalValues(LeftCut) * g2
              + f1 * gt + TerminalValues(RightCut) * f2 + 2

SizeBound(f, g) ==
    (Cardinality(f.nodes) + TerminalValues(LeftCut))
        * (Cardinality(g.nodes) + TerminalValues(RightCut)) + 1 + 2

PairsOfNodes(f, g) ==                                       \* (mutant)
    Max2LevelCut(f, "Internal") * Max2LevelCut(g, "Internal")
Bound1(f, g) ==
    Smaller(ProductOfCuts(2, f, g, 2), Smaller(TwoLevelBound(f, g), SizeBound(f, g)))
Bound2(f, g) == ProductOfCuts(1, f, g, 0)

----------------------------------------------------------------------------
(* The sources of requests, in order.                                      *)
Sources(requests) == SetToSortSeq({r.source : r \in requests}, <)

----------------------------------------------------------------------------
ProdInit ==
    /\ op = asked.op
    /\ outId = 0
    /\ aw = NewArcWriter
    /\ result = NoHandle

IsProduct == algorithm = "apply"

(* Cases that need no sweep.                                               *)
Negated(d) == [d EXCEPT !.negate = ~@]

SameDiagram == in0.file = in1.file /\ in0.shift = in1.shift

ResolveSameFile ==
    LET opF == IF zdd THEN op[FALSE][FALSE] ELSE op[in0.negate][in1.negate]
        opT == IF zdd THEN op[TRUE][TRUE] ELSE op[~in0.negate][~in1.negate]
    IN  CASE opF = opT -> TerminalHandle(opF)
          [] opF # opT /\ ~zdd /\ opF # in0.negate -> Negated(in0)
          [] OTHER -> in0

(* What an operator makes of a diagram, the other one being a terminal;    *)
(* NoHandle for the ZDDs that need the sweep all the same.                 *)
WithTerminal(d, shortcut, idempotent, v) ==
    CASE shortcut -> TerminalHandle(IF zdd THEN FALSE ELSE v)
      [] ~shortcut /\ idempotent -> d
      [] OTHER -> IF zdd THEN NoHandle ELSE Negated(d)

ResolveTerminalRoot ==
    LET p == ValueOf(in0)
        q == ValueOf(in1)
    IN  IF IsTerminalDiagram(in0) /\ IsTerminalDiagram(in1) THEN TerminalHandle(op[p][q])
        ELSE IF IsTerminalDiagram(in0)
        THEN WithTerminal(in1, LeftShortcut(p),
                          IsLeftIdempotent(op, p) /\ (zdd => IsLeftIdempotent(op, FALSE)), op[p][FALSE])
        ELSE WithTerminal(in0, RightShortcut(q),
                          IsRightIdempotent(op, q) /\ (zdd => IsRightIdempotent(op, FALSE)), op[FALSE][q])

Trivial ==
    IF SameDiagram THEN ResolveSameFile
    ELSE IF IsTerminalDiagram(in0) \/ IsTerminalDiagram(in1) THEN ResolveTerminalRoot
    ELSE NoHandle

Resolved ==
    /\ IsProduct /\ phase = "begin" /\ Trivial # NoHandle
    /\ result' = Trivial
    /\ phase' = "done"
    /\ UNCHANGED <<inputVars, streamVars, op, outputVars>>

(* Random access is given to the narrower diagram; files that Reduce wrote *)
(* are indexable.  Which variant fits in memory is left open.              *)
FlipsInput == Width(in0) <= Width(in1)

FlippedOperator(o) == Flip(o)

Begin(mode) ==
    /\ IsProduct /\ phase = "begin" /\ Trivial = NoHandle
    /\ access' = mode
    /\ bound1' = Bound1(in0, in1)
    /\ bound2' = IF mode = "pq" THEN Bound2(in0, in1) ELSE 0
    /\ IF mode = "ra" /\ FlipsInput
       THEN in0' = in1 /\ in1' = in0 /\ op' = FlippedOperator(op)
       ELSE UNCHANGED <<in0, in1, op>>
    /\ v0' = First(in0') /\ v1' = First(in1')
    /\ pq1' = {Request(<<v0'.uid, v1'.uid>>, Nil, NoCarry)}
    /\ aw' = [aw EXCEPT !.file.cut1 = One(mode = "ra")]
    /\ phase' = "level"
    /\ UNCHANGED <<zdd, asked, algorithm, pq2, label, outId, result>>

CutAtLevel(c) == Cardinality(pq1)                           \* (mutant)
CutUpToLevel(c) == Bigger(c, Cardinality(pq1))

SetupNextLevel ==
    /\ IsProduct /\ phase = "level" /\ pq1 # {}
    /\ IsNextLevel(label')
    /\ outId' = 0
    /\ aw' = [aw EXCEPT !.file.cut1 = CutUpToLevel(@)]
    /\ phase' = "requests"
    /\ UNCHANGED <<inputVars, pq1, pq2, v0, v1, op, result>>

----------------------------------------------------------------------------
(* Answering the requests for one pair.                                    *)
(* The level buffer of the random access, indexed from its end.            *)
LevelBuffer(d) == SetToSortSeq(OnLevel(Read(d), label), LAMBDA m, n : m.uid < n.uid)
At(d, u) == LevelBuffer(d)[Len(LevelBuffer(d)) - (MaxId + 1 - IdOf(u)) + 1]

(* Where the arc out of a new node goes: to a terminal or on to a pair.    *)
NewRequests(u, low, high) ==
    {Request(a[2], a[1], NoCarry) :
        a \in {b \in {<<u, low>>, <<u + OutBit, high>>} : ~BothTerminal(b[2])}}

ToTerminals(w, u, low, high) ==
    LET x == IF BothTerminal(low) THEN PushTerminal(w, Arc(u, OpOf(low))) ELSE w
    IN  IF BothTerminal(high) THEN PushTerminal(x, Arc(u + OutBit, OpOf(high))) ELSE x

IsRoot(source) == source = Nil

(* The arcs of the requests, and those of the queue with a carry after     *)
(* those of the other.                                                     *)
Asking(t) == Sources(With(AtLabel, t)) \o Sources(With(pq2, t))
ArcsIn(t) == SelectSeq(Asking(t), LAMBDA s : ~IsRoot(s))

OutputNode(t, low, high) ==
    LET u == Uid(label, outId)
    IN  /\ outId' = outId + 1
        /\ aw' = PushAllInternal(ToTerminals(aw, u, low, high), ArcsIn(t), u)
        /\ pq1' = (pq1 \ With(pq1, t)) \cup NewRequests(u, low, high)
        /\ UNCHANGED <<phase, result>>

SkipToTerminals(r, t, pair) ==
    /\ IF IsRoot(r.source)
       THEN result' = TerminalHandle(Value(OpOf(pair))) /\ phase' = "done" /\ UNCHANGED aw
       ELSE /\ aw' = PushAllTerminal(aw, Asking(t), OpOf(pair))
            /\ UNCHANGED <<phase, result>>
    /\ pq1' = pq1 \ With(pq1, t)
    /\ UNCHANGED outId

SkipTo(t, pair) ==
    /\ pq1' = (pq1 \ With(pq1, t)) \cup {Request(pair, s, NoCarry) : s \in Range(Asking(t))}
    /\ UNCHANGED <<outId, aw, phase, result>>

Answer(r, children0, children1) ==
    LET low == <<children0[1], children1[1]>>
        high == <<children0[2], children1[2]>>
        t == r.target
    IN  /\ \/ SkipTargets(low, high) = {} /\ OutputNode(t, Resolve(low), Resolve(high))
           \/ \E pair \in SkipTargets(low, high) :
                  IF BothTerminal(pair) THEN SkipToTerminals(r, t, pair) ELSE SkipTo(t, pair)
        /\ pq2' = pq2 \ With(pq2, t)

AnswerWithRandomAccess ==
    /\ IsProduct /\ phase = "requests" /\ access = "ra" /\ AtLabel # {}
    /\ LET r == Top1
           children(i, n) == IF LevelOf(r.target[i]) = label THEN Children(n)
                             ELSE Suppressed(r.target[i])
       IN  /\ v0' = IF LevelOf(r.target[1]) = label THEN Seek(in0, v0, r.target[1]) ELSE v0
           /\ Answer(r, children(1, v0'),
                     IF LevelOf(r.target[2]) = label THEN Children(At(in1, r.target[2]))
                     ELSE Suppressed(r.target[2]))
    /\ UNCHANGED <<inputVars, label, v1, op>>

CarryAcross ==
    /\ IsProduct /\ phase = "requests" /\ access = "pq" /\ AtLabel \cup pq2 # {}
    /\ LET r == NextRequest
       IN  /\ Carries(r)
           /\ SeekBoth(r)
           /\ LET children == AtHand(r.target)
                  moved == With(pq1, r.target)
              IN  /\ pq1' = pq1 \ moved
                  /\ pq2' = pq2 \cup {[s EXCEPT !.carry = children] : s \in moved}
    /\ UNCHANGED <<inputVars, phase, label, prodVars>>

AnswerInOrder ==
    /\ IsProduct /\ phase = "requests" /\ access = "pq" /\ AtLabel \cup pq2 # {}
    /\ LET r == NextRequest
       IN  /\ ~Carries(r)
           /\ SeekBoth(r)
           /\ Answer(r, Merge(r, 1, v0'), Merge(r, 2, v1'))
    /\ UNCHANGED <<inputVars, label, op>>

EndLevel ==
    /\ IsProduct /\ phase = "requests" /\ AtLabel \cup pq2 = {}
    /\ aw' = IF ~(zdd \/ IsRelProd) \/ outId > 0 THEN PushLevelInfo(aw, label, outId) ELSE aw
    /\ phase' = "level"
    /\ UNCHANGED <<inputVars, streamVars, op, outId, result>>

Finish ==
    /\ IsProduct /\ phase = "level" /\ pq1 = {}
    /\ aw' = CloseArcs([aw EXCEPT !.file.cut1 = Smaller(Len(aw.file.internal), @)])
    /\ phase' = "done"
    /\ UNCHANGED <<inputVars, streamVars, op, outId, result>>

ProdNext ==
    \/ Resolved
    \/ \E mode \in {"ra", "pq"} : Begin(mode)
    \/ SetupNextLevel
    \/ AnswerWithRandomAccess \/ CarryAcross \/ AnswerInOrder
    \/ EndLevel \/ Finish
=============================================================================
