------------------------------- MODULE Handle -------------------------------
(***************************************************************************)
(* A handle on a reduced diagram (internal/dd.h): a shared node file,      *)
(* whether the diagram is its negation, and by how many levels it is       *)
(* shifted.  The file itself never changes; streams apply both while       *)
(* reading (io/node_ifstream.h) and the meta data is looked up             *)
(* accordingly.  Files are told apart by their identity.                   *)
(***************************************************************************)
EXTENDS NodeFile

Handle(id, nodes, negate, shift) ==
    [file |-> id, nodes |-> nodes, negate |-> negate, shift |-> shift]

TerminalHandle(v) == Handle(0, {TerminalNode(v)}, FALSE, 0)
NoHandle == Handle(0, {}, FALSE, 0)

Cnot(p, negate) ==
    IF IsTerminal(p) /\ negate THEN Terminal(~Value(p)) ELSE p
ShiftReplace(p, levels) == IF IsNode(p) THEN p + Uid(levels, 0) ELSE p

Through(d, p) == ShiftReplace(Cnot(p, d.negate), d.shift)

(* What a node_ifstream on the handle reads, and the first node of it.     *)
Read(d) == {Node(Through(d, n.uid), Through(d, n.low), Through(d, n.high)) : n \in d.nodes}
First(d) == CHOOSE n \in Read(d) : \A m \in Read(d) : n.uid <= m.uid

(* Read a stream until it is at t or past it.                              *)
Seek(d, v, t) ==
    IF v.uid >= t \/ \A n \in Read(d) : n.uid <= v.uid THEN v
    ELSE LET ahead == {n \in Read(d) : n.uid >= t}
         IN  IF ahead = {} THEN CHOOSE n \in Read(d) : \A m \in Read(d) : m.uid <= n.uid
             ELSE CHOOSE n \in ahead : \A m \in ahead : n.uid <= m.uid

IsTerminalDiagram(d) == \A n \in d.nodes : IsTerminal(n.uid)
ValueOf(d) == Value(First(d).uid)

Width(d) == MaxOf({Cardinality(OnLevel(d.nodes, l)) : l \in Level} \cup {1})

(* Meta data of the file: arcs to a terminal, through the negation; whether *)
(* it is marked canonical, which a writer does if the nodes of each level  *)
(* came in order and are numbered down from MaxId.                         *)
NumberOfTerminals(d, v) ==
    IF IsTerminalDiagram(d) THEN One(ValueOf(d) = v) ELSE ArcsTo(d.nodes, v # d.negate)

SortedByChildren(nodes) ==
    \A m, n \in nodes : LevelOf(m.uid) = LevelOf(n.uid) /\ n.uid < m.uid =>
        n.high < m.high \/ (n.high = m.high /\ n.low < m.low)
Indexable(nodes) ==
    \A n \in nodes : IdOf(n.uid) < MaxId => \E m \in nodes : m.uid = n.uid + 4
IsCanonical(d) == IsTerminalDiagram(d) \/ (SortedByChildren(d.nodes) /\ Indexable(d.nodes))

LevelInfos(d) ==
    {<<LevelOf(n.uid), Cardinality(OnLevel(Read(d), LevelOf(n.uid)))>> : n \in Read(d)}
VarCount(d) == Cardinality({l \in Level : OnLevel(d.nodes, l) # {}})

NegateCutKind(d, kind) ==
    CASE d.negate /\ kind = "Internal_False" -> "Internal_True"
      [] d.negate /\ kind = "Internal_True" -> "Internal_False"
      [] OTHER -> kind

(* The least cuts a writer may have left in the file: what is enough with  *)
(* these is enough with any sound ones.                                    *)
TerminalCut(d, kind) ==
    One(kind # "Internal" /\ Includes(kind, Value((CHOOSE n \in d.nodes : TRUE).uid)))

Max1LevelCut(d, k) ==
    LET kind == NegateCutKind(d, k)
    IN  IF IsTerminalDiagram(d) THEN TerminalCut(d, kind) ELSE OneLevelCut(d.nodes, kind)
Max2LevelCut(d, k) ==
    LET kind == NegateCutKind(d, k)
    IN  IF IsTerminalDiagram(d) THEN TerminalCut(d, kind) ELSE TwoLevelCut(d.nodes, kind)

FunctionOf(d) == Denotes(Read(d), First(d).uid)
=============================================================================
