-------------------------- MODULE DecisionDiagram --------------------------
(***************************************************************************)
(* The data a decision diagram is made of: pointers and unique identifiers *)
(* (internal/data_types/ptr.h, uid.h), nodes (node.h), the reduction rule  *)
(* of a kind of diagram (bdd_policy.h, zdd_policy.h).                      *)
(*                                                                         *)
(* A pointer keeps the bit layout of the code, so that comparing integers  *)
(* is comparing raw values: level, identifier, out-index and flag, with    *)
(* the terminals above all nodes and nil above the terminals.              *)
(*                                                                         *)
(* The second half is the mathematics the code is held to: the function a  *)
(* diagram denotes, the one canonical diagram of a function, and the arcs  *)
(* that cross a cut.                                                       *)
(***************************************************************************)
EXTENDS Integers, FiniteSets, Sequences

CONSTANTS
    Levels,         \* The number of levels (variables)
    MaxId           \* The largest identifier on a level

ASSUME DiagramAssumption == Levels \in Nat \ {0} /\ MaxId \in Nat

VARIABLE
    zdd             \* Whether the diagrams are ZDDs rather than BDDs: the
                    \* template parameter Policy, the same in all of a behaviour

Level == 0 .. Levels - 1

----------------------------------------------------------------------------
(* Pointers. *)

OutBit == 2
FlagBit == 1
Uid(l, i) == 4 * (l * (MaxId + 1) + i)
Terminal(v) == Uid(Levels, 0) + (IF v THEN 2 ELSE 0)
Nil == Uid(Levels + 1, 0)

IsNode(p) == p < Terminal(FALSE)
IsTerminal(p) == Terminal(FALSE) <= p /\ p < Nil
LevelOf(p) == p \div Uid(1, 0)
IdOf(p) == (p % Uid(1, 0)) \div 4
IsFlagged(p) == p % 2 = 1
OutIdx(p) == (p \div 2) % 2
Flag(p) == p + 1 - (p % 2)
Unflag(p) == p - (p % 2)
Essential(p) == IF IsNode(p) THEN p - (p % 4) ELSE Unflag(p)
Value(p) == Unflag(p) = Terminal(TRUE)
IsFalse(p) == IsTerminal(p) /\ ~Value(p)
IsTrue(p) == IsTerminal(p) /\ Value(p)

Node(u, low, high) == [uid |-> u, low |-> low, high |-> high]
TerminalNode(v) == Node(Terminal(v), Nil, Nil)

----------------------------------------------------------------------------
(* What the two policies make of a redundant node.                         *)
OtherKindsRule(n) ==                                        \* (mutant)
    IF IF zdd THEN Essential(n.low) = Essential(n.high) ELSE IsFalse(n.high)
    THEN n.low ELSE n.uid
ReductionRule(n) ==
    IF IF zdd THEN IsFalse(n.high)
                         ELSE Essential(n.low) = Essential(n.high)
    THEN n.low ELSE n.uid

----------------------------------------------------------------------------
(* Reference: the set of assignments a pointer into nodes denotes.  An     *)
(* assignment is the set of the levels that are true.                      *)
Targets(n) == {n.low, n.high}
NodeAt(nodes, p) == CHOOSE n \in nodes : n.uid = Essential(p)

(* The function of a node on level l, given those of its children.         *)
Choice(kind, l, low, high) ==
    IF kind THEN low \cup {x \cup {l} : x \in high}
            ELSE {x \in low : l \notin x} \cup {x \in high : l \in x}

(* A pointer to no node of the diagram denotes nothing.                    *)
DenotesOf(kind, nodes, ptr) ==
    LET D[p \in 0 .. Nil] ==
            IF IsTerminal(p)
            THEN IF ~Value(p) THEN {} ELSE IF kind THEN {{}} ELSE SUBSET Level
            ELSE UNION {Choice(kind, LevelOf(p), D[n.low], D[n.high]) :
                           n \in {m \in nodes : m.uid = Essential(p)}}
    IN  D[ptr]

Denotes(nodes, ptr) == DenotesOf(zdd, nodes, ptr)

(* The function f itself; TLC computes its values only once.               *)
Eager(f) == CHOOSE g \in {f} : g = g

(* Reference: the canonical nodes of a function.  At each level, one node  *)
(* for every cofactor that is not redundant there; identifiers go down     *)
(* from MaxId in the order of the high and then the low child, largest     *)
(* first.                                                                  *)
Cofactors(f, l) ==
    {{x \in SUBSET (l .. Levels - 1) : (a \cup x) \in f} : a \in SUBSET (0 .. l - 1)}
High(g, l) == {x \in SUBSET (l + 1 .. Levels - 1) : (x \cup {l}) \in g}
Low(g, l) == {x \in SUBSET (l + 1 .. Levels - 1) : x \in g}
Redundant(kind, g, l) == IF kind THEN High(g, l) = {} ELSE High(g, l) = Low(g, l)

Irredundant(kind, C, l) == {g \in C : ~Redundant(kind, g, l)}

(* The pointers to the cofactors C of level l, given those of level l + 1. *)
Numbered(kind, C, l, below) ==
    LET kept == Irredundant(kind, C, l)
        hi == Eager([g \in C |-> below[High(g, l)]])
        lo == Eager([g \in C |-> below[Low(g, l)]])
        before(g) == {h \in kept : hi[h] > hi[g] \/ (hi[h] = hi[g] /\ lo[h] > lo[g])}
    IN  [g \in C |-> IF g \in kept THEN Uid(l, MaxId - Cardinality(before(g))) ELSE lo[g]]

CanonicalNodesOf(kind, f) ==
    LET cofactors == Eager([l \in 0 .. Levels |-> Cofactors(f, l)])
        Ptr[l \in 0 .. Levels] ==
            IF l = Levels THEN [g \in cofactors[l] |-> Terminal(g # {})]
                          ELSE Numbered(kind, cofactors[l], l, Eager(Ptr[l + 1]))
        ptr == Eager([l \in 0 .. Levels |-> Ptr[l]])
        inner == UNION {{Node(ptr[l][g], ptr[l + 1][Low(g, l)], ptr[l + 1][High(g, l)]) :
                            g \in Irredundant(kind, cofactors[l], l)} : l \in Level}
    IN  IF inner = {} THEN {TerminalNode(f # {})} ELSE inner

CanonicalNodes(f) == CanonicalNodesOf(zdd, f)

----------------------------------------------------------------------------
(* Reference: the arcs across a cut, given the nodes on its upper side.    *)
(* The root has an in-going arc; arcs to a terminal count when the kind of *)
(* cut includes that terminal.                                             *)
CutKinds == {"Internal", "Internal_False", "Internal_True", "All"}
Includes(kind, v) == kind = "All" \/ kind = IF v THEN "Internal_True" ELSE "Internal_False"

Counted(p, upper, kind) ==
    IF IsNode(p) THEN \A n \in upper : n.uid # p ELSE Includes(kind, Value(p))

CutSize(nodes, upper, kind) ==
    IF upper = {} THEN 1
    ELSE Cardinality({a \in upper \X {"low", "high"} : Counted(a[1][a[2]], upper, kind)})

Above(nodes, l) == {n \in nodes : LevelOf(n.uid) < l}
OnLevel(nodes, l) == {n \in nodes : LevelOf(n.uid) = l}

MaxOf(S) == CHOOSE x \in S : \A y \in S : y <= x

(* Between two levels; and through the nodes of one level.                 *)
OneLevelCut(nodes, kind) ==
    MaxOf({CutSize(nodes, Above(nodes, l), kind) : l \in 0 .. Levels})
TwoLevelCut(nodes, kind) ==
    MaxOf(UNION {{CutSize(nodes, Above(nodes, l) \cup S, kind) :
                     S \in SUBSET OnLevel(nodes, l)} : l \in 0 .. Levels})

Roots(nodes) == {n \in nodes : \A m \in nodes : n.uid \notin Targets(m)}
=============================================================================
