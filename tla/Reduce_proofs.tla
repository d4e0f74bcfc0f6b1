--------------------------- MODULE Reduce_proofs ---------------------------
(***************************************************************************)
(* Theorems about Reduce, for every number of levels and of identifiers    *)
(* and every set of jobs: both arcs of a node are pulled one after the     *)
(* other, the mappings are forwarded in step with the arcs, the queue is   *)
(* used as LevelizedQueue allows, it never holds more than the 1-level cut *)
(* of the input, and the output is the canonical diagram of the function   *)
(* of the input, its variables renamed.                                    *)
(***************************************************************************)
EXTENDS Reduce, Denotation_proofs, FunctionTheorems

-----------------------------------------------------------------------------
(* The inductive invariant: where the arcs of the input are                *)

Sources(S) == {a.source : a \in S}
Uids == {n.uid : n \in input}
UidsHere == {u \in Uids : LevelOf(u) = label}
InputLevels == {LevelOf(u) : u \in Uids}

(* The nodes of this level that were put together.                         *)
Got == {n.uid : n \in grouping} \cup {m.old : m \in red1 \cup red2}

(* The arcs from this level that were not pulled yet, and those from the   *)
(* levels still to come.                                                   *)
IsPending(s) ==
    \/ LevelOf(s) \in levels
    \/ phase = "pull" /\ LevelOf(s) = label /\ Essential(s) \notin Got /\ s # eHigh.source

(* Nodes to which no arc was forwarded, and those to which some may be     *)
(* left to forward.                                                        *)
IsAhead(u) == LevelOf(u) \in levels \/ (phase \in {"pull", "output"} /\ LevelOf(u) = label)
IsUnforwarded(u) == IsAhead(u) \/ (phase = "forward" /\ \E m \in red1 \cup red2 : m.old = u)

LevelsAreLeft ==
    /\ phase \in {"begin", "pull", "output", "forward", "close", "done"}
    /\ levels \subseteq InputLevels
    /\ phase \in {"pull", "output", "forward"} \/ (phase = "begin" /\ label # NoLabel) =>
           label \in InputLevels /\ \A l \in InputLevels : l \in levels <=> l < label
    /\ phase = "begin" =>
           /\ levels # {}
           /\ label = NoLabel => levels = InputLevels /\ pq = {} /\ pqLevel = NoLabel

TerminalsAreUnread ==
    terminal = {a \in ArcsOf(input) : IsTerminal(a.target) /\ IsPending(a.source)}

InternalsAreUnread ==
    /\ \A a \in internal : a \in ArcsOf(input) /\ IsNode(a.target) /\ IsUnforwarded(a.target)
    /\ \A a \in ArcsOf(input) : IsNode(a.target) /\ IsAhead(a.target) => a \in internal

(* The queue has just those arcs that were forwarded and are to be pulled. *)
QueueHasTheRest ==
    /\ \A a, c \in pq : a.source = c.source => a = c
    /\ \A a \in pq : \E c \in ArcsOf(input) :
           c.source = a.source /\ IsNode(c.target) /\ IsPending(c.source)
    /\ \A a \in ArcsOf(input) : IsNode(a.target) /\ IsPending(a.source) =>
           (a \in internal <=> a.source \notin Sources(pq))

QueueIsAtTheLevel ==
    /\ pqLevel \in Level \cup {NoLabel}
    /\ phase = "begin" /\ label # NoLabel => pqLevel = MaxOf(levels)
    /\ phase \in {"pull", "output", "forward"} => pqLevel \in {label, NoLabel}
    /\ phase = "pull" /\ pqLevel = NoLabel => pq = {}

(* A node is put together from its high and then its low arc, the largest  *)
(* one first.                                                              *)
HighComesFirst ==
    phase = "pull" /\ eHigh # NoArc =>
        \E u \in UidsHere : /\ u \notin Got /\ eHigh.source = u + OutBit
                            /\ \A v \in UidsHere : v \in Got \/ v <= u

AllWerePulled ==
    /\ phase \in {"pull", "output", "forward"} => Got \subseteq UidsHere
    /\ phase = "output" => UidsHere \subseteq Got

NothingIsLeft ==
    phase \in {"close", "done"} => levels = {} /\ internal = {} /\ terminal = {} /\ pq = {}

ReduceInv ==
    /\ IsDiagram(input)
    /\ LevelsAreLeft
    /\ TerminalsAreUnread
    /\ InternalsAreUnread
    /\ QueueHasTheRest
    /\ QueueIsAtTheLevel
    /\ HighComesFirst
    /\ AllWerePulled
    /\ NothingIsLeft

-----------------------------------------------------------------------------
(* The arcs of the input                                                   *)

(* The arcs of a node have its uid, with or without the out-index.         *)
LEMMA SourcesOfUids ==
    ASSUME NEW l \in Level, NEW i \in 0 .. MaxId, NEW u, u = Uid(l, i), NEW x \in {0, OutBit}
    PROVE  /\ u \in Nat /\ u % 4 = 0 /\ u + x \in Nat
           /\ LevelOf(u + x) = l /\ Essential(u + x) = u /\ IsNode(u + x)
<1> DEFINE k == 4 * (MaxId + 1)
<1>1. /\ k \in Nat /\ MaxId \in Nat /\ Levels \in Nat /\ l \in Nat /\ l < Levels
      /\ 4 * i + x \in 0 .. k - 1 /\ 0 \in 0 .. MaxId
  BY DiagramAssumption DEF Level, OutBit
<1>2. u \in Nat /\ u % 4 = 0
  BY <1>1, UidIs
<1>3. u + x = l * k + (4 * i + x)
  <2>1. PICK q \in Nat : q = l * (MaxId + 1)
    BY <1>1
  <2>2. l * k = 4 * q
    BY <1>1, <2>1
  <2> QED BY <1>1, <2>1, <2>2 DEF Uid, OutBit
<1>4. Uid(1, 0) = k
  BY <1>1 DEF Uid
<1>5. LevelOf(u + x) = l
  <2>1. (l * k + (4 * i + x)) \div k = l
    BY <1>1, DivMod
  <2> QED BY <1>3, <1>4, <2>1 DEF LevelOf
<1>6. PICK t \in Nat : t = Uid(Levels, 0) /\ t % 4 = 0 /\ u < t
  <2>1. Uid(Levels, 0) \in Nat /\ Uid(Levels, 0) % 4 = 0
    BY <1>1, UidIs
  <2>2. Uid(l, i) < Uid(Levels, 0)
    BY <1>1, UidsAreOrdered
  <2> QED BY <2>1, <2>2
<1>7. u + x < t
  BY <1>2, <1>6 DEF OutBit
<1>8. IsNode(u + x)
  BY <1>6, <1>7 DEF IsNode, Terminal
<1>9. (u + x) % 4 = x /\ u + x \in Nat
  BY <1>2 DEF OutBit
<1>10. Essential(u + x) = u
  BY <1>2, <1>8, <1>9 DEF Essential, OutBit
<1> QED BY <1>2, <1>5, <1>8, <1>9, <1>10

(* What the proofs use of the input: its uids are ordered by their levels, *)
(* each has a low and a high arc, and arcs lead to terminals or to nodes   *)
(* on later levels.                                                        *)
UidsAreProper ==
    /\ IsFiniteSet(input)
    /\ \A u \in Uids :
        /\ u \in Nat /\ LevelOf(u) \in Level
        /\ \A x \in {0, OutBit} :
            /\ LevelOf(u + x) = LevelOf(u) /\ Essential(u + x) = u /\ IsNode(u + x)
            /\ \E a \in ArcsOf(input) : a.source = u + x
    /\ \A u, v \in Uids : LevelOf(u) < LevelOf(v) => u < v
    /\ \A u, v \in Uids : u < v => u + 4 <= v

ArcIsProper(a) ==
    /\ \E u \in Uids, x \in {0, OutBit} : a.source = u + x
    /\ \/ IsTerminal(a.target) /\ ~IsNode(a.target)
       \/ /\ IsNode(a.target) /\ ~IsTerminal(a.target)
          /\ a.target \in Uids /\ LevelOf(a.source) < LevelOf(a.target)

Proper ==
    /\ UidsAreProper
    /\ \A a \in ArcsOf(input) : ArcIsProper(a)
    /\ \A a, c \in ArcsOf(input) : a.source = c.source => a = c

LEMMA NodesAreProper ==
    ASSUME IsDiagram(input), NEW n \in input
    PROVE  /\ n.uid = Uid(LevelOf(n.uid), IdOf(n.uid))
           /\ LevelOf(n.uid) \in Level /\ IdOf(n.uid) \in 0 .. MaxId
           /\ \A p \in {n.low, n.high} :
                \/ \E v \in BOOLEAN : p = Terminal(v)
                \/ LevelOf(n.uid) < LevelOf(p) /\ p \in Uids
BY DEF IsDiagram, Targets, Uids

LEMMA ArcsAre ==
    \A a : a \in ArcsOf(input) <=>
        \E n \in input : a = Arc(n.uid, n.low) \/ a = Arc(n.uid + OutBit, n.high)
BY DEF ArcsOf

LEMMA UidsOfDiagram ==
    ASSUME IsDiagram(input)
    PROVE  UidsAreProper
<1>1. ASSUME NEW u \in Uids
      PROVE  \E i \in 0 .. MaxId : u = Uid(LevelOf(u), i) /\ LevelOf(u) \in Level
  BY NodesAreProper DEF Uids
<1>2. ASSUME NEW u \in Uids, NEW x \in {0, OutBit}
      PROVE  /\ u \in Nat /\ u % 4 = 0 /\ LevelOf(u) \in Level
             /\ LevelOf(u + x) = LevelOf(u) /\ Essential(u + x) = u /\ IsNode(u + x)
             /\ \E a \in ArcsOf(input) : a.source = u + x
  <2>1. PICK i \in 0 .. MaxId : u = Uid(LevelOf(u), i) /\ LevelOf(u) \in Level
    BY <1>1
  <2>2. PICK l \in Level : l = LevelOf(u)
    BY <2>1
  <2>3. u \in Nat /\ u % 4 = 0 /\ LevelOf(u + x) = l /\ Essential(u + x) = u /\ IsNode(u + x)
    BY <2>1, <2>2, SourcesOfUids, ZenonT(40)
  <2>4. PICK n \in input : n.uid = u
    BY DEF Uids
  <2>5. \E a \in ArcsOf(input) : a.source = u + x
    <3>1. Arc(n.uid, n.low) \in ArcsOf(input) /\ Arc(n.uid + OutBit, n.high) \in ArcsOf(input)
      BY ArcsAre
    <3>2. Arc(n.uid, n.low).source = u /\ Arc(n.uid + OutBit, n.high).source = u + OutBit
      BY <2>4 DEF Arc
    <3>3. x = 0 \/ x = OutBit
      OBVIOUS
    <3>4. u + 0 = u
      BY <2>3
    <3> QED BY <3>1, <3>2, <3>3, <3>4, Zenon
  <2> QED BY <2>2, <2>3, <2>5
<1>3. ASSUME NEW u \in Uids, NEW v \in Uids, LevelOf(u) < LevelOf(v)
      PROVE  u < v
  <2>1. PICK i \in 0 .. MaxId, l \in Level : u = Uid(l, i) /\ l = LevelOf(u)
    BY <1>1
  <2>2. PICK j \in 0 .. MaxId, m \in Level : v = Uid(m, j) /\ m = LevelOf(v)
    BY <1>1
  <2>3. l \in Nat /\ m \in Nat
    BY DEF Level
  <2> QED BY <1>3, <2>1, <2>2, <2>3, UidsAreOrdered
<1>4. \A u \in Uids : u \in Nat /\ u % 4 = 0
  BY <1>2
<1>5. ASSUME NEW u \in Uids, NEW v \in Uids, u < v
      PROVE  u + 4 <= v
  BY <1>4, <1>5
<1> QED BY <1>2, <1>3, <1>5 DEF UidsAreProper, IsDiagram

LEMMA ArcsOfDiagram ==
    ASSUME IsDiagram(input), NEW a \in ArcsOf(input)
    PROVE  ArcIsProper(a)
<1>1. PICK n, x, p :
          n \in input /\ x \in {0, OutBit} /\ p \in {n.low, n.high}
          /\ a.source = n.uid + x /\ a.target = p
  <2>1. PICK n \in input : a = Arc(n.uid, n.low) \/ a = Arc(n.uid + OutBit, n.high)
    BY ArcsAre
  <2>2. n.uid \in Nat
    BY UidsOfDiagram DEF UidsAreProper, Uids
  <2>3. n.uid + 0 = n.uid
    BY <2>2
  <2> QED BY <2>1, <2>3 DEF Arc
<1>2. n.uid \in Uids
  BY <1>1 DEF Uids
<1>3. LevelOf(a.source) = LevelOf(n.uid)
  BY <1>1, <1>2, UidsOfDiagram DEF UidsAreProper
<1>4. \/ \E v \in BOOLEAN : p = Terminal(v)
      \/ LevelOf(n.uid) < LevelOf(p) /\ p \in Uids
  BY <1>1, NodesAreProper
<1>5. CASE \E v \in BOOLEAN : p = Terminal(v)
  BY <1>1, <1>2, <1>5, PointersAre DEF ArcIsProper
<1>6. CASE LevelOf(n.uid) < LevelOf(p) /\ p \in Uids
  <2>1. p \in Nat /\ IsNode(p)
    <3>1. p \in Nat /\ IsNode(p + 0)
      BY <1>6, UidsOfDiagram DEF UidsAreProper
    <3>2. p + 0 = p
      BY <3>1
    <3> QED BY <3>1, <3>2, Zenon
  <2>2. ~IsTerminal(p)
    <3>1. PICK t \in Nat : t = Terminal(FALSE)
      BY PointersAre
    <3>2. (IsNode(p) => p < t) /\ (IsTerminal(p) => t <= p)
      BY <3>1, Zenon DEF IsNode, IsTerminal
    <3>3. ~(p < t /\ t <= p)
      BY <2>1
    <3> QED BY <2>1, <3>2, <3>3, Zenon
  <2> QED BY <1>1, <1>2, <1>3, <1>6, <2>1, <2>2 DEF ArcIsProper
<1> QED BY <1>4, <1>5, <1>6

LEMMA DiagramsAreProper ==
    ASSUME IsDiagram(input)
    PROVE  Proper
<1>1. ASSUME NEW a \in ArcsOf(input), NEW c \in ArcsOf(input), a.source = c.source
      PROVE  a = c
  <2>1. PICK n \in input : a = Arc(n.uid, n.low) \/ a = Arc(n.uid + OutBit, n.high)
    BY ArcsAre
  <2>2. PICK m \in input : c = Arc(m.uid, m.low) \/ c = Arc(m.uid + OutBit, m.high)
    BY ArcsAre
  <2>3. n.uid \in Uids /\ m.uid \in Uids
    BY DEF Uids
  <2>4. n.uid \in Nat /\ m.uid \in Nat /\ ~(n.uid < m.uid /\ n.uid + 4 > m.uid)
        /\ ~(m.uid < n.uid /\ m.uid + 4 > n.uid)
    BY <2>3, UidsOfDiagram DEF UidsAreProper
  <2>6. n.uid = m.uid
    BY <1>1, <2>1, <2>2, <2>4 DEF Arc, OutBit
  <2>7. n = m
    BY <2>6 DEF IsDiagram
  <2>8. CASE a = Arc(n.uid, n.low) /\ c = Arc(m.uid, m.low)
    BY <2>7, <2>8
  <2>9. CASE a = Arc(n.uid + OutBit, n.high) /\ c = Arc(m.uid + OutBit, m.high)
    BY <2>7, <2>9
  <2>10. CASE a = Arc(n.uid + OutBit, n.high) /\ c = Arc(m.uid, m.low)
    BY <1>1, <2>4, <2>7, <2>10 DEF Arc, OutBit
  <2>11. CASE a = Arc(n.uid, n.low) /\ c = Arc(m.uid + OutBit, m.high)
    BY <1>1, <2>4, <2>7, <2>11 DEF Arc, OutBit
  <2> QED BY <2>1, <2>2, <2>8, <2>9, <2>10, <2>11
<1> QED BY <1>1, UidsOfDiagram, ArcsOfDiagram DEF Proper

-----------------------------------------------------------------------------
(* What is read next                                                       *)

LEMMA LeastNumber ==
    ASSUME NEW T \in SUBSET Nat, T # {}
    PROVE  \E m \in T : \A k \in T : m <= k
<1> DEFINE R == OpToRel(<, Nat)
<1>1. \E m \in T : \A k \in T : <<k, m>> \notin R
  <2>1. IsWellFoundedOn(R, Nat)
    BY NatLessThanWellFounded
  <2> HIDE DEF R
  <2> QED BY <2>1, WFMin, Zenon
<1>2. \A k, m \in Nat : <<k, m>> \notin R => m <= k
  BY DEF OpToRel
<1> HIDE DEF R
<1> QED BY <1>1, <1>2

LEMMA LargestNumber ==
    ASSUME NEW b \in Nat, NEW T \in SUBSET (0 .. b), T # {}
    PROVE  \E m \in T : \A k \in T : k <= m
<1>1. PICK S : S = {b - k : k \in T}
  OBVIOUS
<1>2. S \in SUBSET Nat /\ S # {}
  <2>1. PICK k : k \in T
    OBVIOUS
  <2> QED BY <1>1, <2>1
<1>3. PICK m \in S : \A k \in S : m <= k
  BY <1>2, LeastNumber
<1>4. PICK n \in T : m = b - n
  BY <1>1
<1>5. \A k \in T : b - n <= b - k
  BY <1>1, <1>3, <1>4
<1> QED BY <1>5

LEMMA UidsAreBounded ==
    ASSUME Proper
    PROVE  \E b \in Nat : \A u \in Uids, x \in {0, OutBit} : u \in 0 .. b /\ u + x \in 0 .. b
<1>1. PICK t \in Nat : t = Terminal(FALSE)
  BY PointersAre
<1>2. \A p : IsNode(p) => p < t
  BY <1>1, Zenon DEF IsNode
<1>3. ASSUME NEW u \in Uids, NEW x \in {0, OutBit}
      PROVE  u \in 0 .. t + 4 /\ u + x \in 0 .. t + 4
  <2>1. u \in Nat /\ u + x < t
    BY <1>2 DEF Proper, UidsAreProper
  <2> QED BY <2>1 DEF OutBit
<1> QED BY <1>3

LEMMA LargestSourceIs ==
    ASSUME Proper, NEW S, S # {}, \A a \in S : \E u \in Uids, x \in {0, OutBit} : a.source = u + x
    PROVE  LargestSource(S) \in S /\ \A c \in S : c.source <= LargestSource(S).source
<1>1. PICK b \in Nat : \A u \in Uids, x \in {0, OutBit} : u + x \in 0 .. b
  BY UidsAreBounded
<1>2. PICK T : T = {a.source : a \in S}
  OBVIOUS
<1>3. T \in SUBSET (0 .. b) /\ T # {}
  BY <1>1, <1>2
<1>4. PICK m \in T : \A k \in T : k <= m
  BY <1>3, LargestNumber
<1>5. \E a \in S : \A c \in S : c.source <= a.source
  BY <1>2, <1>4
<1> QED BY <1>5, Zenon DEF LargestSource

LEMMA LargestUid ==
    ASSUME Proper, NEW T \in SUBSET Uids, T # {}
    PROVE  \E m \in T : \A k \in T : k <= m
<1>1. PICK b \in Nat : \A u \in Uids, x \in {0, OutBit} : u \in 0 .. b
  BY UidsAreBounded
<1>2. T \in SUBSET (0 .. b)
  BY <1>1
<1> QED BY <1>2, LargestNumber

LEMMA PeekInternalIs ==
    ASSUME Proper, internal # {}, \A a \in internal : a \in ArcsOf(input) /\ IsNode(a.target)
    PROVE  /\ PeekInternal \in internal
           /\ \A c \in internal : c.target <= PeekInternal.target
<1>1. PICK T : T = {a.target : a \in internal}
  OBVIOUS
<1>2. T \in SUBSET Uids /\ T # {}
  BY <1>1 DEF Proper, ArcIsProper
<1>3. PICK m \in T : \A k \in T : k <= m
  BY <1>2, LargestUid
<1>4. PICK S : S = {a \in internal : \A c \in internal : c.target <= a.target}
  OBVIOUS
<1>5. S # {}
  BY <1>1, <1>3, <1>4
<1>6. LargestSource(S) \in S
  <2>1. \A a \in S : \E u \in Uids, x \in {0, OutBit} : a.source = u + x
    BY <1>4 DEF Proper, ArcIsProper
  <2> QED BY <1>5, <2>1, LargestSourceIs
<1>7. PeekInternal = LargestSource(S)
  BY <1>4 DEF PeekInternal
<1> QED BY <1>4, <1>6, <1>7

LEMMA MappedIs ==
    ASSUME Proper, red1 \cup red2 # {}, \A m \in red1 \cup red2 : m.old \in Uids
    PROVE  Mapped \in red1 \cup red2 /\ \A m \in red1 \cup red2 : m.old <= Mapped.old
<1>1. PICK T : T = {m.old : m \in red1 \cup red2}
  OBVIOUS
<1>2. PICK m \in T : \A k \in T : k <= m
  <2>1. T \in SUBSET Uids /\ T # {}
    BY <1>1
  <2> QED BY <2>1, LargestUid
<1>3. \E n \in red1 \cup red2 : \A o \in red1 \cup red2 : o.old <= n.old
  BY <1>1, <1>2
<1> QED BY <1>3, Zenon DEF Mapped

LEMMA LastLevelIs ==
    ASSUME NEW S \in SUBSET Level, S # {}
    PROVE  MaxOf(S) \in S /\ \A l \in S : l <= MaxOf(S)
<1>1. Levels \in Nat /\ S \in SUBSET (0 .. Levels)
  BY DiagramAssumption DEF Level
<1>2. PICK m \in S : \A k \in S : k <= m
  BY <1>1, LargestNumber
<1> QED BY <1>2, Zenon DEF MaxOf

-----------------------------------------------------------------------------
(* Pulling the arcs of a level                                             *)

LEMMA SourcesAreOrdered ==
    ASSUME Proper, NEW a \in ArcsOf(input), NEW c \in ArcsOf(input)
    PROVE  /\ a.source \in Nat /\ c.source \in Nat
           /\ LevelOf(a.source) \in InputLevels /\ LevelOf(a.source) \in Level
           /\ LevelOf(a.source) < LevelOf(c.source) => a.source < c.source
<1>1. PICK u \in Uids, x \in {0, OutBit} : a.source = u + x
  BY DEF Proper, ArcIsProper
<1>2. PICK v \in Uids, y \in {0, OutBit} : c.source = v + y
  BY DEF Proper, ArcIsProper
<1>3. u \in Nat /\ v \in Nat /\ x \in {0, 2} /\ y \in {0, 2}
  BY DEF Proper, UidsAreProper, OutBit
<1>4. LevelOf(a.source) = LevelOf(u) /\ LevelOf(c.source) = LevelOf(v) /\ LevelOf(u) \in Level
  BY <1>1, <1>2 DEF Proper, UidsAreProper
<1>5. LevelOf(u) < LevelOf(v) => u + 4 <= v
  BY DEF Proper, UidsAreProper
<1>6. LevelOf(u) \in InputLevels
  BY DEF InputLevels
<1> QED BY <1>1, <1>2, <1>3, <1>4, <1>5, <1>6

LEMMA LevelsAreNumbers ==
    ASSUME Proper, LevelsAreLeft
    PROVE  /\ InputLevels \subseteq Level /\ levels \subseteq Level /\ Level \subseteq Nat
           /\ phase \in {"pull", "output", "forward"} =>
                 label \in Level /\ label \notin levels /\ \A l \in levels : l < label
<1>1. InputLevels \subseteq Level /\ Level \subseteq Nat
  BY DiagramAssumption DEF Proper, UidsAreProper, InputLevels, Level
<1>2. levels \subseteq InputLevels
  BY DEF LevelsAreLeft
<1>3. ASSUME phase \in {"pull", "output", "forward"}
      PROVE  label \in InputLevels /\ \A l \in InputLevels : l \in levels <=> l < label
  BY <1>3, Zenon DEF LevelsAreLeft
<1>4. ASSUME phase \in {"pull", "output", "forward"}
      PROVE  label \in Level /\ label \notin levels /\ \A l \in levels : l < label
  <2>1. label \in Nat
    BY <1>1, <1>3, <1>4
  <2> QED BY <1>1, <1>2, <1>3, <1>4, <2>1
<1> QED BY <1>1, <1>2, <1>4

IsHere(s) == IsPending(s) /\ LevelOf(s) = label

(* An arc from this level that was not pulled is in the file of arcs to    *)
(* terminals or in the queue: an arc to a node was forwarded.              *)
LEMMA PendingIsAtHand ==
    ASSUME ReduceInv, phase = "pull", NEW a \in ArcsOf(input), IsHere(a.source)
    PROVE  a \in terminal \/ \E c \in AtLevel : c.source = a.source
<1>0. Proper
  BY DiagramsAreProper DEF ReduceInv
<1>1. CASE IsTerminal(a.target)
  BY <1>1 DEF ReduceInv, TerminalsAreUnread, IsHere
<1>2. CASE IsNode(a.target) /\ LevelOf(a.source) < LevelOf(a.target) /\ a.target \in Uids
  <2>1. /\ LevelOf(a.target) \in Level /\ label \in Level /\ Level \subseteq Nat
        /\ \A l \in levels : l < label
    BY <1>0, <1>2, LevelsAreNumbers DEF ReduceInv, Proper, UidsAreProper
  <2>2. LevelOf(a.target) \notin levels /\ LevelOf(a.target) # label
    <3>1. PICK l \in Nat : l = LevelOf(a.target) /\ label < l /\ label \in Nat
      BY <1>2, <2>1 DEF IsHere
    <3>2. \A m \in levels : m < label
      BY <2>1
    <3> QED BY <3>1, <3>2
  <2>3. a \notin internal
    BY <2>2 DEF ReduceInv, InternalsAreUnread, IsUnforwarded, IsAhead
  <2>4. PICK c \in pq : c.source = a.source
    BY <1>2, <2>3 DEF ReduceInv, QueueHasTheRest, Sources, IsHere
  <2>5. pqLevel = label
    BY <2>4 DEF ReduceInv, QueueIsAtTheLevel
  <2> QED BY <2>4, <2>5 DEF AtLevel, IsHere
<1> QED BY <1>0, <1>1, <1>2 DEF Proper, ArcIsProper

(* And what is there was not pulled.                                       *)
LEMMA AtHandIsPending ==
    ASSUME ReduceInv
    PROVE  /\ \A a \in terminal : a \in ArcsOf(input) /\ IsPending(a.source)
           /\ \A a \in pq : \E c \in ArcsOf(input) : c.source = a.source /\ IsPending(c.source)
           /\ \A a \in terminal \cup pq : \E u \in Uids, x \in {0, OutBit} : a.source = u + x
           /\ phase = "pull" => \A a \in AtLevel : IsHere(a.source)
<1>1. \A a \in terminal : a \in ArcsOf(input) /\ IsPending(a.source)
  BY DEF ReduceInv, TerminalsAreUnread
<1>2. \A a \in pq : \E c \in ArcsOf(input) : c.source = a.source /\ IsPending(c.source)
  BY DEF ReduceInv, QueueHasTheRest
<1>3. \A a \in ArcsOf(input) : \E u \in Uids, x \in {0, OutBit} : a.source = u + x
  BY DiagramsAreProper DEF ReduceInv, Proper, ArcIsProper
<1>4. ASSUME phase = "pull", NEW a \in AtLevel
      PROVE  IsHere(a.source)
  <2>1. a \in pq /\ LevelOf(a.source) = pqLevel
    BY DEF AtLevel
  <2>2. pqLevel = label
    BY <1>4, <2>1 DEF ReduceInv, QueueIsAtTheLevel
  <2>3. IsPending(a.source)
    BY <1>2, <2>1
  <2> QED BY <2>1, <2>2, <2>3 DEF IsHere
<1> QED BY <1>1, <1>2, <1>3, <1>4

(* The arc pulled next is the one with the largest source that is left.    *)
LEMMA NextIsLargest ==
    ASSUME ReduceInv, phase = "pull", NEW b \in ArcsOf(input), IsHere(b.source)
    PROVE  /\ MorePulls /\ (CanPull \/ terminal # {})
           /\ \E c \in ArcsOf(input) : c.source = NextArc.source /\ IsHere(c.source)
           /\ \A a \in ArcsOf(input) : IsHere(a.source) => a.source <= NextArc.source
           /\ TakesTerminal => NextArc \in terminal /\ NextArc = PeekTerminal
           /\ ~TakesTerminal => NextArc \in pq /\ NextArc = QueueTop
<1>0. Proper
  BY DiagramsAreProper DEF ReduceInv
<1>1. terminal # {} => PeekTerminal \in terminal /\ \A a \in terminal : a.source <= PeekTerminal.source
  BY <1>0, AtHandIsPending, LargestSourceIs DEF PeekTerminal
<1>2. CanPull => QueueTop \in AtLevel /\ \A a \in AtLevel : a.source <= QueueTop.source
  <2>1. \A a \in AtLevel : \E u \in Uids, x \in {0, OutBit} : a.source = u + x
    BY AtHandIsPending DEF AtLevel
  <2> QED BY <1>0, <2>1, LargestSourceIs DEF QueueTop, CanPull
<1>3. \A a \in ArcsOf(input) : IsHere(a.source) =>
          a \in terminal \/ \E c \in AtLevel : c.source = a.source
  BY PendingIsAtHand
<1>4. /\ \A a \in terminal : a \in ArcsOf(input) /\ IsPending(a.source)
      /\ \A a \in AtLevel : a \in pq /\ IsHere(a.source) /\
             \E c \in ArcsOf(input) : c.source = a.source
  BY AtHandIsPending DEF AtLevel
<1>5. \A a, c \in ArcsOf(input) :
          /\ a.source \in Nat /\ LevelOf(a.source) \in Nat
          /\ LevelOf(a.source) < LevelOf(c.source) => a.source < c.source
  BY <1>0, SourcesAreOrdered, LevelsAreNumbers DEF ReduceInv
<1>6. CASE TakesTerminal
  <2>1. NextArc = PeekTerminal
    BY <1>6 DEF NextArc
  <2>2. terminal # {}
    BY <1>3, <1>6 DEF TakesTerminal, CanPull
  <2>3. \A a \in ArcsOf(input) : IsHere(a.source) => a.source <= PeekTerminal.source
    <3>1. PeekTerminal.source \in Nat
      BY <1>1, <1>4, <1>5, <2>2
    <3>2. ASSUME NEW a \in ArcsOf(input), NEW c \in AtLevel, c.source = a.source
          PROVE  a.source <= PeekTerminal.source
      <4>1. CanPull
        BY DEF CanPull
      <4>2. PeekTerminal.source > QueueTop.source /\ c.source <= QueueTop.source
        BY <1>2, <1>6, <4>1 DEF TakesTerminal
      <4>3. QueueTop.source \in Nat /\ c.source \in Nat
        BY <1>2, <1>4, <1>5, <4>1
      <4> QED BY <3>1, <3>2, <4>2, <4>3
    <3> QED BY <1>1, <1>3, <2>2, <3>2
  <2>4. IsHere(PeekTerminal.source)
    <3>1. PeekTerminal \in ArcsOf(input) /\ IsPending(PeekTerminal.source)
      BY <1>1, <1>4, <2>2
    <3>2. b.source <= PeekTerminal.source /\ LevelOf(b.source) = label
      BY <2>3 DEF IsHere
    <3>3. ~(LevelOf(PeekTerminal.source) < label)
      BY <1>5, <3>1, <3>2
    <3>4. LevelOf(PeekTerminal.source) \in levels \/ LevelOf(PeekTerminal.source) = label
      BY <3>1 DEF IsPending
    <3>5. \A l \in levels : l < label
      BY <1>0, LevelsAreNumbers DEF ReduceInv
    <3> QED BY <3>1, <3>3, <3>4, <3>5 DEF IsHere
  <2>5. MorePulls
    BY <2>2, <2>4 DEF MorePulls, IsHere
  <2> QED BY <1>1, <1>4, <1>6, <2>1, <2>2, <2>3, <2>4, <2>5
<1>7. CASE ~TakesTerminal
  <2>1. NextArc = QueueTop
    BY <1>7 DEF NextArc
  <2>2. CanPull /\ ~(terminal # {} /\ PeekTerminal.source > QueueTop.source)
    BY <1>7 DEF TakesTerminal
  <2>3. \A a \in ArcsOf(input) : IsHere(a.source) => a.source <= QueueTop.source
    <3>1. QueueTop.source \in Nat
      BY <1>2, <1>4, <1>5, <2>2
    <3>2. ASSUME NEW a \in terminal
          PROVE  a.source <= QueueTop.source
      <4>1. a.source <= PeekTerminal.source /\ a.source \in Nat /\ PeekTerminal.source \in Nat
        BY <1>1, <1>4, <1>5
      <4>2. ~(PeekTerminal.source > QueueTop.source)
        BY <2>2
      <4> QED BY <3>1, <4>1, <4>2
    <3> QED BY <1>2, <1>3, <2>2, <3>2
  <2>4. QueueTop \in pq /\ IsHere(QueueTop.source)
        /\ \E c \in ArcsOf(input) : c.source = QueueTop.source
    BY <1>2, <1>4, <2>2
  <2> QED BY <1>7, <2>1, <2>2, <2>3, <2>4 DEF MorePulls
<1> QED BY <1>6, <1>7

(* And if there is none, the level is done.                                *)
LEMMA NoneIsHere ==
    ASSUME ReduceInv, phase = "pull", MorePulls
    PROVE  \E a \in ArcsOf(input) : IsHere(a.source)
<1>0. Proper
  BY DiagramsAreProper DEF ReduceInv
<1>1. CASE terminal # {} /\ LevelOf(PeekTerminal.source) = label
  <2>1. PeekTerminal \in terminal
    BY <1>0, <1>1, AtHandIsPending, LargestSourceIs DEF PeekTerminal
  <2> QED BY <1>1, <2>1, AtHandIsPending DEF IsHere
<1>2. CASE CanPull
  <2>1. PICK a \in AtLevel : TRUE
    BY <1>2 DEF CanPull
  <2>2. IsHere(a.source)
    BY AtHandIsPending
  <2>3. \E c \in ArcsOf(input) : c.source = a.source
    BY AtHandIsPending DEF AtLevel
  <2> QED BY <2>2, <2>3
<1> QED BY <1>1, <1>2 DEF MorePulls

LEMMA HereIs ==
    ASSUME ReduceInv, phase = "pull", NEW u \in Uids, NEW x \in {0, OutBit}
    PROVE  IsHere(u + x) <=> u \in UidsHere /\ u \notin Got /\ u + x # eHigh.source
<1>0. Proper
  BY DiagramsAreProper DEF ReduceInv
<1>1. PICK s : s = u + x
  OBVIOUS
<1>2. LevelOf(s) = LevelOf(u) /\ Essential(s) = u
  BY <1>0, <1>1 DEF Proper, UidsAreProper
<1>3. LevelOf(s) = label => LevelOf(s) \notin levels
  BY <1>0, LevelsAreNumbers DEF ReduceInv
<1>4. IsHere(s) <=> u \in UidsHere /\ u \notin Got /\ s # eHigh.source
  BY <1>2, <1>3 DEF IsHere, IsPending, UidsHere
<1> QED BY <1>1, <1>4

LEMMA UidsAre ==
    ASSUME Proper, NEW u \in Uids
    PROVE  /\ u \in Nat /\ LevelOf(u) \in Level /\ Essential(u) = u
           /\ u # Nil /\ u + OutBit # Nil
           /\ \E a \in ArcsOf(input) : a.source = u
           /\ \E a \in ArcsOf(input) : a.source = u + OutBit
           /\ \A v \in Uids : u < v => u + 4 <= v
<1>1. u \in Nat /\ IsNode(u + 0) /\ IsNode(u + OutBit) /\ Essential(u + 0) = u
  BY DEF Proper, UidsAreProper
<1>2. u + 0 = u
  BY <1>1
<1>3. u # Nil /\ u + OutBit # Nil
  BY <1>1, <1>2, PointersAre, Zenon
<1>4. Essential(u) = u
  BY <1>1, <1>2, Zenon
<1>5. \E a \in ArcsOf(input) : a.source = u
  BY <1>2 DEF Proper, UidsAreProper
<1> QED BY <1>1, <1>3, <1>4, <1>5 DEF Proper, UidsAreProper

(* Between two nodes, the next arc is the high arc of the largest left.    *)
LEMMA HighIs ==
    ASSUME ReduceInv, phase = "pull", eHigh = NoArc, MorePulls
    PROVE  \E u \in UidsHere : /\ u \notin Got /\ NextArc.source = u + OutBit
                               /\ \A v \in UidsHere : v \in Got \/ v <= u
<1>0. Proper
  BY DiagramsAreProper DEF ReduceInv
<1>1. PICK c \in ArcsOf(input) : c.source = NextArc.source /\ IsHere(c.source)
  BY NoneIsHere, NextIsLargest
<1>2. \A a \in ArcsOf(input) : IsHere(a.source) => a.source <= NextArc.source
  BY NoneIsHere, NextIsLargest
<1>3. PICK u \in Uids, x \in {0, OutBit} : c.source = u + x
  BY <1>0 DEF Proper, ArcIsProper
<1>4. u \in UidsHere /\ u \notin Got
  BY <1>1, <1>3, HereIs
<1>5. eHigh.source = Nil
  BY DEF NoArc
<1>6. ASSUME NEW v \in UidsHere, v \notin Got
      PROVE  v + OutBit <= NextArc.source
  <2>1. v \in Uids
    BY DEF UidsHere
  <2>2. PICK a \in ArcsOf(input) : a.source = v + OutBit
    BY <1>0, <2>1, UidsAre
  <2>3. v + OutBit # eHigh.source
    BY <1>0, <1>5, <2>1, UidsAre
  <2>4. IsHere(v + OutBit)
    BY <1>6, <2>1, <2>3, HereIs
  <2>5. IsHere(a.source)
    BY <2>2, <2>4, Zenon
  <2> QED BY <1>2, <2>2, <2>5
<1>7. u \in Nat /\ x \in {0, 2} /\ OutBit = 2
  BY <1>0 DEF Proper, UidsAreProper, OutBit
<1>8. x = OutBit
  <2>1. u + OutBit <= u + x
    BY <1>1, <1>3, <1>4, <1>6
  <2> QED BY <1>7, <2>1
<1>9. ASSUME NEW v \in UidsHere, v \notin Got
      PROVE  v <= u
  <2>1. v \in Nat
    BY <1>0 DEF Proper, UidsAreProper, UidsHere
  <2>2. v + OutBit <= u + OutBit
    BY <1>1, <1>3, <1>6, <1>8, <1>9
  <2> QED BY <1>7, <2>1, <2>2
<1> QED BY <1>1, <1>3, <1>4, <1>8, <1>9

(* After a high arc, the next one is the low arc of the same node.         *)
LEMMA LowIs ==
    ASSUME ReduceInv, phase = "pull", eHigh # NoArc
    PROVE  \E u \in UidsHere : /\ u \notin Got /\ eHigh.source = u + OutBit
                               /\ NextArc.source = u
                               /\ \E a \in ArcsOf(input) : IsHere(a.source)
<1>0. Proper
  BY DiagramsAreProper DEF ReduceInv
<1>1. PICK u \in UidsHere : /\ u \notin Got /\ eHigh.source = u + OutBit
                            /\ \A v \in UidsHere : v \in Got \/ v <= u
  BY DEF ReduceInv, HighComesFirst
<1>2. u \in Uids /\ u \in Nat /\ OutBit = 2 /\ u + 0 = u
  BY <1>0, UidsAre DEF UidsHere, OutBit
<1>3. PICK b \in ArcsOf(input) : b.source = u
  BY <1>0, <1>2, UidsAre
<1>4. u + 0 # eHigh.source
  BY <1>1, <1>2
<1>5. IsHere(u + 0)
  BY <1>1, <1>2, <1>4, HereIs
<1>6. IsHere(b.source)
  BY <1>2, <1>3, <1>5, Zenon
<1>7. PICK c \in ArcsOf(input) : c.source = NextArc.source /\ IsHere(c.source)
  BY <1>6, NextIsLargest
<1>8. PICK v \in Uids, x \in {0, OutBit} : c.source = v + x
  BY <1>0 DEF Proper, ArcIsProper
<1>9. v \in UidsHere /\ v \notin Got /\ v + x # eHigh.source
  BY <1>7, <1>8, HereIs
<1>10. v <= u /\ v \in Nat /\ x \in {0, 2}
  BY <1>0, <1>1, <1>2, <1>8, <1>9, UidsAre
<1>11. u <= v + x
  BY <1>3, <1>6, <1>7, <1>8, NextIsLargest
<1>12. v < u => v + 4 <= u
  BY <1>0, <1>2, UidsAre
<1>13. v = u /\ x = 0
  BY <1>1, <1>2, <1>9, <1>10, <1>11, <1>12
<1> QED BY <1>1, <1>2, <1>6, <1>7, <1>8, <1>13

-----------------------------------------------------------------------------
(* Every step keeps the invariant                                          *)

LEMMA InputIsKept ==
    ASSUME ReduceInv, input' = input
    PROVE  /\ IsDiagram(input)' /\ Proper
           /\ Uids' = Uids /\ InputLevels' = InputLevels /\ ArcsOf(input)' = ArcsOf(input)
           /\ label' = label => UidsHere' = UidsHere
<1>1. IsDiagram(input)' /\ Proper
  BY DiagramsAreProper DEF ReduceInv
<1>2. Uids' = Uids /\ ArcsOf(input)' = ArcsOf(input)
  BY DEF Uids
<1>3. InputLevels' = InputLevels
  BY <1>2 DEF InputLevels
<1>4. label' = label => UidsHere' = UidsHere
  BY <1>2 DEF UidsHere
<1> QED BY <1>1, <1>2, <1>3, <1>4

LEMMA NodeOrTerminal ==
    ASSUME ReduceInv, NEW a \in ArcsOf(input), NEW c \in ArcsOf(input), a.source = c.source
    PROVE  ~(IsTerminal(a.target) /\ IsNode(c.target))
BY DiagramsAreProper DEF ReduceInv, Proper, ArcIsProper

(* The arc that is pulled leaves its file or the queue, and is pending no  *)
(* more.                                                                   *)
LEMMA PullTakes ==
    ASSUME ReduceInv, phase = "pull", phase' = "pull", TakeNextArc,
           UNCHANGED <<input, levels, internal, pqLevel, label>>,
           NEW b \in ArcsOf(input), IsHere(b.source),
           \A a \in ArcsOf(input) :
               IsPending(a.source)' <=> IsPending(a.source) /\ a.source # NextArc.source
    PROVE  /\ LevelsAreLeft' /\ TerminalsAreUnread' /\ InternalsAreUnread'
           /\ QueueHasTheRest' /\ QueueIsAtTheLevel' /\ NothingIsLeft'
<1> DEFINE A == ArcsOf(input)
<1>0. /\ Proper /\ IsDiagram(input)'
      /\ Uids' = Uids /\ InputLevels' = InputLevels /\ ArcsOf(input)' = A
  BY InputIsKept
<1>1. \A a, c \in A : a.source = c.source => a = c
  BY <1>0 DEF Proper
<1>2. \A a, c \in A : a.source = c.source => ~(IsTerminal(a.target) /\ IsNode(c.target))
  BY NodeOrTerminal
<1>3. /\ TakesTerminal => NextArc \in terminal /\ NextArc = PeekTerminal
      /\ ~TakesTerminal => NextArc \in pq /\ NextArc = QueueTop
  BY NextIsLargest
<1>4. \A a : a \in terminal <=> a \in A /\ IsTerminal(a.target) /\ IsPending(a.source)
  BY DEF ReduceInv, TerminalsAreUnread
<1>5. \A a \in pq : \E c \in A : c.source = a.source /\ IsNode(c.target) /\ IsPending(c.source)
  BY DEF ReduceInv, QueueHasTheRest
<1>6. \A a, c \in pq : a.source = c.source => a = c
  BY DEF ReduceInv, QueueHasTheRest
<1>7. \A a \in A : IsNode(a.target) /\ IsPending(a.source) =>
          (a \in internal <=> ~\E c \in pq : c.source = a.source)
  BY DEF ReduceInv, QueueHasTheRest, Sources
<1>8. /\ TakesTerminal => terminal' = terminal \ {NextArc} /\ pq' = pq
      /\ ~TakesTerminal => pq' = pq \ {NextArc} /\ terminal' = terminal
  BY <1>3 DEF TakeNextArc
<1>9. TerminalsAreUnread'
  <2>1. ASSUME NEW a
        PROVE  a \in terminal' <=> a \in A /\ IsTerminal(a.target) /\ IsPending(a.source)'
    <3>1. CASE TakesTerminal
      BY <1>1, <1>3, <1>4, <1>8, <3>1
    <3>2. CASE ~TakesTerminal
      <4>1. a \in terminal => a.source # NextArc.source
        BY <1>2, <1>3, <1>4, <1>5, <3>2
      <4> QED BY <1>4, <1>8, <3>2, <4>1
    <3> QED BY <3>1, <3>2
  <2> QED BY <1>0, <2>1 DEF TerminalsAreUnread
<1>10. InternalsAreUnread'
  <2>1. \A u : (IsAhead(u)' <=> IsAhead(u)) /\ (IsUnforwarded(u) => IsUnforwarded(u)')
    BY DEF IsAhead, IsUnforwarded
  <2> QED BY <1>0, <2>1 DEF ReduceInv, InternalsAreUnread
<1>11. QueueHasTheRest'
  <2>1. \A a, c \in pq' : a.source = c.source => a = c
    BY <1>6, <1>8
  <2>2. \A a \in pq' : a.source # NextArc.source
    <3>1. CASE TakesTerminal
      BY <1>2, <1>3, <1>4, <1>5, <1>8, <3>1
    <3>2. CASE ~TakesTerminal
      BY <1>3, <1>6, <1>8, <3>2
    <3> QED BY <3>1, <3>2
  <2>3. \A a \in pq' : \E c \in A :
            c.source = a.source /\ IsNode(c.target) /\ IsPending(c.source)'
    BY <1>5, <1>8, <2>2
  <2>4. \A a \in A : a.source # NextArc.source =>
            ((\E c \in pq' : c.source = a.source) <=> \E c \in pq : c.source = a.source)
    BY <1>8
  <2>5. \A a \in A : IsNode(a.target) /\ IsPending(a.source)' =>
            (a \in internal' <=> ~\E c \in pq' : c.source = a.source)
    BY <1>7, <2>4
  <2> QED BY <1>0, <2>1, <2>3, <2>5 DEF QueueHasTheRest, Sources
<1>12. QueueIsAtTheLevel'
  <2>1. pq' \subseteq pq
    BY <1>8
  <2> QED BY <2>1 DEF ReduceInv, QueueIsAtTheLevel
<1>13. LevelsAreLeft'
  BY <1>0 DEF ReduceInv, LevelsAreLeft
<1>14. NothingIsLeft'
  BY DEF NothingIsLeft
<1> QED BY <1>9, <1>10, <1>11, <1>12, <1>13, <1>14

LEMMA PullHighKeeps ==
    ASSUME ReduceInv, PullHigh, input' = input
    PROVE  ReduceInv'
<1> USE DEF PullHigh
<1>0. /\ Proper /\ IsDiagram(input)'
      /\ Uids' = Uids /\ UidsHere' = UidsHere
  BY InputIsKept
<1>1. PICK u \in UidsHere : /\ u \notin Got /\ NextArc.source = u + OutBit
                            /\ \A v \in UidsHere : v \in Got \/ v <= u
  BY HighIs
<1>2. Got' = Got
  BY DEF Got
<1>3. ASSUME NEW a \in ArcsOf(input)
      PROVE  IsPending(a.source)' <=> IsPending(a.source) /\ a.source # NextArc.source
  <2>1. a.source # Nil
    <3>1. PICK v \in Uids, x \in {0, OutBit} : a.source = v + x
      BY <1>0 DEF Proper, ArcIsProper
    <3>2. v + 0 = v /\ v # Nil /\ v + OutBit # Nil
      BY <1>0, UidsAre
    <3> QED BY <3>1, <3>2
  <2>2. eHigh.source = Nil
    BY DEF NoArc
  <2>3. LevelOf(a.source) \in levels => LevelOf(a.source) # label
    BY <1>0, LevelsAreNumbers DEF ReduceInv
  <2>4. LevelOf(u + OutBit) = label
    BY <1>0 DEF Proper, UidsAreProper, UidsHere
  <2>5. LevelOf(a.source) \in levels => a.source # NextArc.source
    BY <1>1, <2>3, <2>4
  <2> QED BY <1>2, <2>1, <2>2, <2>5 DEF IsPending
<1>4. PICK b \in ArcsOf(input) : IsHere(b.source)
  BY NoneIsHere
<1>5. /\ LevelsAreLeft' /\ TerminalsAreUnread' /\ InternalsAreUnread'
      /\ QueueHasTheRest' /\ QueueIsAtTheLevel' /\ NothingIsLeft'
  BY <1>3, <1>4, PullTakes
<1>6. HighComesFirst'
  BY <1>0, <1>1, <1>2 DEF HighComesFirst
<1>7. AllWerePulled'
  BY <1>0, <1>2 DEF ReduceInv, AllWerePulled
<1> QED BY <1>0, <1>5, <1>6, <1>7 DEF ReduceInv

LEMMA PullLowKeeps ==
    ASSUME ReduceInv, PullLow, input' = input
    PROVE  ReduceInv'
<1>0. /\ Proper /\ IsDiagram(input)'
      /\ Uids' = Uids /\ UidsHere' = UidsHere
  BY InputIsKept DEF PullLow
<1>1. PICK u \in UidsHere : /\ u \notin Got /\ eHigh.source = u + OutBit
                            /\ NextArc.source = u
                            /\ \E a \in ArcsOf(input) : IsHere(a.source)
  BY LowIs DEF PullLow
<1>2. Got' = Got \cup {u}
  <2>1. PICK n, p : /\ n = Node(Essential(NextArc.source), NextArc.target, eHigh.target)
                    /\ IF p = n.uid THEN grouping' = grouping \cup {n} /\ red1' = red1
                       ELSE /\ red1' = red1 \cup {[old |-> n.uid, new |-> Essential(p)]}
                            /\ grouping' = grouping
    BY DEF PullLow
  <2>2. Essential(u) = u
    BY <1>0, UidsAre DEF UidsHere
  <2>3. n.uid = u
    BY <1>1, <2>1, <2>2 DEF Node
  <2>4. red2' = red2
    BY DEF PullLow
  <2>5. PICK q : q = Essential(p)
    OBVIOUS
  <2>6. CASE p = n.uid
    <3>1. grouping' = grouping \cup {n} /\ red1' = red1
      BY <2>1, <2>6
    <3> QED BY <2>3, <2>4, <3>1 DEF Got
  <2>7. CASE p # n.uid
    <3>1. PICK r : r = [old |-> u, new |-> q]
      OBVIOUS
    <3>2. red1' = red1 \cup {r} /\ grouping' = grouping /\ r.old = u
      BY <2>1, <2>3, <2>5, <2>7, <3>1
    <3>3. {m.old : m \in red1' \cup red2'} = {m.old : m \in red1 \cup red2} \cup {u}
      BY <2>4, <3>2
    <3> QED BY <3>2, <3>3 DEF Got
  <2> QED BY <2>6, <2>7
<1>3. ASSUME NEW a \in ArcsOf(input)
      PROVE  IsPending(a.source)' <=> IsPending(a.source) /\ a.source # NextArc.source
  <2>1. PICK v \in Uids, x \in {0, OutBit} : a.source = v + x
    BY <1>0 DEF Proper, ArcIsProper
  <2>2. Essential(a.source) = v /\ a.source # Nil
    <3>1. v + 0 = v /\ v # Nil /\ v + OutBit # Nil
      BY <1>0, UidsAre
    <3> QED BY <1>0, <2>1, <3>1 DEF Proper, UidsAreProper
  <2>3. eHigh' = NoArc /\ NoArc.source = Nil /\ phase' = phase /\ phase = "pull"
        /\ label' = label /\ levels' = levels
    BY DEF NoArc, PullLow
  <2>4. LevelOf(a.source) \in levels => LevelOf(a.source) # label
    BY <1>0, LevelsAreNumbers DEF ReduceInv, PullLow
  <2>5. v \in Nat /\ u \in Nat /\ OutBit = 2
    BY <1>0, UidsAre DEF UidsHere, OutBit
  <2>6. Essential(a.source) = u <=> a.source \in {u, u + OutBit}
    <3>1. Essential(u) = u /\ Essential(u + OutBit) = u
      BY <1>0, UidsAre DEF Proper, UidsAreProper, UidsHere
    <3>2. v = u => a.source \in {u, u + OutBit}
      BY <2>1, <2>5
    <3> QED BY <2>2, <3>1, <3>2
  <2>7. LevelOf(u) = label
    BY DEF UidsHere
  <2>8. IsPending(a.source)' <=>
          \/ LevelOf(a.source) \in levels
          \/ LevelOf(a.source) = label /\ Essential(a.source) \notin Got \cup {u}
    BY <1>2, <2>2, <2>3 DEF IsPending
  <2>9. IsPending(a.source) <=>
          \/ LevelOf(a.source) \in levels
          \/ /\ LevelOf(a.source) = label /\ Essential(a.source) \notin Got
             /\ a.source # u + OutBit
    BY <1>1, <2>3 DEF IsPending
  <2>10. LevelOf(a.source) \in levels => a.source # u
    BY <2>4, <2>7
  <2> QED BY <1>1, <2>6, <2>8, <2>9, <2>10
<1>4. PICK b \in ArcsOf(input) : IsHere(b.source)
  BY <1>1
<1>5. /\ LevelsAreLeft' /\ TerminalsAreUnread' /\ InternalsAreUnread'
      /\ QueueHasTheRest' /\ QueueIsAtTheLevel' /\ NothingIsLeft'
  BY <1>3, <1>4, PullTakes DEF PullLow
<1>6. HighComesFirst'
  BY DEF HighComesFirst, PullLow
<1>7. AllWerePulled'
  BY <1>0, <1>2 DEF ReduceInv, AllWerePulled, PullLow
<1> QED BY <1>0, <1>5, <1>6, <1>7 DEF ReduceInv

(* When what is pending or ahead stays the same, so do the streams and the *)
(* queue.                                                                  *)
LEMMA StreamsAreKept ==
    ASSUME ReduceInv, UNCHANGED <<input, internal, terminal, pq>>,
           \A a \in ArcsOf(input) : IsPending(a.source)' <=> IsPending(a.source),
           \A u \in Uids : /\ IsAhead(u)' => IsAhead(u)
                           /\ IsUnforwarded(u) => IsUnforwarded(u)'
    PROVE  TerminalsAreUnread' /\ InternalsAreUnread' /\ QueueHasTheRest'
<1>0. Proper /\ ArcsOf(input)' = ArcsOf(input)
  BY InputIsKept
<1>1. TerminalsAreUnread'
  BY <1>0 DEF ReduceInv, TerminalsAreUnread
<1>2. \A a \in ArcsOf(input) : IsNode(a.target) => a.target \in Uids
  BY <1>0 DEF Proper, ArcIsProper
<1>3. InternalsAreUnread'
  BY <1>0, <1>2 DEF ReduceInv, InternalsAreUnread
<1>4. QueueHasTheRest'
  BY <1>0 DEF ReduceInv, QueueHasTheRest, Sources
<1> QED BY <1>1, <1>3, <1>4

LEMMA EndPullsKeeps ==
    ASSUME ReduceInv, EndPulls, input' = input
    PROVE  ReduceInv'
<1> USE DEF EndPulls
<1>0. /\ Proper /\ IsDiagram(input)'
      /\ Uids' = Uids /\ InputLevels' = InputLevels /\ UidsHere' = UidsHere
  BY InputIsKept
<1>1. \A a \in ArcsOf(input) : ~IsHere(a.source)
  BY NextIsLargest
<1>2. \A a \in ArcsOf(input) : IsPending(a.source)' <=> IsPending(a.source)
  BY <1>1 DEF IsPending, IsHere
<1>3. \A u \in Uids : /\ IsAhead(u)' => IsAhead(u)
                      /\ IsUnforwarded(u) => IsUnforwarded(u)'
  BY DEF IsAhead, IsUnforwarded
<1>4. TerminalsAreUnread' /\ InternalsAreUnread' /\ QueueHasTheRest'
  BY <1>2, <1>3, StreamsAreKept
<1>5. UidsHere \subseteq Got
  <2>1. ASSUME NEW u \in UidsHere, u \notin Got
        PROVE  FALSE
    <3>1. u \in Uids /\ u # Nil /\ u + 0 = u
      BY <1>0, UidsAre DEF UidsHere
    <3>2. PICK a \in ArcsOf(input) : a.source = u
      BY <1>0, <3>1, UidsAre
    <3>3. eHigh.source = Nil
      BY DEF NoArc
    <3>4. IsHere(u + 0)
      BY <2>1, <3>1, <3>3, HereIs
    <3>5. IsHere(a.source)
      BY <3>1, <3>2, <3>4, Zenon
    <3> QED BY <1>1, <3>5
  <2> QED BY <2>1
<1>6. Got' = Got
  BY DEF Got
<1>7. AllWerePulled'
  BY <1>0, <1>5, <1>6 DEF ReduceInv, AllWerePulled
<1>8. LevelsAreLeft' /\ QueueIsAtTheLevel'
  BY <1>0 DEF ReduceInv, LevelsAreLeft, QueueIsAtTheLevel
<1>9. HighComesFirst' /\ NothingIsLeft'
  BY DEF HighComesFirst, NothingIsLeft
<1> QED BY <1>0, <1>4, <1>7, <1>8, <1>9 DEF ReduceInv

LEMMA OutputKeeps ==
    ASSUME ReduceInv, Output \/ EndOutput, input' = input
    PROVE  ReduceInv'
<1>0. /\ Proper /\ IsDiagram(input)'
      /\ Uids' = Uids /\ InputLevels' = InputLevels
  BY InputIsKept
<1>a. /\ UNCHANGED <<levels, internal, terminal, pq, pqLevel, label, eHigh>>
      /\ phase = "output" /\ phase' \in {"output", "forward"}
  BY DEF Output, EndOutput, levelVars
<1>b. UidsHere' = UidsHere
  BY <1>a, InputIsKept
<1>1. Got' = Got
  <2>1. CASE Output
    <3>1. PICK n, r : /\ n \in grouping /\ grouping' = grouping \ {n} /\ red1' = red1
                      /\ red2' = red2 \cup {r} /\ r.old = n.uid
      <4>1. PICK n \in grouping :
                /\ grouping' = grouping \ {n}
                /\ red2' = red2 \cup {[old |-> n.uid, new |-> outNode'.uid]}
        BY <2>1, Zenon DEF Output
      <4>2. PICK r : r = [old |-> n.uid, new |-> outNode'.uid]
        OBVIOUS
      <4>3. r.old = n.uid /\ red2' = red2 \cup {r}
        BY <4>1, <4>2
      <4>4. red1' = red1
        BY <2>1 DEF Output
      <4> QED BY <4>1, <4>3, <4>4
    <3>2. PICK u : u = n.uid
      OBVIOUS
    <3>3. ASSUME NEW v
          PROVE  v \in Got' <=> v \in Got
      <4>1. v \in Got' <=> \/ \E m \in grouping' : m.uid = v
                           \/ \E m \in red1' \cup red2' : m.old = v
        BY DEF Got
      <4>2. v \in Got <=> \/ \E m \in grouping : m.uid = v
                          \/ \E m \in red1 \cup red2 : m.old = v
        BY DEF Got
      <4>3. (\E m \in red1' \cup red2' : m.old = v) <=>
                (\E m \in red1 \cup red2 : m.old = v) \/ v = u
        BY <3>1, <3>2
      <4>4. (\E m \in grouping' : m.uid = v) \/ v = u <=> \E m \in grouping : m.uid = v
        BY <3>1, <3>2
      <4> QED BY <4>1, <4>2, <4>3, <4>4
    <3> QED BY <3>3
  <2>2. CASE EndOutput
    BY <2>2 DEF EndOutput, levelVars, Got
  <2> QED BY <2>1, <2>2
<1>2. UidsHere \subseteq Got
  BY <1>a DEF ReduceInv, AllWerePulled
<1>3. \A a \in ArcsOf(input) : IsPending(a.source)' <=> IsPending(a.source)
  BY <1>a DEF IsPending
<1>4. ASSUME NEW u \in Uids
      PROVE  (IsAhead(u)' => IsAhead(u)) /\ (IsUnforwarded(u) => IsUnforwarded(u)')
  <2>1. IsAhead(u)' => IsAhead(u)
    BY <1>a DEF IsAhead
  <2>2. CASE phase' = "output"
    BY <1>a, <2>1, <2>2 DEF IsAhead, IsUnforwarded
  <2>3. CASE phase' = "forward"
    <3>1. grouping = {} /\ red1' = red1 /\ red2' = red2
      BY <1>a, <2>3 DEF Output, EndOutput, levelVars
    <3>2. LevelOf(u) = label => \E m \in red1 \cup red2 : m.old = u
      BY <1>2, <3>1 DEF UidsHere, Got
    <3> QED BY <1>a, <2>1, <2>3, <3>1, <3>2 DEF IsAhead, IsUnforwarded
  <2> QED BY <1>a, <2>2, <2>3
<1>5. TerminalsAreUnread' /\ InternalsAreUnread' /\ QueueHasTheRest'
  BY <1>a, <1>3, <1>4, StreamsAreKept
<1>6. AllWerePulled'
  BY <1>a, <1>b, <1>1 DEF ReduceInv, AllWerePulled
<1>7. LevelsAreLeft' /\ QueueIsAtTheLevel'
  BY <1>0, <1>a DEF ReduceInv, LevelsAreLeft, QueueIsAtTheLevel
<1>8. HighComesFirst' /\ NothingIsLeft'
  BY <1>a DEF HighComesFirst, NothingIsLeft
<1> QED BY <1>0, <1>5, <1>6, <1>7, <1>8 DEF ReduceInv

LEMMA SingleNodeKeeps ==
    ASSUME ReduceInv, ReduceSingleNode, input' = input
    PROVE  ReduceInv'
<1>0. /\ Proper /\ IsDiagram(input)'
      /\ Uids' = Uids /\ InputLevels' = InputLevels /\ ArcsOf(input)' = ArcsOf(input)
  BY InputIsKept
<1>a. /\ phase = "begin" /\ phase' = "close" /\ internal = {}
      /\ terminal' = {} /\ levels' = {} /\ UNCHANGED <<internal, pq, pqLevel, label>>
  BY DEF ReduceSingleNode, levelVars
<1>1. levels = InputLevels
  <2>1. levels = {LevelOf(n.uid) : n \in input}
    BY DEF ReduceSingleNode
  <2> QED BY <2>1 DEF InputLevels, Uids
<1>2. label = NoLabel
  <2>1. ASSUME label # NoLabel
        PROVE  FALSE
    <3>1. label \in InputLevels /\ \A l \in InputLevels : l \in levels <=> l < label
      BY <1>a, <2>1 DEF ReduceInv, LevelsAreLeft
    <3>2. label \in Nat
      BY <1>0, <3>1, LevelsAreNumbers DEF ReduceInv
    <3> QED BY <1>1, <3>1, <3>2
  <2> QED BY <2>1
<1>3. pq = {}
  BY <1>a, <1>2 DEF ReduceInv, LevelsAreLeft
<1>4. \A s : ~IsPending(s)' /\ ~IsAhead(s)'
  BY <1>a DEF IsPending, IsAhead
<1>5. TerminalsAreUnread' /\ InternalsAreUnread' /\ QueueHasTheRest'
  BY <1>0, <1>a, <1>3, <1>4
     DEF TerminalsAreUnread, InternalsAreUnread, QueueHasTheRest, Sources
<1>6. LevelsAreLeft' /\ QueueIsAtTheLevel'
  BY <1>a DEF ReduceInv, LevelsAreLeft, QueueIsAtTheLevel
<1>7. HighComesFirst' /\ AllWerePulled'
  BY <1>a DEF HighComesFirst, AllWerePulled
<1>8. NothingIsLeft'
  BY <1>a, <1>3 DEF NothingIsLeft
<1> QED BY <1>0, <1>5, <1>6, <1>7, <1>8 DEF ReduceInv

LEMMA BeginLevelKeeps ==
    ASSUME ReduceInv, BeginLevel, input' = input
    PROVE  ReduceInv'
<1>0. /\ Proper /\ IsDiagram(input)'
      /\ Uids' = Uids /\ InputLevels' = InputLevels
  BY InputIsKept
<1>a. /\ phase = "begin" /\ phase' = "pull" /\ levels # {}
      /\ label' = MaxOf(levels) /\ levels' = levels \ {label'} /\ eHigh' = NoArc
      /\ grouping' = {} /\ red1' = {} /\ red2' = {}
      /\ UNCHANGED <<internal, terminal, pq, pqLevel>>
  BY DEF BeginLevel
<1>1. levels \subseteq InputLevels /\ InputLevels \subseteq Level /\ Level \subseteq Nat
  BY <1>0, LevelsAreNumbers DEF ReduceInv, LevelsAreLeft
<1>2. label' \in levels /\ \A l \in levels : l <= label'
  BY <1>a, <1>1, LastLevelIs
<1>3. Got' = {}
  BY <1>a DEF Got
<1>4. \A l \in InputLevels : l \in levels' <=> l < label'
  <2>1. CASE label = NoLabel
    <3>1. levels = InputLevels
      BY <1>a, <2>1 DEF ReduceInv, LevelsAreLeft
    <3> QED BY <1>a, <1>1, <1>2, <3>1
  <2>2. CASE label # NoLabel
    <3>1. label \in InputLevels /\ \A l \in InputLevels : l \in levels <=> l < label
      BY <1>a, <2>2 DEF ReduceInv, LevelsAreLeft
    <3>2. label' < label /\ label' \in Nat /\ label \in Nat /\ InputLevels \subseteq Nat
      BY <1>1, <1>2, <3>1
    <3> QED BY <1>a, <1>2, <3>1, <3>2
  <2> QED BY <2>1, <2>2
<1>5. LevelsAreLeft'
  BY <1>0, <1>a, <1>1, <1>2, <1>4 DEF LevelsAreLeft
<1>6. ASSUME NEW a \in ArcsOf(input)
      PROVE  IsPending(a.source)' <=> IsPending(a.source)
  <2>1. a.source # Nil
    <3>1. PICK v \in Uids, x \in {0, OutBit} : a.source = v + x
      BY <1>0 DEF Proper, ArcIsProper
    <3>2. v + 0 = v /\ v # Nil /\ v + OutBit # Nil
      BY <1>0, UidsAre
    <3> QED BY <3>1, <3>2
  <2>2. eHigh'.source = Nil
    BY <1>a DEF NoArc
  <2> QED BY <1>a, <1>2, <1>3, <2>1, <2>2 DEF IsPending
<1>7. \A u \in Uids : /\ IsAhead(u)' => IsAhead(u)
                      /\ IsUnforwarded(u) => IsUnforwarded(u)'
  BY <1>a, <1>2 DEF IsAhead, IsUnforwarded
<1>8. TerminalsAreUnread' /\ InternalsAreUnread' /\ QueueHasTheRest'
  BY <1>a, <1>6, <1>7, StreamsAreKept
<1>9. QueueIsAtTheLevel'
  <2>1. label' \in Level /\ NoLabel \notin Level
    BY <1>1, <1>2 DEF NoLabel
  <2>2. CASE label = NoLabel
    <3>1. pq = {} /\ pqLevel = NoLabel
      BY <1>a, <2>2 DEF ReduceInv, LevelsAreLeft
    <3> QED BY <1>a, <3>1 DEF QueueIsAtTheLevel
  <2>3. CASE label # NoLabel
    <3>1. pqLevel = label'
      BY <1>a, <2>3 DEF ReduceInv, QueueIsAtTheLevel
    <3>2. pqLevel' = label' /\ pqLevel' # NoLabel /\ pqLevel' \in Level
      BY <1>a, <2>1, <3>1
    <3> QED BY <1>a, <3>2 DEF QueueIsAtTheLevel
  <2> QED BY <2>2, <2>3
<1>10. HighComesFirst' /\ AllWerePulled' /\ NothingIsLeft'
  BY <1>a, <1>3 DEF HighComesFirst, AllWerePulled, NothingIsLeft
<1> QED BY <1>0, <1>5, <1>8, <1>9, <1>10 DEF ReduceInv

LEMMA CloseKeeps ==
    ASSUME ReduceInv, Close \/ Done, input' = input
    PROVE  ReduceInv'
<1>0. /\ Proper /\ IsDiagram(input)'
      /\ Uids' = Uids /\ InputLevels' = InputLevels
  BY InputIsKept
<1>a. /\ phase \in {"close", "done"} /\ phase' = "done"
      /\ UNCHANGED <<levels, internal, terminal, pq, pqLevel, label, eHigh>>
  BY DEF Close, Done, levelVars
<1>1. \A a \in ArcsOf(input) : IsPending(a.source)' <=> IsPending(a.source)
  BY <1>a DEF IsPending
<1>2. \A u \in Uids : /\ IsAhead(u)' => IsAhead(u)
                      /\ IsUnforwarded(u) => IsUnforwarded(u)'
  BY <1>a DEF IsAhead, IsUnforwarded
<1>3. TerminalsAreUnread' /\ InternalsAreUnread' /\ QueueHasTheRest'
  BY <1>a, <1>1, <1>2, StreamsAreKept
<1>4. LevelsAreLeft' /\ QueueIsAtTheLevel' /\ NothingIsLeft'
  BY <1>0, <1>a DEF ReduceInv, LevelsAreLeft, QueueIsAtTheLevel, NothingIsLeft
<1>5. HighComesFirst' /\ AllWerePulled'
  BY <1>a DEF HighComesFirst, AllWerePulled
<1> QED BY <1>0, <1>3, <1>4, <1>5 DEF ReduceInv

-----------------------------------------------------------------------------
(* Forwarding                                                              *)

(* Mappings are of this level's nodes; no arc to a larger one is unread.   *)
LEMMA InStep ==
    ASSUME ReduceInv, phase = "forward", red1 \cup red2 # {}
    PROVE  /\ Mapped \in red1 \cup red2 /\ Mapped.old \in UidsHere
           /\ \A m \in red1 \cup red2 : m.old <= Mapped.old
           /\ \A a \in internal : a.target \in Uids /\ a.target <= Mapped.old
           /\ internal # {} => /\ PeekInternal \in internal
                               /\ \A a \in internal : a.target <= PeekInternal.target
<1>0. Proper
  BY DiagramsAreProper DEF ReduceInv
<1>1. \A m \in red1 \cup red2 : m.old \in UidsHere
  BY DEF ReduceInv, AllWerePulled, Got
<1>2. Mapped \in red1 \cup red2 /\ \A m \in red1 \cup red2 : m.old <= Mapped.old
  BY <1>0, <1>1, MappedIs DEF UidsHere
<1>3. \A a \in internal : a \in ArcsOf(input) /\ IsNode(a.target) /\ IsUnforwarded(a.target)
  BY DEF ReduceInv, InternalsAreUnread
<1>4. ASSUME NEW a \in internal
      PROVE  a.target \in Uids /\ a.target <= Mapped.old
  <2>1. a.target \in Uids /\ a.target \in Nat
    BY <1>0, <1>3, UidsAre DEF Proper, ArcIsProper
  <2>2. Mapped.old \in Uids /\ Mapped.old \in Nat /\ LevelOf(Mapped.old) = label
    BY <1>0, <1>1, <1>2, UidsAre DEF UidsHere
  <2>3. CASE LevelOf(a.target) \in levels
    <3>1. LevelOf(a.target) < LevelOf(Mapped.old)
      BY <1>0, <2>2, <2>3, LevelsAreNumbers DEF ReduceInv
    <3>2. a.target < Mapped.old
      BY <1>0, <2>1, <2>2, <3>1 DEF Proper, UidsAreProper
    <3> QED BY <2>1, <2>2, <3>2
  <2>4. CASE \E m \in red1 \cup red2 : m.old = a.target
    BY <1>2, <2>1, <2>4
  <2> QED BY <1>3, <2>3, <2>4 DEF IsUnforwarded, IsAhead
<1>5. internal # {} => /\ PeekInternal \in internal
                       /\ \A a \in internal : a.target <= PeekInternal.target
  BY <1>0, <1>3, PeekInternalIs
<1> QED BY <1>1, <1>2, <1>4, <1>5

LEMMA ForwardArcKeeps ==
    ASSUME ReduceInv, ForwardArc, input' = input
    PROVE  ReduceInv'
<1>0. /\ Proper /\ IsDiagram(input)' /\ ArcsOf(input)' = ArcsOf(input)
      /\ Uids' = Uids /\ InputLevels' = InputLevels
  BY InputIsKept
<1>a. /\ phase = "forward" /\ phase' = "forward" /\ red1 \cup red2 # {} /\ internal # {}
      /\ UNCHANGED <<levels, terminal, pqLevel, label, eHigh, grouping, red1, red2>>
      /\ PeekInternal.target = Mapped.old
  BY DEF ForwardArc, Forwards, levelVars
<1>1. PICK a \in internal : a = PeekInternal /\ a.target = Mapped.old
  BY <1>a, InStep
<1>2. PICK q : q.source = a.source /\ internal' = internal \ {a} /\ pq' = pq \cup {q}
  <2>1. PICK p : p = IF IsRed1 THEN Flag(Mapped.new) ELSE Mapped.new
    OBVIOUS
  <2>2. internal' = internal \ {a} /\ pq' = pq \cup {Arc(a.source, p)}
    BY <1>1, <2>1, Zenon DEF ForwardArc
  <2>3. Arc(a.source, p).source = a.source
    BY DEF Arc
  <2> QED BY <2>2, <2>3
<1>b. UidsHere' = UidsHere
  BY <1>a, InputIsKept
<1>3. a \in ArcsOf(input) /\ IsNode(a.target)
  BY DEF ReduceInv, InternalsAreUnread
<1>4. LevelOf(a.target) = label /\ LevelOf(a.source) < label
  BY <1>0, <1>1, <1>3, <1>a, InStep DEF Proper, ArcIsProper, UidsHere
<1>5. LevelOf(a.source) \in levels /\ label \notin levels
  <2>1. label \notin levels
    BY <1>0, <1>a, LevelsAreNumbers DEF ReduceInv
  <2>2. LevelOf(a.source) \in InputLevels
    BY <1>0, <1>3, SourcesAreOrdered
  <2> QED BY <1>a, <1>4, <2>1, <2>2 DEF ReduceInv, LevelsAreLeft
<1>6. \A s : /\ IsPending(s)' <=> IsPending(s)
             /\ IsAhead(s)' <=> IsAhead(s)
             /\ IsUnforwarded(s)' <=> IsUnforwarded(s)
  BY <1>a DEF IsPending, IsAhead, IsUnforwarded
<1>7. IsPending(a.source) /\ ~IsAhead(a.target)
  BY <1>a, <1>4, <1>5 DEF IsPending, IsAhead
<1>8. TerminalsAreUnread'
  BY <1>0, <1>a, <1>6 DEF ReduceInv, TerminalsAreUnread
<1>9. InternalsAreUnread'
  <2>1. \A c \in internal' : c \in ArcsOf(input) /\ IsNode(c.target) /\ IsUnforwarded(c.target)
    BY <1>2 DEF ReduceInv, InternalsAreUnread
  <2>2. \A c \in ArcsOf(input) : IsNode(c.target) /\ IsAhead(c.target) => c \in internal'
    BY <1>2, <1>7 DEF ReduceInv, InternalsAreUnread
  <2> QED BY <1>0, <1>6, <2>1, <2>2 DEF InternalsAreUnread
<1>10. QueueHasTheRest'
  <2>1. \A b \in pq : b.source # a.source
    BY <1>3, <1>7 DEF ReduceInv, QueueHasTheRest, Sources
  <2>2. \A b, c \in pq' : b.source = c.source => b = c
    BY <1>2, <2>1 DEF ReduceInv, QueueHasTheRest
  <2>3. \A b \in pq' : \E c \in ArcsOf(input) :
            c.source = b.source /\ IsNode(c.target) /\ IsPending(c.source)
    BY <1>2, <1>3, <1>7 DEF ReduceInv, QueueHasTheRest
  <2>4. \A c \in ArcsOf(input) : c.source = a.source => c = a
    BY <1>0, <1>3 DEF Proper
  <2>5. \A c \in ArcsOf(input) : IsNode(c.target) /\ IsPending(c.source) =>
            (c \in internal' <=> ~\E b \in pq' : b.source = c.source)
    <3>1. \A c \in ArcsOf(input) : IsNode(c.target) /\ IsPending(c.source) =>
              (c \in internal <=> ~\E b \in pq : b.source = c.source)
      BY DEF ReduceInv, QueueHasTheRest, Sources
    <3> QED BY <1>2, <2>4, <3>1
  <2> QED BY <1>0, <1>6, <2>2, <2>3, <2>5 DEF QueueHasTheRest, Sources
<1>11. LevelsAreLeft' /\ QueueIsAtTheLevel'
  BY <1>0, <1>a DEF ReduceInv, LevelsAreLeft, QueueIsAtTheLevel
<1>12. AllWerePulled'
  <2>1. Got' = Got
    BY <1>a DEF Got
  <2> QED BY <1>a, <1>b, <2>1 DEF ReduceInv, AllWerePulled
<1>13. HighComesFirst' /\ NothingIsLeft'
  BY <1>a DEF HighComesFirst, NothingIsLeft
<1> QED BY <1>0, <1>8, <1>9, <1>10, <1>11, <1>12, <1>13 DEF ReduceInv

LEMMA NextMappingKeeps ==
    ASSUME ReduceInv, NextMapping, input' = input
    PROVE  ReduceInv'
<1>0. /\ Proper /\ IsDiagram(input)' /\ Uids' = Uids /\ InputLevels' = InputLevels
  BY InputIsKept
<1>a. /\ phase = "forward" /\ phase' = "forward" /\ red1 \cup red2 # {}
      /\ UNCHANGED <<levels, internal, terminal, pq, pqLevel, label, eHigh, grouping>>
      /\ internal = {} \/ PeekInternal.target # Mapped.old
  BY DEF NextMapping, Forwards
<1>b. UidsHere' = UidsHere
  BY <1>a, InputIsKept
<1>1. PICK k : k = Mapped /\ k \in red1 \cup red2
  BY <1>a, InStep
<1>2. \A m : /\ m \in red1 \cup red2 /\ m # k => m \in red1' \cup red2'
             /\ m \in red1' \cup red2' => m \in red1 \cup red2
  <2>1. CASE IsRed1
    BY <1>1, <2>1 DEF NextMapping
  <2>2. CASE ~IsRed1
    BY <1>1, <2>2 DEF NextMapping
  <2> QED BY <2>1, <2>2
<1>3. \A a \in internal : a.target # k.old
  <2>1. \A a \in internal : a.target \in Nat
    BY <1>0, <1>a, InStep, UidsAre
  <2>2. k.old \in Nat
    BY <1>0, <1>1, <1>a, InStep, UidsAre DEF UidsHere
  <2>3. internal # {} => /\ PeekInternal \in internal
                         /\ PeekInternal.target <= k.old /\ PeekInternal.target # k.old
                         /\ \A a \in internal : a.target <= PeekInternal.target
    BY <1>a, <1>1, InStep
  <2> QED BY <2>1, <2>2, <2>3
<1>4. \A s : (IsPending(s)' <=> IsPending(s)) /\ (IsAhead(s)' <=> IsAhead(s))
  BY <1>a DEF IsPending, IsAhead
<1>5. \A a \in internal : IsUnforwarded(a.target)'
  <2>1. \A a \in internal : IsAhead(a.target) \/ \E m \in red1 \cup red2 : m.old = a.target
    BY DEF ReduceInv, InternalsAreUnread, IsUnforwarded
  <2> QED BY <1>a, <1>2, <1>3, <1>4, <2>1 DEF IsUnforwarded
<1>6. ArcsOf(input)' = ArcsOf(input)
  BY InputIsKept
<1>7. InternalsAreUnread'
  BY <1>a, <1>4, <1>5, <1>6 DEF ReduceInv, InternalsAreUnread
<1>8. TerminalsAreUnread' /\ QueueHasTheRest'
  BY <1>a, <1>4, <1>6 DEF ReduceInv, TerminalsAreUnread, QueueHasTheRest, Sources
<1>9. LevelsAreLeft' /\ QueueIsAtTheLevel'
  BY <1>0, <1>a DEF ReduceInv, LevelsAreLeft, QueueIsAtTheLevel
<1>10. AllWerePulled'
  <2>1. Got' \subseteq Got
    BY <1>a, <1>2 DEF Got
  <2> QED BY <1>a, <1>b, <2>1 DEF ReduceInv, AllWerePulled
<1>11. HighComesFirst' /\ NothingIsLeft'
  BY <1>a DEF HighComesFirst, NothingIsLeft
<1> QED BY <1>0, <1>7, <1>8, <1>9, <1>10, <1>11 DEF ReduceInv

(* The end of a level                                                      *)

LEMMA UpwardIs ==
    /\ Level \subseteq Nat /\ NoLabel = -1 /\ Upward(NoLabel) = NoLabel
    /\ \A l \in Level : Upward(l) \in Level /\ Upward(Upward(l)) = l
    /\ \A l, m \in Level : l < m <=> Upward(m) < Upward(l)
<1>1. Levels \in Nat /\ Level = 0 .. Levels - 1
  BY DiagramAssumption DEF Level
<1>2. \A l \in Level : l # NoLabel /\ Upward(l) = Levels - 1 - l
  BY <1>1 DEF Upward, NoLabel
<1>3. \A l \in Level : Upward(l) \in Level
  BY <1>1, <1>2
<1> QED BY <1>1, <1>2, <1>3 DEF Upward, NoLabel

(* What is left when a level is done: the arcs of the levels above it.     *)
LEMMA LevelIsDone ==
    ASSUME ReduceInv, phase = "forward", red1 \cup red2 = {}
    PROVE  /\ \A a \in internal : a \in ArcsOf(input) /\ IsNode(a.target)
                                  /\ LevelOf(a.target) \in levels
           /\ terminal = {a \in ArcsOf(input) : IsTerminal(a.target) /\ LevelOf(a.source) \in levels}
           /\ \A a \in pq : \E c \in ArcsOf(input) :
                  c.source = a.source /\ LevelOf(c.source) \in levels
           /\ \A a \in ArcsOf(input) : IsNode(a.target) /\ LevelOf(a.source) \in levels =>
                  (a \in internal <=> \A q \in pq : q.source # a.source)
           /\ label \in InputLevels /\ \A l \in InputLevels : l \in levels <=> l < label
<1>1. \A s : IsPending(s) <=> LevelOf(s) \in levels
  BY DEF IsPending
<1>2. \A u : IsUnforwarded(u) <=> LevelOf(u) \in levels
  BY DEF IsUnforwarded, IsAhead
<1>3. \A a \in internal : a \in ArcsOf(input) /\ IsNode(a.target) /\ LevelOf(a.target) \in levels
  BY <1>2 DEF ReduceInv, InternalsAreUnread
<1>4. terminal = {a \in ArcsOf(input) : IsTerminal(a.target) /\ LevelOf(a.source) \in levels}
  BY <1>1 DEF ReduceInv, TerminalsAreUnread
<1>5. /\ \A a \in pq : \E c \in ArcsOf(input) :
             c.source = a.source /\ LevelOf(c.source) \in levels
      /\ \A a \in ArcsOf(input) : IsNode(a.target) /\ LevelOf(a.source) \in levels =>
             (a \in internal <=> \A q \in pq : q.source # a.source)
  BY <1>1 DEF ReduceInv, QueueHasTheRest, Sources
<1>6. label \in InputLevels /\ \A l \in InputLevels : l \in levels <=> l < label
  BY Zenon DEF ReduceInv, LevelsAreLeft
<1> QED BY <1>3, <1>4, <1>5, <1>6

(* Some arc into the level was forwarded if there are levels above: only   *)
(* the one root has no parent.                                             *)
LEMMA QueueIsNotEmpty ==
    ASSUME ReduceInv, phase = "forward", red1 \cup red2 = {}, levels # {}
    PROVE  pq # {}
<1>0. Proper /\ IsDiagram(input)
  BY DiagramsAreProper DEF ReduceInv
<1>1. /\ levels \subseteq InputLevels /\ InputLevels \subseteq Nat
      /\ \A l \in levels : l < label
  BY <1>0, LevelsAreNumbers DEF ReduceInv, LevelsAreLeft
<1>2. PICK l \in levels : \A k \in levels : l <= k
  <2>1. levels \in SUBSET Nat
    BY <1>1
  <2> QED BY <2>1, LeastNumber
<1>3. PICK u \in input : LevelOf(u.uid) = label
  BY LevelIsDone DEF InputLevels, Uids
<1>4. PICK r \in input : LevelOf(r.uid) = l
  BY <1>1 DEF InputLevels, Uids
<1>5. ASSUME NEW n \in input, NEW v \in input, v.uid \in Targets(n)
      PROVE  /\ LevelOf(n.uid) \in InputLevels /\ LevelOf(v.uid) \in InputLevels
             /\ LevelOf(n.uid) < LevelOf(v.uid)
             /\ \E a \in ArcsOf(input) : /\ a.target = v.uid /\ IsNode(a.target)
                                         /\ LevelOf(a.source) = LevelOf(n.uid)
  <2>1. n.uid \in Uids /\ v.uid \in Uids
    BY DEF Uids
  <2>2. PICK a \in ArcsOf(input), x \in {0, OutBit} : a.source = n.uid + x /\ a.target = v.uid
    <3>1. Arc(n.uid, n.low) \in ArcsOf(input) /\ Arc(n.uid + OutBit, n.high) \in ArcsOf(input)
      BY ArcsAre
    <3>2. n.uid + 0 = n.uid
      BY <1>0, <2>1, UidsAre
    <3> QED BY <1>5, <3>1, <3>2 DEF Arc, Targets
  <2>3. LevelOf(a.source) = LevelOf(n.uid)
    BY <1>0, <2>1, <2>2 DEF Proper, UidsAreProper
  <2>4. IsNode(v.uid)
    <3>1. IsNode(v.uid + 0) /\ v.uid + 0 = v.uid
      BY <1>0, <2>1, UidsAre DEF Proper, UidsAreProper
    <3> QED BY <3>1, Zenon
  <2>5. LevelOf(a.source) < LevelOf(a.target)
    <3>1. ArcIsProper(a) /\ IsNode(a.target)
      BY <1>0, <2>2, <2>4 DEF Proper
    <3> QED BY <3>1 DEF ArcIsProper
  <2> QED BY <2>1, <2>2, <2>3, <2>4, <2>5 DEF InputLevels
<1>6. \A n \in input : r.uid \notin Targets(n)
  <2>1. SUFFICES ASSUME NEW n \in input, r.uid \in Targets(n)
                 PROVE  FALSE
    OBVIOUS
  <2>2. LevelOf(n.uid) \in InputLevels /\ LevelOf(n.uid) < l
    BY <1>4, <1>5, <2>1
  <2>3. l < label /\ l \in Nat /\ LevelOf(n.uid) \in Nat /\ label \in Nat
    BY <1>1, <2>2, LevelIsDone
  <2>4. LevelOf(n.uid) < label
    BY <2>2, <2>3
  <2>5. LevelOf(n.uid) \in levels
    BY <2>2, <2>4, LevelIsDone
  <2> QED BY <1>2, <2>2, <2>3, <2>5
<1>7. PICK n \in input : u.uid \in Targets(n)
  <2>1. r \in Roots(input)
    BY <1>6 DEF Roots
  <2>2. u # r
    BY <1>1, <1>3, <1>4
  <2>3. PICK t : Roots(input) = {t}
    <3>1. IsFiniteSet(Roots(input))
      BY <1>0, FS_Subset DEF Roots, IsDiagram
    <3> QED BY <1>0, <3>1, FS_Singleton, Zenon DEF IsDiagram
  <2>4. u \notin Roots(input)
    BY <2>1, <2>2, <2>3
  <2> QED BY <2>4 DEF Roots
<1>8. PICK a \in ArcsOf(input) : /\ a.target = u.uid /\ IsNode(a.target)
                                 /\ LevelOf(a.source) = LevelOf(n.uid)
  BY <1>5, <1>7
<1>9. LevelOf(a.source) \in levels
  BY <1>3, <1>5, <1>7, <1>8, LevelIsDone
<1>10. a \notin internal
  <2>1. label \notin levels
    BY <1>0, LevelsAreNumbers DEF ReduceInv
  <2> QED BY <1>3, <1>8, <2>1, LevelIsDone
<1> QED BY <1>8, <1>9, <1>10, LevelIsDone

(* The queue moves to the next level to reduce: it has an arc from there,  *)
(* or the file of arcs to terminals has one and stops it there.            *)
LEMMA LastLevelIsAtHand ==
    ASSUME ReduceInv, phase = "forward", red1 \cup red2 = {}, NEW l \in levels,
           \A k \in levels : k <= l
    PROVE  \/ \E a \in pq : LevelOf(a.source) = l
           \/ StopLevel = Upward(l)
<1>0. Proper
  BY DiagramsAreProper DEF ReduceInv
<1>1. levels \subseteq InputLevels /\ InputLevels \subseteq Level /\ Level \subseteq Nat
  BY <1>0, LevelsAreNumbers DEF ReduceInv, LevelsAreLeft
<1>2. PICK u \in Uids : LevelOf(u) = l
  BY <1>1 DEF InputLevels
<1>3. PICK a \in ArcsOf(input) : a.source = u
  BY <1>0, UidsAre
<1>4. CASE IsTerminal(a.target)
  <2>1. a \in terminal
    BY <1>2, <1>3, <1>4, LevelIsDone
  <2>2. \A c \in terminal : \E v \in Uids, x \in {0, OutBit} : c.source = v + x
    BY AtHandIsPending
  <2>3. PeekTerminal \in terminal /\ \A c \in terminal : c.source <= PeekTerminal.source
    BY <1>0, <2>1, <2>2, LargestSourceIs DEF PeekTerminal
  <2>4. PeekTerminal \in ArcsOf(input) /\ LevelOf(PeekTerminal.source) \in levels
    BY <2>3, LevelIsDone
  <2>5. ~(LevelOf(PeekTerminal.source) < l)
    <3>1. /\ a.source \in Nat /\ PeekTerminal.source \in Nat
          /\ LevelOf(PeekTerminal.source) < LevelOf(a.source) => PeekTerminal.source < a.source
      BY <1>0, <2>4, SourcesAreOrdered
    <3>2. a.source <= PeekTerminal.source
      BY <2>1, <2>3
    <3> QED BY <1>2, <1>3, <3>1, <3>2
  <2>6. LevelOf(PeekTerminal.source) = l
    <3>1. PICK k \in levels : k = LevelOf(PeekTerminal.source)
      BY <2>4
    <3>2. k \in Nat /\ l \in Nat /\ k <= l /\ ~(k < l)
      BY <1>1, <2>5, <3>1
    <3> QED BY <3>1, <3>2
  <2> QED BY <2>1, <2>6 DEF StopLevel
<1>5. CASE IsNode(a.target)
  <2>1. LevelOf(a.target) \in Level /\ l < LevelOf(a.target)
    BY <1>0, <1>2, <1>3, <1>5 DEF Proper, ArcIsProper, UidsAreProper
  <2>2. LevelOf(a.target) \notin levels
    <3>1. PICK k \in Nat : k = LevelOf(a.target) /\ l < k /\ l \in Nat
      BY <1>1, <2>1
    <3> QED BY <3>1
  <2>3. a \notin internal
    BY <2>2, LevelIsDone
  <2> QED BY <1>2, <1>3, <1>5, <2>3, LevelIsDone
<1> QED BY <1>0, <1>4, <1>5 DEF Proper, ArcIsProper

LEMMA StopLevelIs ==
    ASSUME ReduceInv, phase = "forward", red1 \cup red2 = {}
    PROVE  StopLevel = NoLabel \/ \E l \in levels : StopLevel = Upward(l)
<1>0. Proper
  BY DiagramsAreProper DEF ReduceInv
<1>1. CASE terminal = {}
  BY <1>1 DEF StopLevel
<1>2. CASE terminal # {}
  <2>1. \A c \in terminal : \E v \in Uids, x \in {0, OutBit} : c.source = v + x
    BY AtHandIsPending
  <2>2. PeekTerminal \in terminal
    BY <1>0, <1>2, <2>1, LargestSourceIs DEF PeekTerminal
  <2>3. LevelOf(PeekTerminal.source) \in levels
    BY <2>2, LevelIsDone
  <2> QED BY <1>2, <2>3 DEF StopLevel
<1> QED BY <1>1, <1>2

LEMMA QueueAdvances ==
    ASSUME ReduceInv, phase = "forward", red1 \cup red2 = {}, levels # {}
    PROVE  /\ Q!Target(StopLevel) = Upward(MaxOf(levels))
           /\ Q!AtLevel(Upward(pqLevel)) = {}
           /\ Upward(pqLevel) < Upward(MaxOf(levels))
<1>0. Proper
  BY DiagramsAreProper DEF ReduceInv
<1>1. /\ levels \subseteq Level /\ Level \subseteq Nat
      /\ label \in Level /\ \A l \in levels : l < label
  BY <1>0, LevelsAreNumbers DEF ReduceInv
<1>2. PICK l \in levels : l = MaxOf(levels) /\ \A k \in levels : k <= l
  BY <1>1, LastLevelIs
<1>3. PICK U \in Level : U = Upward(l)
  BY <1>1, UpwardIs
<1>4. \A k \in levels : U <= Upward(k) /\ Upward(k) \in Nat
  <2>1. TAKE k \in levels
  <2>2. k \in Level /\ l \in Level /\ k <= l
    BY <1>1, <1>2
  <2>3. Upward(k) \in Nat /\ ~(Upward(k) < U)
    <3>1. l < k <=> Upward(k) < U
      BY <1>3, <2>2, UpwardIs
    <3>2. k \in Nat /\ l \in Nat /\ ~(l < k)
      BY <1>1, <2>2
    <3>3. Upward(k) \in Nat
      BY <1>1, <2>2, UpwardIs
    <3> QED BY <3>1, <3>2, <3>3
  <2>4. U \in Nat
    BY <1>1
  <2> QED BY <2>3, <2>4
<1>5. pqLevel \in {label, NoLabel}
  BY DEF ReduceInv, QueueIsAtTheLevel
<1>6. PICK z \in Int : z = Upward(pqLevel) /\ z < U /\ \A k \in levels : z # Upward(k)
  <2>1. CASE pqLevel = NoLabel
    BY <1>1, <1>4, <2>1, UpwardIs
  <2>2. CASE pqLevel = label
    <3>1. Upward(label) \in Nat /\ Upward(label) < U
      <4>1. l < label /\ l \in Level
        BY <1>1
      <4> QED BY <1>1, <1>3, <4>1, UpwardIs
    <3> QED BY <1>1, <1>4, <2>2, <3>1
  <2> QED BY <1>5, <2>1, <2>2
<1>7. PICK T : T = {Upward(LevelOf(a.source)) : a \in pq}
  OBVIOUS
<1>8. \A t \in T : \E k \in levels : t = Upward(k)
  BY <1>7, LevelIsDone
<1>9. \A t \in T : t \in Nat /\ U <= t /\ t # z
  BY <1>4, <1>6, <1>8
<1>10. PICK s : s = StopLevel /\ (s = NoLabel \/ (s \in Nat /\ U <= s))
  BY <1>4, StopLevelIs
<1>11. U \in T \/ s = U
  BY <1>2, <1>3, <1>7, <1>10, LastLevelIsAtHand
<1>12. {e.level : e \in {Queued(a) : a \in pq}} = T
  <2>1. \A a \in pq : Queued(a).level = Upward(LevelOf(a.source))
    BY Zenon DEF Queued
  <2> QED BY <1>7, <2>1
<1>13. \A st : Q!Reachable(st) = {t \in T : st = NoLabel \/ t <= st}
  BY <1>12 DEF Q!Reachable, Q!LevelsOf
<1>14. Q!AtLevel(Upward(pqLevel)) = {}
  <2>1. \A e \in {Queued(a) : a \in pq} : e.level \in T
    BY <1>12
  <2> QED BY <1>6, <1>9, <2>1 DEF Q!AtLevel
<1>15. Q!Target(s) = U
  <2>1. CASE U \in T
    <3>1. U \in Q!Reachable(s) /\ \A t \in Q!Reachable(s) : t \in Nat /\ U <= t
      BY <1>1, <1>9, <1>10, <1>13, <2>1
    <3>2. Q!Min(Q!Reachable(s)) = U
      <4>1. PICK R : R = Q!Reachable(s)
        OBVIOUS
      <4>2. \A x \in R : (\A t \in R : x <= t) => x = U
        BY <1>1, <3>1, <4>1
      <4>3. U \in R /\ \A t \in R : U <= t
        BY <3>1, <4>1
      <4>4. Q!Min(R) = U
        BY <4>2, <4>3, Zenon DEF Q!Min
      <4> QED BY <4>1, <4>4
    <3> QED BY <3>1, <3>2 DEF Q!Target
  <2>2. CASE U \notin T
    <3>1. s = U /\ s # NoLabel
      BY <1>1, <1>11, <2>2, UpwardIs
    <3>2. Q!Reachable(s) = {}
      BY <1>1, <1>9, <1>13, <2>2, <3>1
    <3>3. PICK S : S = {k \in {Upward(k) : k \in Level} : k <= s} \cup {z}
      OBVIOUS
    <3>4. U \in S /\ \A k \in S : k \in Int /\ k <= U
      <4>1. \A k \in Level : Upward(k) \in Nat
        BY <1>1, UpwardIs
      <4> QED BY <1>1, <1>3, <1>6, <3>1, <3>3, <4>1
    <3>5. Q!Max(S) = U
      <4>1. \A x \in S : (\A k \in S : x >= k) => x = U
        BY <1>1, <3>4
      <4>2. U \in S /\ \A k \in S : U >= k
        BY <1>1, <3>4
      <4> QED BY <4>1, <4>2, Zenon DEF Q!Max
    <3> QED BY <1>6, <3>2, <3>3, <3>5, Zenon DEF Q!Target
  <2> QED BY <2>1, <2>2
<1> QED BY <1>2, <1>3, <1>6, <1>10, <1>14, <1>15

LEMMA EndLevelKeeps ==
    ASSUME ReduceInv, EndLevel, input' = input
    PROVE  ReduceInv'
<1>0. /\ Proper /\ IsDiagram(input)'
      /\ Uids' = Uids /\ InputLevels' = InputLevels
  BY InputIsKept
<1>a. /\ phase = "forward" /\ red1 \cup red2 = {}
      /\ phase' = IF levels = {} THEN "close" ELSE "begin"
      /\ UNCHANGED <<levels, internal, terminal, pq, label, eHigh, grouping, red1, red2>>
      /\ IF pq # {} THEN pqLevel' = Upward(Q!Target(StopLevel)) ELSE UNCHANGED pqLevel
  BY DEF EndLevel, levelVars
<1>1. \A a \in ArcsOf(input) : IsPending(a.source)' <=> IsPending(a.source)
  BY <1>a DEF IsPending
<1>2. \A u \in Uids : /\ IsAhead(u)' => IsAhead(u)
                      /\ IsUnforwarded(u) => IsUnforwarded(u)'
  BY <1>a DEF IsAhead, IsUnforwarded
<1>3. TerminalsAreUnread' /\ InternalsAreUnread' /\ QueueHasTheRest'
  BY <1>a, <1>1, <1>2, StreamsAreKept
<1>4. HighComesFirst' /\ AllWerePulled'
  BY <1>a DEF HighComesFirst, AllWerePulled
<1>5. CASE levels # {}
  <2>1. phase' = "begin" /\ pqLevel' = MaxOf(levels)
    <3>1. pqLevel' = Upward(Upward(MaxOf(levels)))
      BY <1>a, <1>5, QueueIsNotEmpty, QueueAdvances
    <3>2. MaxOf(levels) \in Level
      BY <1>0, <1>5, LevelsAreNumbers, LastLevelIs DEF ReduceInv
    <3> QED BY <1>a, <1>5, <3>1, <3>2, UpwardIs
  <2>2. LevelsAreLeft'
    <3>1. label \in InputLevels /\ \A l \in InputLevels : l \in levels <=> l < label
      BY <1>a, LevelIsDone
    <3>2. label # NoLabel
      BY <1>0, <1>a, LevelsAreNumbers, UpwardIs DEF ReduceInv
    <3> QED BY <1>0, <1>5, <1>a, <2>1, <3>1, <3>2 DEF ReduceInv, LevelsAreLeft
  <2>3. QueueIsAtTheLevel'
    <3>1. MaxOf(levels) \in Level
      BY <1>0, <1>5, LevelsAreNumbers, LastLevelIs DEF ReduceInv
    <3> QED BY <1>a, <2>1, <3>1 DEF QueueIsAtTheLevel
  <2> QED BY <1>0, <1>3, <1>4, <2>1, <2>2, <2>3 DEF ReduceInv, NothingIsLeft
<1>6. CASE levels = {}
  <2>1. phase' = "close"
    BY <1>a, <1>6
  <2>2. internal = {} /\ terminal = {} /\ pq = {}
    BY <1>6, <1>a, LevelIsDone
  <2>3. NothingIsLeft'
    BY <1>6, <1>a, <2>2 DEF NothingIsLeft
  <2>4. LevelsAreLeft' /\ QueueIsAtTheLevel'
    BY <1>0, <1>6, <1>a, <2>1, <2>2 DEF ReduceInv, LevelsAreLeft, QueueIsAtTheLevel
  <2> QED BY <1>0, <1>3, <1>4, <2>3, <2>4 DEF ReduceInv
<1> QED BY <1>5, <1>6

-----------------------------------------------------------------------------
(* The invariant holds in every state                                      *)

LEMMA InitInv == Init => ReduceInv
<1> SUFFICES ASSUME Init
             PROVE  ReduceInv
  OBVIOUS
<1>1. IsDiagram(input)
  BY JobsAssumption DEF Init
<1>2. Proper
  BY <1>1, DiagramsAreProper
<1>3. /\ phase = "begin" /\ label = NoLabel /\ pq = {} /\ pqLevel = NoLabel /\ levels = InputLevels
      /\ internal = {a \in ArcsOf(input) : IsNode(a.target)}
      /\ terminal = {a \in ArcsOf(input) : IsTerminal(a.target)}
  <2>1. InputLevels = {LevelOf(n.uid) : n \in input}
    BY DEF InputLevels, Uids
  <2> QED BY <2>1 DEF Init
<1>4. levels # {}
  <2>1. Roots(input) # {}
    <3>1. Cardinality({}) = 0 /\ 0 # 1
      BY FS_EmptySet
    <3> QED BY <1>1, <3>1, Zenon DEF IsDiagram
  <2>2. PICK n \in input : TRUE
    BY <2>1 DEF Roots
  <2> QED BY <1>3, <2>2 DEF InputLevels, Uids
<1>5. \A a \in ArcsOf(input) : IsPending(a.source)
  BY <1>2, <1>3, SourcesAreOrdered DEF IsPending
<1>6. \A a \in ArcsOf(input) : IsNode(a.target) => IsUnforwarded(a.target)
  BY <1>2, <1>3 DEF Proper, ArcIsProper, IsUnforwarded, IsAhead, InputLevels
<1>7. LevelsAreLeft
  BY <1>3, <1>4 DEF LevelsAreLeft
<1>8. TerminalsAreUnread /\ InternalsAreUnread
  BY <1>3, <1>5, <1>6 DEF TerminalsAreUnread, InternalsAreUnread
<1>9. QueueHasTheRest
  BY <1>3 DEF QueueHasTheRest, Sources
<1>10. QueueIsAtTheLevel /\ HighComesFirst /\ AllWerePulled /\ NothingIsLeft
  BY <1>3 DEF QueueIsAtTheLevel, HighComesFirst, AllWerePulled, NothingIsLeft
<1> QED BY <1>1, <1>7, <1>8, <1>9, <1>10 DEF ReduceInv

LEMMA StutterKeeps ==
    ASSUME ReduceInv, UNCHANGED vars
    PROVE  ReduceInv'
<1>1. /\ IsDiagram(input)' /\ Uids' = Uids /\ InputLevels' = InputLevels
      /\ ArcsOf(input)' = ArcsOf(input)
  BY InputIsKept DEF vars
<1>2. UNCHANGED <<levels, internal, terminal, pq, pqLevel, phase, label, eHigh,
                  grouping, red1, red2>>
  BY DEF vars, levelVars
<1>3. UidsHere' = UidsHere /\ Got' = Got
  BY <1>1, <1>2 DEF UidsHere, Got
<1>4. \A s : /\ IsPending(s)' <=> IsPending(s)
             /\ IsAhead(s)' <=> IsAhead(s)
             /\ IsUnforwarded(s)' <=> IsUnforwarded(s)
  BY <1>2 DEF IsPending, IsAhead, IsUnforwarded, Got
<1>5. TerminalsAreUnread' /\ InternalsAreUnread' /\ QueueHasTheRest'
  BY <1>2, <1>4, StreamsAreKept DEF vars
<1>6. LevelsAreLeft' /\ QueueIsAtTheLevel' /\ NothingIsLeft'
  BY <1>1, <1>2 DEF ReduceInv, LevelsAreLeft, QueueIsAtTheLevel, NothingIsLeft
<1>7. HighComesFirst' /\ AllWerePulled'
  BY <1>1, <1>2, <1>3 DEF ReduceInv, HighComesFirst, AllWerePulled
<1> QED BY <1>1, <1>5, <1>6, <1>7 DEF ReduceInv

LEMMA NextInv == ReduceInv /\ [Next]_vars => ReduceInv'
<1> SUFFICES ASSUME ReduceInv, [Next]_vars
             PROVE  ReduceInv'
  OBVIOUS
<1>1. CASE UNCHANGED vars
  BY <1>1, StutterKeeps
<1>2. CASE Next
  <2>1. /\ input' = input
        /\ \/ ReduceSingleNode \/ BeginLevel
           \/ PullHigh \/ PullLow \/ EndPulls
           \/ Output \/ EndOutput
           \/ ForwardArc \/ NextMapping \/ EndLevel
           \/ Close \/ Done
    BY <1>2, Zenon DEF Next
  <2>2. CASE ReduceSingleNode
    BY <2>1, <2>2, SingleNodeKeeps
  <2>3. CASE BeginLevel
    BY <2>1, <2>3, BeginLevelKeeps
  <2>4. CASE PullHigh
    BY <2>1, <2>4, PullHighKeeps
  <2>5. CASE PullLow
    BY <2>1, <2>5, PullLowKeeps
  <2>6. CASE EndPulls
    BY <2>1, <2>6, EndPullsKeeps
  <2>7. CASE Output \/ EndOutput
    BY <2>1, <2>7, OutputKeeps
  <2>8. CASE ForwardArc
    BY <2>1, <2>8, ForwardArcKeeps
  <2>9. CASE NextMapping
    BY <2>1, <2>9, NextMappingKeeps
  <2>10. CASE EndLevel
    BY <2>1, <2>10, EndLevelKeeps
  <2>11. CASE Close \/ Done
    BY <2>1, <2>11, CloseKeeps
  <2> QED
    BY <2>1, <2>2, <2>3, <2>4, <2>5, <2>6, <2>7, <2>8, <2>9, <2>10, <2>11
<1> QED BY <1>1, <1>2

(* Between the files of arcs and the queue the sweep has every arc of the  *)
(* input that it still needs, and has none of the others.                  *)
THEOREM SweepKeepsEveryArc == Spec => []ReduceInv
<1>1. Init => ReduceInv
  BY InitInv
<1>2. ReduceInv /\ [Next]_vars => ReduceInv'
  BY NextInv
<1> QED BY <1>1, <1>2, PTL DEF Spec

LEMMA InvMeansSync == ReduceInv => SweepInSync
<1> SUFFICES ASSUME ReduceInv
             PROVE  SweepInSync
  OBVIOUS
<1>0. Proper
  BY DiagramsAreProper DEF ReduceInv
<1>1. ASSUME phase = "pull", eHigh # NoArc
      PROVE  /\ CanPull \/ terminal # {}
             /\ NextArc.source = eHigh.source - OutBit
             /\ LevelOf(eHigh.source) = label
  <2>1. PICK u \in UidsHere : /\ eHigh.source = u + OutBit /\ NextArc.source = u
                              /\ \E a \in ArcsOf(input) : IsHere(a.source)
    BY <1>1, LowIs
  <2>2. u \in Nat /\ LevelOf(u + OutBit) = label
    BY <1>0, UidsAre DEF UidsHere, Proper, UidsAreProper
  <2>3. CanPull \/ terminal # {}
    BY <1>1, <2>1, NextIsLargest
  <2>4. u = (u + OutBit) - OutBit
    BY <2>2 DEF OutBit
  <2> QED BY <2>1, <2>2, <2>3, <2>4
<1>2. ASSUME phase = "forward", internal # {}, red1 \cup red2 # {}
      PROVE  PeekInternal.target <= Mapped.old
  BY <1>2, InStep
<1>3. ASSUME phase = "begin"
      PROVE  /\ \A a \in internal : LevelOf(a.target) \in levels
             /\ \A a \in pq \cup terminal : LevelOf(a.source) \in levels
             /\ pqLevel # NoLabel => levels = {} \/ pqLevel = MaxOf(levels)
  <2>1. \A a \in internal : LevelOf(a.target) \in levels
    BY <1>3 DEF ReduceInv, InternalsAreUnread, IsUnforwarded, IsAhead
  <2>2. \A a \in pq \cup terminal : LevelOf(a.source) \in levels
    BY <1>3, AtHandIsPending DEF IsPending
  <2>3. pqLevel # NoLabel => pqLevel = MaxOf(levels)
    BY <1>3 DEF ReduceInv, LevelsAreLeft, QueueIsAtTheLevel
  <2> QED BY <2>1, <2>2, <2>3
<1>4. phase \in {"close", "done"} => internal = {} /\ terminal = {} /\ pq = {}
  BY DEF ReduceInv, NothingIsLeft
<1> QED BY <1>1, <1>2, <1>3, <1>4 DEF SweepInSync

(* The two arcs of a node come one after the other, whichever of the queue *)
(* and the terminal file each is in; mappings are forwarded in step with   *)
(* the arcs into their nodes; nothing of a level is left when it is done   *)
(* (reduce.h:306-310, 391, 467-477, 596).                                  *)
THEOREM ReduceStaysInSync == Spec => []SweepInSync
BY SweepKeepsEveryArc, InvMeansSync, PTL

-----------------------------------------------------------------------------
(* The size of the queue                                                   *)

(* The arcs of the nodes above a level, as the cut has them.               *)
SourceOf(x) == IF x[2] = "high" THEN x[1].uid + OutBit ELSE x[1].uid
ArcsAcross(l) ==
    {x \in Above(input, l) \X {"low", "high"} : Counted(x[1][x[2]], Above(input, l), "Internal")}

LEMMA CutsAreBounded ==
    ASSUME IsFiniteSet(input)
    PROVE  /\ \A l \in 0 .. Levels : IsFiniteSet(ArcsAcross(l))
           /\ \E b \in Nat : \A l \in 0 .. Levels :
                  CutSize(input, Above(input, l), "Internal") \in 0 .. b
<1> DEFINE P == input \X {"low", "high"}
<1>1. IsFiniteSet(P) /\ Cardinality(P) \in Nat
  <2>1. IsFiniteSet({"low", "high"})
    <3>1. IsFiniteSet({}) /\ {"low", "high"} = ({} \cup {"low"}) \cup {"high"}
      BY FS_EmptySet
    <3> QED BY <3>1, FS_AddElement, Zenon
  <2>2. IsFiniteSet(P)
    BY <2>1, FS_Product, Zenon
  <2> QED BY <2>2, FS_CardinalityType, Zenon
<1>2. ASSUME NEW l \in 0 .. Levels
      PROVE  /\ IsFiniteSet(ArcsAcross(l)) /\ Cardinality(ArcsAcross(l)) \in Nat
             /\ Cardinality(ArcsAcross(l)) <= Cardinality(P)
  <2>1. ArcsAcross(l) \in SUBSET P
    BY DEF ArcsAcross, Above
  <2>2. IsFiniteSet(ArcsAcross(l)) /\ Cardinality(ArcsAcross(l)) <= Cardinality(P)
    BY <1>1, <2>1, FS_Subset, Zenon
  <2> QED BY <2>2, FS_CardinalityType, Zenon
<1>3. PICK b \in Nat : b = Cardinality(P) + 1
  BY <1>1
<1>4. ASSUME NEW l \in 0 .. Levels
      PROVE  CutSize(input, Above(input, l), "Internal") \in 0 .. b
  <2>1. CutSize(input, Above(input, l), "Internal") \in {1, Cardinality(ArcsAcross(l))}
    BY Zenon DEF CutSize, ArcsAcross
  <2> QED BY <1>1, <1>2, <1>3, <2>1
<1> QED BY <1>2, <1>3, <1>4

LEMMA OneLevelCutIs ==
    ASSUME IsFiniteSet(input)
    PROVE  /\ OneLevelCut(input, "Internal") \in Nat
           /\ \A l \in 0 .. Levels :
                  CutSize(input, Above(input, l), "Internal") <= OneLevelCut(input, "Internal")
<1>1. PICK T : T = {CutSize(input, Above(input, l), "Internal") : l \in 0 .. Levels}
  OBVIOUS
<1>2. PICK b \in Nat : T \in SUBSET (0 .. b)
  BY <1>1, CutsAreBounded
<1>3. T # {}
  <2>1. 0 \in 0 .. Levels
    BY DiagramAssumption
  <2> QED BY <1>1, <2>1
<1>4. PICK m \in T : \A k \in T : k <= m
  BY <1>2, <1>3, LargestNumber
<1>5. MaxOf(T) \in T /\ \A k \in T : k <= MaxOf(T)
  BY <1>4, Zenon DEF MaxOf
<1>6. OneLevelCut(input, "Internal") = MaxOf(T)
  BY <1>1, Zenon DEF OneLevelCut
<1>7. MaxOf(T) \in Nat
  <2>1. T \subseteq Nat
    BY <1>2
  <2> QED BY <1>5, <2>1, Zenon
<1>8. \A l \in 0 .. Levels : CutSize(input, Above(input, l), "Internal") <= MaxOf(T)
  <2>1. \A l \in 0 .. Levels : CutSize(input, Above(input, l), "Internal") \in T
    BY <1>1
  <2> QED BY <1>5, <2>1
<1> QED BY <1>6, <1>7, <1>8, Zenon

(* The arcs in the queue cross the level being reduced.                    *)
LEMMA QueueIsAcross ==
    ASSUME ReduceInv, pq # {}
    PROVE  \E l \in 0 .. Levels :
               /\ Above(input, l) # {}
               /\ \A q \in pq : \E x \in ArcsAcross(l) : SourceOf(x) = q.source
<1>0. Proper
  BY DiagramsAreProper DEF ReduceInv
<1>a. InputLevels \subseteq Level /\ Level \subseteq Nat
  BY <1>0, LevelsAreNumbers DEF ReduceInv
<1>1. label \in InputLevels /\ \A k \in InputLevels : k \in levels <=> k < label
  <2>1. phase \notin {"close", "done"}
    BY DEF ReduceInv, NothingIsLeft
  <2>2. phase = "begin" => label # NoLabel
    BY DEF ReduceInv, LevelsAreLeft
  <2> QED BY <2>1, <2>2, Zenon DEF ReduceInv, LevelsAreLeft
<1>2. PICK l \in 0 .. Levels :
          \A k \in InputLevels : k < l <=> k \in levels \/ (phase = "pull" /\ k = label)
  <2>1. label \in 0 .. Levels /\ label + 1 \in 0 .. Levels /\ InputLevels \subseteq Nat
    BY <1>a, <1>1, DiagramAssumption DEF Level
  <2>2. CASE phase = "pull"
    <3>1. \A k \in InputLevels : k < label + 1 <=> k < label \/ k = label
      BY <2>1
    <3> QED BY <1>1, <2>1, <2>2, <3>1
  <2>3. CASE phase # "pull"
    BY <1>1, <2>1, <2>3
  <2> QED BY <2>2, <2>3
<1>3. ASSUME NEW q \in pq
      PROVE  \E x \in ArcsAcross(l) : SourceOf(x) = q.source
  <2>1. PICK a \in ArcsOf(input) :
            a.source = q.source /\ IsNode(a.target) /\ IsPending(a.source)
    BY DEF ReduceInv, QueueHasTheRest
  <2>2. ~IsAhead(a.target)
    <3>1. a \notin internal
      BY <2>1 DEF ReduceInv, QueueHasTheRest, Sources
    <3> QED BY <2>1, <3>1 DEF ReduceInv, InternalsAreUnread
  <2>3. PICK n \in input : a = Arc(n.uid, n.low) \/ a = Arc(n.uid + OutBit, n.high)
    BY ArcsAre
  <2>4. n \in Above(input, l)
    <3>1. n.uid \in Uids
      BY DEF Uids
    <3>2. LevelOf(n.uid + 0) = LevelOf(n.uid) /\ LevelOf(n.uid + OutBit) = LevelOf(n.uid)
      BY <1>0, <3>1 DEF Proper, UidsAreProper
    <3>3. LevelOf(a.source) = LevelOf(n.uid)
      BY <2>3, <3>2 DEF Arc
    <3>4. LevelOf(n.uid) < l
      BY <1>2, <2>1, <3>1, <3>3 DEF IsPending, InputLevels
    <3> QED BY <3>4 DEF Above
  <2>5. \A m \in Above(input, l) : m.uid # a.target
    <3>1. SUFFICES ASSUME NEW m \in Above(input, l), m.uid = a.target
                   PROVE  FALSE
      OBVIOUS
    <3>2. LevelOf(a.target) \in InputLevels /\ LevelOf(a.target) < l
      BY <3>1 DEF Above, InputLevels, Uids
    <3> QED BY <1>2, <2>2, <3>2 DEF IsAhead
  <2>6. CASE a = Arc(n.uid, n.low)
    <3>1. PICK x : x = <<n, "low">>
      OBVIOUS
    <3>2. x[1][x[2]] = a.target /\ SourceOf(x) = a.source
      BY <2>6, <3>1 DEF SourceOf, Arc
    <3>3. x \in ArcsAcross(l)
      BY <2>1, <2>4, <2>5, <3>1, <3>2 DEF ArcsAcross, Counted
    <3> QED BY <2>1, <3>2, <3>3
  <2>7. CASE a = Arc(n.uid + OutBit, n.high)
    <3>1. PICK x : x = <<n, "high">>
      OBVIOUS
    <3>2. x[1][x[2]] = a.target /\ SourceOf(x) = a.source
      BY <2>7, <3>1 DEF SourceOf, Arc
    <3>3. x \in ArcsAcross(l)
      BY <2>1, <2>4, <2>5, <3>1, <3>2 DEF ArcsAcross, Counted
    <3> QED BY <2>1, <3>2, <3>3
  <2> QED BY <2>3, <2>6, <2>7
<1>4. Above(input, l) # {}
  <2>1. PICK q \in pq : TRUE
    OBVIOUS
  <2>2. PICK x \in ArcsAcross(l) : TRUE
    BY <1>3, <2>1
  <2> QED BY <2>2 DEF ArcsAcross
<1> QED BY <1>3, <1>4

LEMMA InvMeansWithinCut == ReduceInv => QueueWithinCut
<1> SUFFICES ASSUME ReduceInv
             PROVE  QueueWithinCut
  OBVIOUS
<1>1. IsFiniteSet(input)
  BY DEF ReduceInv, IsDiagram
<1>2. CASE pq = {}
  <2>1. Cardinality(pq) = 0
    BY <1>2, FS_EmptySet
  <2> QED BY <1>1, <2>1, OneLevelCutIs DEF QueueWithinCut
<1>3. CASE pq # {}
  <2>1. PICK l \in 0 .. Levels :
            /\ Above(input, l) # {}
            /\ \A q \in pq : \E x \in ArcsAcross(l) : SourceOf(x) = q.source
    BY <1>3, QueueIsAcross
  <2> DEFINE f == [q \in pq |-> CHOOSE x \in ArcsAcross(l) : SourceOf(x) = q.source]
  <2>2. \A q \in pq : f[q] \in ArcsAcross(l) /\ SourceOf(f[q]) = q.source
    BY <2>1
  <2>3. f \in [pq -> ArcsAcross(l)]
    BY <2>2
  <2> HIDE DEF f
  <2>4. \A q, r \in pq : f[q] = f[r] => q = r
    <3>1. \A q, r \in pq : q.source = r.source => q = r
      BY DEF ReduceInv, QueueHasTheRest
    <3> QED BY <2>2, <3>1
  <2>5. f \in Injection(pq, ArcsAcross(l))
    BY <2>3, <2>4, Fun_IsInj
  <2>6. IsFiniteSet(ArcsAcross(l))
    BY <1>1, CutsAreBounded
  <2>7. /\ IsFiniteSet(pq) /\ Cardinality(pq) \in Nat /\ Cardinality(ArcsAcross(l)) \in Nat
        /\ Cardinality(pq) <= Cardinality(ArcsAcross(l))
    BY <2>5, <2>6, FS_Injection, FS_CardinalityType, Zenon
  <2>8. CutSize(input, Above(input, l), "Internal") = Cardinality(ArcsAcross(l))
    BY <2>1, Zenon DEF CutSize, ArcsAcross
  <2>9. /\ OneLevelCut(input, "Internal") \in Nat
        /\ CutSize(input, Above(input, l), "Internal") <= OneLevelCut(input, "Internal")
    BY <1>1, OneLevelCutIs
  <2> QED BY <2>7, <2>8, <2>9 DEF QueueWithinCut
<1> QED BY <1>2, <1>3

(* The queue never holds more than the 1-level cut of the input, the size  *)
(* it is allocated with (reduce.h:584).                                    *)
THEOREM ReduceQueueWithinCut == Spec => []QueueWithinCut
BY SweepKeepsEveryArc, InvMeansWithinCut, PTL

-----------------------------------------------------------------------------
(* The sweep as a client of the queue                                      *)

(* The elements of the queue are told apart by the sources of their arcs.  *)
LEMMA QueuedIs ==
    ASSUME ReduceInv
    PROVE  \A a, c \in ArcsOf(input) : \A q, r : q.source = a.source /\ r.source = c.source =>
               /\ Queued(q).level = Upward(LevelOf(a.source))
               /\ Queued(q).key \in Int
               /\ Queued(q) = Queued(r) <=> a.source = c.source
               /\ Queued(q).key <= Queued(r).key <=> c.source <= a.source
<1>0. Proper
  BY DiagramsAreProper DEF ReduceInv
<1>1. PICK t \in Nat : t = Uid(Levels, 0)
  BY DiagramAssumption, UidIs
<1>2. SUFFICES ASSUME NEW a \in ArcsOf(input), NEW c \in ArcsOf(input), NEW q, NEW r,
                      q.source = a.source, r.source = c.source
               PROVE  /\ Queued(q).level = Upward(LevelOf(a.source))
                      /\ Queued(q).key \in Int
                      /\ Queued(q) = Queued(r) <=> a.source = c.source
                      /\ Queued(q).key <= Queued(r).key <=> c.source <= a.source
  OBVIOUS
<1>3. a.source \in Nat /\ c.source \in Nat
  BY <1>0, SourcesAreOrdered
<1>4. /\ Queued(q) = [level |-> Upward(LevelOf(a.source)), key |-> t - a.source]
      /\ Queued(r) = [level |-> Upward(LevelOf(c.source)), key |-> t - c.source]
  BY <1>1, <1>2, Zenon DEF Queued
<1>5. Queued(q).key = t - a.source /\ Queued(r).key = t - c.source
  BY <1>4
<1>6. Queued(q) = Queued(r) => a.source = c.source
  BY <1>3, <1>5
<1>7. a.source = c.source => Queued(q) = Queued(r)
  BY <1>4
<1> QED BY <1>3, <1>4, <1>5, <1>6, <1>7

LEMMA TakingIsAbsPull ==
    ASSUME ReduceInv, phase = "pull", TakeNextArc, ~TakesTerminal, NEW b \in ArcsOf(input),
           IsHere(b.source), pqLevel' = pqLevel
    PROVE  Q!AbsPull
<1>0. Proper
  BY DiagramsAreProper DEF ReduceInv
<1>1. PICK q : q = QueueTop /\ q \in AtLevel /\ \A a \in AtLevel : a.source <= q.source
  <2>1. \A a \in AtLevel : \E u \in Uids, x \in {0, OutBit} : a.source = u + x
    BY AtHandIsPending DEF AtLevel
  <2>2. AtLevel # {}
    BY DEF TakesTerminal, CanPull
  <2> QED BY <1>0, <2>1, <2>2, LargestSourceIs DEF QueueTop
<1>2. pq' = pq \ {q} /\ q \in pq
  BY <1>1 DEF TakeNextArc, AtLevel
<1>3. \A a \in pq : \E c \in ArcsOf(input) : c.source = a.source
  BY AtHandIsPending
<1>4. \A a, c \in pq : /\ Queued(a).level = Upward(LevelOf(a.source))
                       /\ Queued(a) = Queued(c) => a = c
                       /\ a.source <= c.source => Queued(c).key <= Queued(a).key
  <2>1. \A a, c \in pq : a.source = c.source => a = c
    BY DEF ReduceInv, QueueHasTheRest
  <2> QED BY <1>3, <2>1, QueuedIs
<1>5. \A a \in pq : Upward(LevelOf(a.source)) = Upward(pqLevel) => a \in AtLevel
  <2>1. pqLevel \in Level
    <3>1. pqLevel = LevelOf(q.source)
      BY <1>1 DEF AtLevel
    <3> QED BY <1>0, <1>2, <1>3, <3>1, SourcesAreOrdered
  <2>2. \A a \in pq : LevelOf(a.source) \in Level
    BY <1>0, <1>3, SourcesAreOrdered
  <2>3. \A k \in Level : Upward(k) = Upward(pqLevel) => k = pqLevel
    BY <2>1, UpwardIs
  <2> QED BY <2>2, <2>3 DEF AtLevel
<1>6. {Queued(a) : a \in pq'} = {Queued(a) : a \in pq} \ {Queued(q)}
  BY <1>2, <1>4
<1>7. Queued(q) \in Q!AtLevel(Upward(pqLevel))
  <2>1. Queued(q).level = Upward(pqLevel)
    BY <1>1, <1>2, <1>4 DEF AtLevel
  <2> QED BY <1>2, <2>1 DEF Q!AtLevel
<1>8. \A f \in Q!AtLevel(Upward(pqLevel)) : Queued(q).key <= f.key
  BY <1>1, <1>2, <1>4, <1>5 DEF Q!AtLevel
<1>9. Upward(pqLevel)' = Upward(pqLevel)
  BY DEF Upward
<1> QED BY <1>6, <1>7, <1>8, <1>9, Zenon DEF Q!AbsPull

LEMMA ForwardingIsAbsPush ==
    ASSUME ReduceInv, ForwardArc
    PROVE  \E e \in {Queued(Arc(Uid(l, i) + x, Nil)) :
                         l \in Level, i \in 0 .. MaxId, x \in {0, OutBit}} : Q!AbsPush(e)
<1>0. Proper
  BY DiagramsAreProper DEF ReduceInv
<1>a. /\ phase = "forward" /\ red1 \cup red2 # {} /\ internal # {} /\ pqLevel' = pqLevel
      /\ PeekInternal.target = Mapped.old
  BY DEF ForwardArc, Forwards, levelVars
<1>1. PICK a \in internal : a = PeekInternal /\ a.target = Mapped.old
  BY <1>a, InStep
<1>2. PICK q : q.source = a.source /\ pq' = pq \cup {q}
  <2>1. PICK p : p = IF IsRed1 THEN Flag(Mapped.new) ELSE Mapped.new
    OBVIOUS
  <2>2. pq' = pq \cup {Arc(a.source, p)}
    BY <1>1, <2>1, Zenon DEF ForwardArc
  <2>3. Arc(a.source, p).source = a.source
    BY DEF Arc
  <2> QED BY <2>2, <2>3
<1>3. a \in ArcsOf(input) /\ IsNode(a.target)
  BY DEF ReduceInv, InternalsAreUnread
<1>4. LevelOf(a.source) \in Level /\ LevelOf(a.source) < label /\ label \in Level
  <2>1. LevelOf(a.target) = label
    BY <1>1, <1>a, InStep DEF UidsHere
  <2> QED BY <1>0, <1>3, <1>a, <2>1, SourcesAreOrdered, LevelsAreNumbers
          DEF ReduceInv, Proper, ArcIsProper
<1>5. LevelOf(a.source) \in levels
  BY <1>0, <1>3, <1>4, <1>a, SourcesAreOrdered DEF ReduceInv, LevelsAreLeft
<1>6. \A b \in pq : b.source # a.source
  <2>1. IsPending(a.source)
    BY <1>5 DEF IsPending
  <2> QED BY <1>3, <2>1 DEF ReduceInv, QueueHasTheRest, Sources
<1>7. PICK e : e = Queued(q)
  OBVIOUS
<1>8. e \notin {Queued(b) : b \in pq}
  <2>1. \A b \in pq : \E c \in ArcsOf(input) : c.source = b.source
    BY AtHandIsPending
  <2> QED BY <1>2, <1>3, <1>6, <1>7, <2>1, QueuedIs
<1>9. e.level > Upward(pqLevel)
  <2>1. e.level = Upward(LevelOf(a.source))
    BY <1>2, <1>3, <1>7, QueuedIs
  <2>2. pqLevel \in {label, NoLabel}
    BY <1>a DEF ReduceInv, QueueIsAtTheLevel
  <2>3. Upward(LevelOf(a.source)) \in Nat /\ Upward(label) \in Nat
        /\ Upward(label) < Upward(LevelOf(a.source))
    BY <1>4, UpwardIs
  <2> QED BY <2>1, <2>2, <2>3, UpwardIs
<1>10. {Queued(b) : b \in pq'} = {Queued(b) : b \in pq} \cup {e}
  BY <1>2, <1>7
<1>11. Upward(pqLevel)' = Upward(pqLevel)
  BY <1>a DEF Upward
<1>12. Q!AbsPush(e)
  BY <1>8, <1>9, <1>10, <1>11, Zenon DEF Q!AbsPush
<1>13. e \in {Queued(Arc(Uid(l, i) + x, Nil)) :
                  l \in Level, i \in 0 .. MaxId, x \in {0, OutBit}}
  <2>1. PICK u \in Uids, x \in {0, OutBit} : a.source = u + x
    BY <1>0, <1>3 DEF Proper, ArcIsProper
  <2>2. PICK l \in Level, i \in 0 .. MaxId : u = Uid(l, i)
    BY NodesAreProper DEF ReduceInv, Uids
  <2>3. Arc(Uid(l, i) + x, Nil).source = q.source
    BY <1>2, <2>1, <2>2 DEF Arc
  <2>4. Queued(Arc(Uid(l, i) + x, Nil)) = e
    BY <1>7, <2>3, Zenon DEF Queued
  <2> QED BY <2>4
<1> QED BY <1>12, <1>13

LEMMA EndingIsAbsAdvance ==
    ASSUME ReduceInv, EndLevel, pq # {}
    PROVE  \E s \in {Upward(l) : l \in Level} \cup {NoLabel} : Q!AbsAdvance(s)
<1>0. Proper
  BY DiagramsAreProper DEF ReduceInv
<1>a. /\ phase = "forward" /\ red1 \cup red2 = {} /\ pq' = pq
      /\ pqLevel' = Upward(Q!Target(StopLevel))
  BY DEF EndLevel
<1>1. levels # {}
  BY <1>a, LevelIsDone
<1>2. levels \subseteq Level
  BY <1>0, LevelsAreNumbers DEF ReduceInv
<1>3. PICK M \in Level : M = MaxOf(levels)
  BY <1>1, <1>2, LastLevelIs
<1>4. /\ Q!Target(StopLevel) = Upward(M) /\ Q!AtLevel(Upward(pqLevel)) = {}
      /\ Upward(pqLevel) < Upward(M)
  BY <1>1, <1>3, <1>a, QueueAdvances
<1>5. Upward(M) \in Int /\ Upward(pqLevel) \in Int
  <2>1. pqLevel \in Level \cup {NoLabel}
    BY DEF ReduceInv, QueueIsAtTheLevel
  <2>2. \A l \in Level : Upward(l) \in Int
    <3>1. Level \subseteq Int
      BY DEF Level
    <3> QED BY <3>1, UpwardIs
  <2>3. Upward(NoLabel) \in Int
    BY UpwardIs
  <2> QED BY <2>1, <2>2, <2>3
<1>6. Upward(pqLevel)' = Upward(M)
  <2>1. pqLevel' = Upward(Upward(M)) /\ Upward(Upward(M)) = M
    BY <1>4, <1>a, UpwardIs
  <2> QED BY <2>1 DEF Upward
<1>7. PICK q \in pq : TRUE
  OBVIOUS
<1>8. {Queued(a) : a \in pq} # {} /\ {Queued(a) : a \in pq'} = {Queued(a) : a \in pq}
  BY <1>7, <1>a
<1>9. Upward(M) > Upward(pqLevel)
  BY <1>4, <1>5
<1>10. Q!AbsAdvance(StopLevel)
  BY <1>4, <1>6, <1>8, <1>9, Zenon DEF Q!AbsAdvance
<1>11. StopLevel \in {Upward(l) : l \in Level} \cup {NoLabel}
  BY <1>2, <1>a, StopLevelIs
<1> QED BY <1>10, <1>11

LEMMA StepsKeepToTheQueue ==
    ASSUME ReduceInv, [Next]_vars
    PROVE  [Q!AbsNext]_(Q!avars)
<1>1. ASSUME UNCHANGED <<pq, pqLevel>>
      PROVE  UNCHANGED Q!avars
  <2>1. {Queued(a) : a \in pq'} = {Queued(a) : a \in pq} /\ Upward(pqLevel)' = Upward(pqLevel)
    BY <1>1 DEF Upward
  <2> QED BY <2>1, Zenon DEF Q!avars
<1>2. CASE UNCHANGED vars
  BY <1>1, <1>2 DEF vars
<1>3. CASE PullHigh \/ PullLow
  <2>1. /\ phase = "pull" /\ TakeNextArc /\ pqLevel' = pqLevel
        /\ eHigh = NoArc => MorePulls
    BY <1>3 DEF PullHigh, PullLow
  <2>2. PICK b \in ArcsOf(input) : IsHere(b.source)
    BY <2>1, NoneIsHere, LowIs
  <2>3. CASE TakesTerminal
    <3>1. UNCHANGED <<pq, pqLevel>>
      BY <2>1, <2>3 DEF TakeNextArc
    <3> QED BY <1>1, <3>1
  <2>4. CASE ~TakesTerminal
    BY <2>1, <2>2, <2>4, TakingIsAbsPull DEF Q!AbsNext
  <2> QED BY <2>3, <2>4
<1>4. CASE ForwardArc
  <2>1. PICK e \in {Queued(Arc(Uid(l, i) + x, Nil)) :
                       l \in Level, i \in 0 .. MaxId, x \in {0, OutBit}} : Q!AbsPush(e)
    BY <1>4, ForwardingIsAbsPush
  <2>2. Q!AbsNext
    BY <2>1 DEF Q!AbsNext
  <2> QED BY <2>2
<1>5. CASE EndLevel
  <2>1. CASE pq = {}
    <3>1. UNCHANGED <<pq, pqLevel>>
      BY <1>5, <2>1 DEF EndLevel
    <3> QED BY <1>1, <3>1
  <2>2. CASE pq # {}
    <3>1. PICK s \in {Upward(l) : l \in Level} \cup {NoLabel} : Q!AbsAdvance(s)
      BY <1>5, <2>2, EndingIsAbsAdvance
    <3>2. Q!AbsNext
      BY <3>1 DEF Q!AbsNext
    <3> QED BY <3>2
  <2> QED BY <2>1, <2>2
<1>6. CASE ReduceSingleNode \/ BeginLevel \/ EndPulls
  <2>1. UNCHANGED <<pq, pqLevel>>
    BY <1>6 DEF ReduceSingleNode, BeginLevel, EndPulls
  <2> QED BY <1>1, <2>1
<1>7. CASE Output \/ EndOutput \/ NextMapping \/ Close \/ Done
  <2>1. UNCHANGED <<pq, pqLevel>>
    BY <1>7 DEF Output, EndOutput, NextMapping, Close, Done
  <2> QED BY <1>1, <2>1
<1> QED BY <1>2, <1>3, <1>4, <1>5, <1>6, <1>7, Zenon DEF Next

(* The sweep uses the levelized priority queue as LevelizedQueue allows:   *)
(* it only pushes to levels still to come, pulls what is least, and only   *)
(* moves on from a level that is empty.                                    *)
THEOREM ReduceKeepsToTheQueue == Spec => KeepsToTheQueue
<1>1. Init => Q!AbsInit
  <2> SUFFICES ASSUME Init
               PROVE  Q!AbsInit
    OBVIOUS
  <2>1. {Queued(a) : a \in pq} = {} /\ Upward(pqLevel) = NoLabel
    BY UpwardIs DEF Init
  <2> QED BY <2>1, Zenon DEF Q!AbsInit
<1>2. ReduceInv /\ [Next]_vars => [Q!AbsNext]_(Q!avars)
  BY StepsKeepToTheQueue
<1> QED BY <1>1, <1>2, SweepKeepsEveryArc, PTL DEF Spec, KeepsToTheQueue, Q!AbsSpec

-----------------------------------------------------------------------------
(* The invariant of what the output means.  Every pointer the sweep holds, *)
(* flagged or not, stands for one of the input: they denote the same       *)
(* function, its variables renamed.  Whatever is written is, at all times, *)
(* tidy: all that NumberedDiagramIsCanonical asks for but a root.          *)

(* A function with its variables renamed.                                  *)
Renamed(kind, map, f) ==
    IF kind THEN {{map[l] : l \in x} : x \in f}
    ELSE {x \in SUBSET Level : {l \in DOMAIN map : map[l] \in x} \cup (Level \ DOMAIN map) \in f}

(* A pointer of the output that denotes what one of the input does.        *)
Stands(kind, map, in, N, q, p) ==
    /\ q \in PointersAt(N, 0)
    /\ DenotesOf(kind, N, q) = Renamed(kind, map, DenotesOf(kind, in, p))

(* What rule 1 asks of a node, flags aside.                                *)
IsRedundant(kind, low, high) == IF kind THEN IsFalse(high) ELSE low = high

(* The node m of the input has its place in the output: that of a child by *)
(* rule 1, or a node with the children that stand for those of m.          *)
Settled(kind, map, in, N, m) ==
    \E q, low, high \in PointersAt(N, 0) :
        /\ Stands(kind, map, in, N, q, m.uid)
        /\ Stands(kind, map, in, N, low, m.low)
        /\ Stands(kind, map, in, N, high, m.high)
        /\ (IsRedundant(kind, low, high) /\ q = low) \/ Node(q, low, high) \in N

(* An arc whose target, flagged or not, stands for the one it had.         *)
Carries(kind, map, in, N, a) ==
    \E c \in ArcsOf(in), q \in PointersAt(N, 0) :
        /\ c.source = a.source
        /\ Stands(kind, map, in, N, q, c.target)
        /\ a.target \in {q, Flag(q)}

(* A node put together from the arcs of m that rule 1 leaves.              *)
GatheredFrom(kind, map, in, N, l, n, m) ==
    \E low, high \in PointersAt(N, l + 1) :
        /\ Stands(kind, map, in, N, low, m.low)
        /\ Stands(kind, map, in, N, high, m.high)
        /\ n = Node(m.uid, n.low, n.high)
        /\ n.low \in {low, Flag(low)} /\ n.high \in {high, Flag(high)}
        /\ ~IsRedundant(kind, low, high)

(* Reduced, in the order and with the identifiers of a canonical diagram.  *)
Tidy(N) == PlainDiagram(N) /\ Reduced(N) /\ IsOrdered(N) /\ IsContiguous(N)

Out == NodesOf(w.file)
OutUids == {n.uid : n \in Out}
WidthOf(in, l) == Cardinality(OnLevel(in, l))

(* Of the job, what JobsAssumption says.                                   *)
TheJob ==
    /\ zdd \in BOOLEAN
    /\ DOMAIN mapLevel \subseteq Level
    /\ \A l \in DOMAIN mapLevel : mapLevel[l] \in Level
    /\ \A l, m \in DOMAIN mapLevel : l < m => mapLevel[l] < mapLevel[m]
    /\ \A n \in input : LevelOf(n.uid) \in DOMAIN mapLevel
    /\ KeepsApart(mapLevel, input)

FileFields == {"nodes", "levels", "sorted", "indexable", "width", "terminals", "cut1", "cut2"}
HasFields(x) ==
    /\ {"open", "file", "latest"} \subseteq DOMAIN x
    /\ FileFields \subseteq DOMAIN x.file
    /\ x.file.nodes \in Seq(NodeRecord)

(* The writer keeps its flags, for it is never pushed to with its checking *)
(* push; uids fall, and no level is without a node.                        *)
TheWriter ==
    /\ HasFields(w)
    /\ w.file.sorted /\ w.file.indexable
    /\ phase # "done" => w.open /\ w.latest = Dummy
    /\ UidsFall(w.file.nodes)
    /\ phase \in {"begin", "pull", "output", "forward"} =>
           (w.file.nodes = <<>> => w.file.levels = <<>>)
    /\ phase = "begin" /\ label = NoLabel => w.file.nodes = <<>>

Sweeping == phase \in {"begin", "pull", "output", "forward"}

(* The output node is from a level that was reduced, one of those with the *)
(* largest identifiers.                                                    *)
IsFrom(n, m) ==
    /\ LevelOf(m.uid) \notin levels /\ (phase = "pull" => LevelOf(m.uid) # label)
    /\ LevelOf(n.uid) = mapLevel[LevelOf(m.uid)]
    /\ IdOf(n.uid) + WidthOf(input, LevelOf(m.uid)) > MaxId

OutIsTidy ==
    /\ Tidy(Out)
    /\ \A n \in Out : \E m \in input : IsFrom(n, m)
    /\ \A n \in Out : \E m \in input : Stands(zdd, mapLevel, input, Out, n.uid, m.uid)

(* A node is done once the mapping of it is known, and it is settled then. *)
IsDone(u) ==
    /\ LevelOf(u) \notin levels
    /\ phase \in {"pull", "output"} /\ LevelOf(u) = label => \E x \in red1 \cup red2 : x.old = u

DoneIsSettled ==
    \A m \in input : IsDone(m.uid) => Settled(zdd, mapLevel, input, Out, m)

(* Arcs in the queue, and the one taken from it, carry what they should.   *)
ArcsCarry ==
    /\ \A a \in pq : Carries(zdd, mapLevel, input, Out, a)
    /\ phase = "pull" /\ eHigh # NoArc => Carries(zdd, mapLevel, input, Out, eHigh)

(* Mappings lead to what stands for the node, those of rule 2 to nodes.    *)
MappingsStand ==
    phase \in {"pull", "output", "forward"} =>
        /\ \A x \in red1 \cup red2 : Stands(zdd, mapLevel, input, Out, x.new, x.old)
        /\ \A x \in red2 : x.new \in OutUids
        /\ phase = "pull" => red2 = {}

(* What rule 1 leaves comes from the input, each node once.                *)
IsGathered ==
    phase \in {"pull", "output"} =>
        /\ \A n \in grouping : \E m \in input :
               GatheredFrom(zdd, mapLevel, input, Out, mapLevel[label], n, m)
        /\ \A n, m \in grouping : n.uid = m.uid => n = m

(* With nothing in the output yet, the last mapping tells what the root    *)
(* became.                                                                 *)
SomeMapping ==
    phase = "forward" =>
        \/ Out # {} \/ red1 \cup red2 # {}
        \/ lastRed1.old \in UidsHere /\ Stands(zdd, mapLevel, input, Out, lastRed1.new, lastRed1.old)

(* The order of the sorter: n has no larger children than the last node.   *)
ComesNext(n) ==
    \/ outNode.high > Unflag(n.high)
    \/ outNode.high = Unflag(n.high) /\ outNode.low >= Unflag(n.low)

(* Within a level identifiers go down with the nodes output, of which      *)
(* there are no more than the level of the input has.                      *)
Numbering ==
    phase = "output" =>
        /\ outId \in -1 .. MaxId
        /\ IsFiniteSet(grouping)
        /\ Cardinality(grouping) + (MaxId - outId) <= WidthOf(input, label)
        /\ outId = MaxId => /\ outNode = NoNode
                            /\ \A n \in Out : mapLevel[label] < LevelOf(n.uid)
        /\ outId < MaxId => /\ outNode \in Out /\ outNode.uid = Uid(mapLevel[label], outId + 1)
                            /\ \A n \in Out : n = outNode \/ n.uid > outNode.uid
        /\ \A n \in grouping : ComesNext(n)

AtStart == phase = "pull" => outId = MaxId /\ outNode = NoNode

CanonInv ==
    /\ TheJob /\ TheWriter
    /\ Sweeping => /\ OutIsTidy /\ DoneIsSettled /\ ArcsCarry /\ MappingsStand
                   /\ IsGathered /\ SomeMapping /\ Numbering /\ AtStart
    /\ ~Sweeping => Out = CanonicalNodes(Function)

-----------------------------------------------------------------------------
(* Pointers and their flags                                                *)

LEMMA TerminalNumbers ==
    \E t, m \in Nat : /\ t = Terminal(FALSE) /\ t + 2 = Terminal(TRUE) /\ m = Nil
                      /\ t % 4 = 0 /\ t + 4 <= m
<1>1. PICK t \in Nat : t = Uid(Levels, 0) /\ t % 4 = 0
  BY DiagramAssumption, UidIs
<1>2. PICK m \in Nat : m = Uid(Levels + 1, 0) /\ m % 4 = 0 /\ t < m
  <2>1. Levels \in Nat /\ Levels + 1 \in Nat /\ 0 \in 0 .. MaxId /\ Levels < Levels + 1
    BY DiagramAssumption
  <2>2. Uid(Levels + 1, 0) \in Nat /\ Uid(Levels + 1, 0) % 4 = 0
    BY <2>1, UidIs
  <2>3. Uid(Levels, 0) < Uid(Levels + 1, 0)
    BY <2>1, UidsAreOrdered
  <2> QED BY <1>1, <2>2, <2>3
<1>3. t + 4 <= m
  BY <1>1, <1>2
<1>4. t = Terminal(FALSE) /\ t + 2 = Terminal(TRUE) /\ m = Nil
  BY <1>1, <1>2 DEF Terminal, Nil
<1> QED BY <1>1, <1>2, <1>3, <1>4, Zenon

(* The pointer t is to false if its number is that of the terminal.        *)
FlagsAside(q) ==
    /\ q \in Nat /\ q < Nil /\ q \in 0 .. Nil
    /\ Essential(q) = q /\ Unflag(q) = q
    /\ Flag(q) \in Nat /\ Flag(q) < Nil
    /\ Essential(Flag(q)) = q /\ Unflag(Flag(q)) = q
    /\ IsFalse(q) <=> q = Terminal(FALSE)
    /\ IsFalse(Flag(q)) <=> q = Terminal(FALSE)
    /\ \A u \in Nat : u % 4 = 0 => Flag(q) # u

LEMMA FlagIs ==
    ASSUME NEW q \in Nat, q % 2 = 0
    PROVE  /\ Flag(q) = q + 1 /\ Flag(q) \in Nat
           /\ Unflag(q) = q /\ Unflag(q + 1) = q
           /\ \A u \in Nat : u % 4 = 0 => q + 1 # u
  BY DEF Flag, Unflag

LEMMA BelowTerminals ==
    ASSUME NEW t \in Nat, NEW m \in Nat, t + 4 <= m, NEW q \in Nat, q % 4 = 0, q + 3 < t
    PROVE  /\ q % 2 = 0 /\ q < m /\ q + 1 < m /\ q \in 0 .. m /\ q < t /\ q + 1 < t
           /\ ~(t <= q) /\ ~(t <= q + 1) /\ q # t
OBVIOUS

LEMMA AboveNodes ==
    ASSUME NEW t \in Nat, NEW m \in Nat, t + 4 <= m, t % 4 = 0, NEW q, q = t \/ q = t + 2
    PROVE  /\ q % 2 = 0 /\ q < m /\ q + 1 < m /\ q \in 0 .. m /\ t <= q /\ t <= q + 1
           /\ ~(q < t) /\ ~(q + 1 < t) /\ q \in Nat /\ (q = t <=> q # t + 2)
           /\ \A u \in Nat : u + 3 < t => u < q
OBVIOUS

LEMMA NodeFlags ==
    ASSUME NEW q \in Nat, q % 4 = 0, q + 3 < Terminal(FALSE)
    PROVE  FlagsAside(q)
<1>1. PICK t, m \in Nat : /\ t = Terminal(FALSE) /\ t + 2 = Terminal(TRUE) /\ m = Nil
                          /\ t % 4 = 0 /\ t + 4 <= m
  BY TerminalNumbers
<1>2. q + 3 < t
  BY <1>1, Zenon
<1>4. /\ q % 2 = 0 /\ q < m /\ q + 1 < m /\ q \in 0 .. m /\ q < t /\ q + 1 < t
      /\ ~(t <= q) /\ ~(t <= q + 1) /\ q # t
  BY <1>1, <1>2, BelowTerminals, Zenon
<1>3. /\ Flag(q) = q + 1 /\ Flag(q) \in Nat /\ Unflag(q) = q /\ Unflag(q + 1) = q
      /\ \A u \in Nat : u % 4 = 0 => q + 1 # u
  BY <1>4, FlagIs, Zenon
<1>5. IsNode(q) /\ IsNode(q + 1) /\ ~IsTerminal(q) /\ ~IsTerminal(q + 1)
  BY <1>1, <1>4, Zenon DEF IsNode, IsTerminal
<1>6. q - (q % 4) = q /\ (q + 1) - ((q + 1) % 4) = q
  OBVIOUS
<1>7. Essential(q) = q /\ Essential(q + 1) = q
  BY <1>5, <1>6, Zenon DEF Essential
<1> QED BY <1>1, <1>3, <1>4, <1>5, <1>7, Zenon DEF FlagsAside, IsFalse

LEMMA TerminalFlags ==
    ASSUME NEW v \in BOOLEAN
    PROVE  FlagsAside(Terminal(v)) /\ Flag(Terminal(v)) \notin {u \in Nat : u % 4 = 0}
           /\ \A u \in Nat : u + 3 < Terminal(FALSE) => u < Terminal(v)
<1>1. PICK t, m \in Nat : /\ t = Terminal(FALSE) /\ t + 2 = Terminal(TRUE) /\ m = Nil
                          /\ t % 4 = 0 /\ t + 4 <= m
  BY TerminalNumbers
<1>2. PICK q : q = Terminal(v) /\ (q = t \/ q = t + 2)
  <2>1. v = TRUE \/ v = FALSE
    OBVIOUS
  <2> QED BY <1>1, <2>1, Zenon
<1>8. t % 4 = 0 /\ t + 4 <= m /\ (q = t \/ q = t + 2)
  BY <1>1, <1>2, Zenon
<1>3. /\ q % 2 = 0 /\ q < m /\ q + 1 < m /\ q \in 0 .. m /\ t <= q /\ t <= q + 1
      /\ ~(q < t) /\ ~(q + 1 < t) /\ q \in Nat /\ (q = t <=> q # t + 2)
      /\ \A u \in Nat : u + 3 < t => u < q
  BY <1>8, AboveNodes
<1>4. /\ Flag(q) = q + 1 /\ Flag(q) \in Nat /\ Unflag(q) = q /\ Unflag(q + 1) = q
      /\ \A u \in Nat : u % 4 = 0 => q + 1 # u
  BY <1>3, FlagIs, Zenon
<1>5. ~IsNode(q) /\ ~IsNode(q + 1) /\ IsTerminal(q) /\ IsTerminal(q + 1)
  BY <1>1, <1>3, Zenon DEF IsNode, IsTerminal
<1>6. Essential(q) = q /\ Essential(q + 1) = q
  BY <1>4, <1>5, Zenon DEF Essential
<1>7. (IsFalse(q) <=> q = t) /\ (IsFalse(q + 1) <=> q = t)
  <2>1. Value(q) <=> q = t + 2
    BY <1>1, <1>4, Zenon DEF Value
  <2>2. Value(q + 1) <=> q = t + 2
    BY <1>1, <1>4, Zenon DEF Value
  <2> QED BY <1>3, <1>5, <2>1, <2>2, Zenon DEF IsFalse
<1>9. FlagsAside(q)
  BY <1>1, <1>3, <1>4, <1>6, <1>7, Zenon DEF FlagsAside
<1> QED BY <1>1, <1>2, <1>3, <1>4, <1>9, Zenon

LEMMA PlainPointers ==
    ASSUME NEW N, PlainDiagram(N), NEW q \in PointersAt(N, 0)
    PROVE  /\ FlagsAside(q)
           /\ (\E v \in BOOLEAN : q = Terminal(v)) \/ (\E n \in N : q = n.uid)
<1>1. CASE \E v \in BOOLEAN : q = Terminal(v)
  BY <1>1, TerminalFlags
<1>2. CASE \E n \in N : q = n.uid
  <2>1. PICK n \in N : q = n.uid
    BY <1>2
  <2>2. FlagsAside(n.uid)
    BY PlainNodes, NodeFlags
  <2> QED BY <2>1, <2>2
<1> QED BY <1>1, <1>2 DEF PointersAt

LEMMA PointersOf ==
    ASSUME NEW N, PlainDiagram(N)
    PROVE  /\ \A v \in BOOLEAN : Terminal(v) \in PointersAt(N, 0)
           /\ \A n \in N : n.uid \in PointersAt(N, 0) /\ n.low \in PointersAt(N, 0) /\ n.high \in PointersAt(N, 0)
           /\ \A l \in Nat : PointersAt(N, l) \subseteq PointersAt(N, 0)
<1>1. \A n \in N : LevelOf(n.uid) \in Nat /\ LevelOf(n.uid) >= 0
  <2>1. \A n \in N : LevelOf(n.uid) \in Nat
    BY PlainNodes
  <2> QED BY <2>1
<1>2. \A n \in N : n.uid \in PointersAt(N, 0)
  BY <1>1 DEF PointersAt
<1>3. \A l : PointersAt(N, l) \subseteq PointersAt(N, 0)
  BY <1>1 DEF PointersAt
<1>4. \A n \in N : n.low \in PointersAt(N, 0) /\ n.high \in PointersAt(N, 0)
  BY <1>3, PlainChildren DEF Sides
<1> QED BY <1>2, <1>3, <1>4 DEF PointersAt

-----------------------------------------------------------------------------
(* What pointers denote, in an output that grows and under another name    *)

(* The denotation of a pointer does not depend on nodes it does not reach. *)
LEMMA GrowthKeeps ==
    ASSUME NEW kind, NEW N, PlainDiagram(N), NEW M, PlainDiagram(M), N \subseteq M
    PROVE  /\ \A l : PointersAt(N, l) \subseteq PointersAt(M, l)
           /\ \A p \in PointersAt(N, 0) : DenotesOf(kind, M, p) = DenotesOf(kind, N, p)
<1> DEFINE Bad == {p \in {n.uid : n \in N} : DenotesOf(kind, M, p) # DenotesOf(kind, N, p)}
<1>1. \A l : PointersAt(N, l) \subseteq PointersAt(M, l)
  BY DEF PointersAt
<1>2. /\ ChildrenFollow(N) /\ \A m, n \in N : m.uid = n.uid => m = n
      /\ ChildrenFollow(M) /\ \A m, n \in M : m.uid = n.uid => m = n
  BY PlainFollows
<1>3. \A v \in BOOLEAN : DenotesOf(kind, M, Terminal(v)) = DenotesOf(kind, N, Terminal(v))
  <2> SUFFICES ASSUME NEW v \in BOOLEAN
               PROVE  DenotesOf(kind, M, Terminal(v)) = DenotesOf(kind, N, Terminal(v))
    OBVIOUS
  <2>1. DenotesOf(kind, M, Terminal(v)) = IF ~v THEN {} ELSE IF kind THEN {{}} ELSE SUBSET Level
    BY <1>2, TerminalDenotes
  <2>2. DenotesOf(kind, N, Terminal(v)) = IF ~v THEN {} ELSE IF kind THEN {{}} ELSE SUBSET Level
    BY <1>2, TerminalDenotes
  <2> QED BY <2>1, <2>2
<1>4. Bad = {}
  <2>1. SUFFICES ASSUME Bad # {} PROVE FALSE
    OBVIOUS
  <2>2. PICK b \in Nat : b = Nil
    BY PointersAre, Zenon
  <2>3. \A n \in N : n.uid \in Nat /\ n.uid <= b /\ n.uid % 4 = 0 /\ IsNode(n.uid)
    <3> SUFFICES ASSUME NEW n \in N PROVE n.uid \in Nat /\ n.uid <= b /\ n.uid % 4 = 0 /\ IsNode(n.uid)
      OBVIOUS
    <3>1. n.uid \in 0 .. b /\ n.uid % 4 = 0 /\ IsNode(n.uid)
      BY <2>2, PlainNodes, Zenon
    <3>2. n.uid \in Nat /\ n.uid <= b
      BY <3>1
    <3> QED BY <3>1, <3>2
  <2>4. PICK p \in Bad : \A q \in Bad : q <= p
    <3>1. Bad \subseteq Nat /\ \A q \in Bad : q <= b
      BY <2>3
    <3> HIDE DEF Bad
    <3> QED BY <2>1, <3>1, GreatestExists, Zenon
  <2>5. PICK n \in N : n.uid = p
    OBVIOUS
  <2>6. \A s \in Sides : DenotesOf(kind, M, n[s]) = DenotesOf(kind, N, n[s])
    <3> SUFFICES ASSUME NEW s \in Sides PROVE DenotesOf(kind, M, n[s]) = DenotesOf(kind, N, n[s])
      OBVIOUS
    <3>1. CASE \E v \in BOOLEAN : n[s] = Terminal(v)
      BY <1>3, <3>1
    <3>2. CASE \E m \in N : m.uid = n[s]
      <4>1. PICK m \in N : m.uid = n[s]
        BY <3>2
      <4>2. n.uid + 3 < m.uid
        BY <4>1, PlainChildren
      <4>3. ~(m.uid <= p)
        BY <2>3, <2>5, <4>2
      <4> QED BY <2>4, <4>1, <4>3
    <3> QED BY <3>1, <3>2 DEF PlainDiagram
  <2>7. /\ DenotesOf(kind, M, n.low) = DenotesOf(kind, N, n.low)
        /\ DenotesOf(kind, M, n.high) = DenotesOf(kind, N, n.high)
    BY <2>6 DEF Sides
  <2>8. n \in M /\ IsNode(n.uid) /\ n.uid % 4 = 0
    BY <2>3
  <2>9. DenotesOf(kind, N, n.uid) =
            Choice(kind, LevelOf(n.uid), DenotesOf(kind, N, n.low), DenotesOf(kind, N, n.high))
    BY <1>2, <2>8, NodeDenotes, Zenon
  <2>10. DenotesOf(kind, M, n.uid) =
            Choice(kind, LevelOf(n.uid), DenotesOf(kind, M, n.low), DenotesOf(kind, M, n.high))
    BY <1>2, <2>8, NodeDenotes, Zenon
  <2> QED BY <2>4, <2>5, <2>7, <2>9, <2>10
<1>5. \A p \in PointersAt(N, 0) : DenotesOf(kind, M, p) = DenotesOf(kind, N, p)
  <2> SUFFICES ASSUME NEW p \in PointersAt(N, 0)
               PROVE  DenotesOf(kind, M, p) = DenotesOf(kind, N, p)
    OBVIOUS
  <2>1. (\E v \in BOOLEAN : p = Terminal(v)) \/ \E n \in N : p = n.uid
    BY PlainPointers
  <2> QED BY <1>3, <1>4, <2>1
<1> QED BY <1>1, <1>5

(* What stands for a part of the input still does when the output grows.   *)
LEMMA GrownStands ==
    ASSUME NEW kind, NEW map, NEW in, NEW N, PlainDiagram(N), NEW M, PlainDiagram(M), N \subseteq M
    PROVE  /\ \A q, p : Stands(kind, map, in, N, q, p) => Stands(kind, map, in, M, q, p)
           /\ \A m : Settled(kind, map, in, N, m) => Settled(kind, map, in, M, m)
           /\ \A a : Carries(kind, map, in, N, a) => Carries(kind, map, in, M, a)
           /\ \A l, n, m : GatheredFrom(kind, map, in, N, l, n, m)
                              => GatheredFrom(kind, map, in, M, l, n, m)
<1>1. /\ \A l : PointersAt(N, l) \subseteq PointersAt(M, l)
      /\ \A p \in PointersAt(N, 0) : DenotesOf(kind, M, p) = DenotesOf(kind, N, p)
  BY GrowthKeeps
<1>2. \A q, p : Stands(kind, map, in, N, q, p) => Stands(kind, map, in, M, q, p)
  BY <1>1 DEF Stands
<1>3. \A m : Settled(kind, map, in, N, m) => Settled(kind, map, in, M, m)
  <2> SUFFICES ASSUME NEW m, Settled(kind, map, in, N, m) PROVE Settled(kind, map, in, M, m)
    OBVIOUS
  <2>1. PICK q, low, high \in PointersAt(N, 0) :
            /\ Stands(kind, map, in, N, q, m.uid)
            /\ Stands(kind, map, in, N, low, m.low)
            /\ Stands(kind, map, in, N, high, m.high)
            /\ (IsRedundant(kind, low, high) /\ q = low) \/ Node(q, low, high) \in N
    BY DEF Settled
  <2>2. q \in PointersAt(M, 0) /\ low \in PointersAt(M, 0) /\ high \in PointersAt(M, 0)
    BY <1>1
  <2>3. /\ Stands(kind, map, in, M, q, m.uid)
        /\ Stands(kind, map, in, M, low, m.low)
        /\ Stands(kind, map, in, M, high, m.high)
        /\ (IsRedundant(kind, low, high) /\ q = low) \/ Node(q, low, high) \in M
    BY <1>2, <2>1
  <2> QED BY <2>2, <2>3 DEF Settled
<1>4. \A a : Carries(kind, map, in, N, a) => Carries(kind, map, in, M, a)
  BY <1>1, <1>2, Zenon DEF Carries
<1>5. \A l, n, m : GatheredFrom(kind, map, in, N, l, n, m) => GatheredFrom(kind, map, in, M, l, n, m)
  <2> SUFFICES ASSUME NEW l, NEW n, NEW m, GatheredFrom(kind, map, in, N, l, n, m)
               PROVE  GatheredFrom(kind, map, in, M, l, n, m)
    OBVIOUS
  <2>1. PICK low, high \in PointersAt(N, l + 1) :
            /\ Stands(kind, map, in, N, low, m.low)
            /\ Stands(kind, map, in, N, high, m.high)
            /\ n = Node(m.uid, n.low, n.high)
            /\ n.low \in {low, Flag(low)} /\ n.high \in {high, Flag(high)}
            /\ ~IsRedundant(kind, low, high)
    BY DEF GatheredFrom
  <2>2. low \in PointersAt(M, l + 1) /\ high \in PointersAt(M, l + 1)
    BY <1>1
  <2> QED BY <1>2, <2>1, <2>2 DEF GatheredFrom
<1> QED BY <1>2, <1>3, <1>4, <1>5

(* map_level as a renaming.                                                *)
Renames(map) ==
    /\ DOMAIN map \subseteq Level
    /\ \A l \in DOMAIN map : map[l] \in Level

LEMMA RenamedChoice ==
    ASSUME NEW kind \in BOOLEAN, NEW map, NEW l \in DOMAIN map, NEW f, NEW g
    PROVE  Renamed(kind, map, Choice(kind, l, f, g)) =
               Choice(kind, map[l], Renamed(kind, map, f), Renamed(kind, map, g))
<1>1. CASE kind
  <2> DEFINE R(x) == {map[k] : k \in x}
  <2>1. \A x : R(x \cup {l}) = R(x) \cup {map[l]}
    OBVIOUS
  <2>2. Choice(kind, l, f, g) = f \cup {x \cup {l} : x \in g}
    BY <1>1 DEF Choice
  <2>3. Renamed(kind, map, Choice(kind, l, f, g)) = {R(y) : y \in f \cup {x \cup {l} : x \in g}}
    BY <1>1, <2>2 DEF Renamed
  <2>4. Choice(kind, map[l], Renamed(kind, map, f), Renamed(kind, map, g)) =
            {R(x) : x \in f} \cup {z \cup {map[l]} : z \in {R(x) : x \in g}}
    BY <1>1 DEF Renamed, Choice
  <2> HIDE DEF R
  <2>6. ASSUME NEW y \in f \cup {x \cup {l} : x \in g}
        PROVE  R(y) \in {R(x) : x \in f} \cup {z \cup {map[l]} : z \in {R(x) : x \in g}}
    BY <2>1
  <2>7. ASSUME NEW x \in f PROVE R(x) \in {R(y) : y \in f \cup {k \cup {l} : k \in g}}
    OBVIOUS
  <2>8. ASSUME NEW x \in g
        PROVE  R(x) \cup {map[l]} \in {R(y) : y \in f \cup {k \cup {l} : k \in g}}
    <3>1. x \cup {l} \in f \cup {k \cup {l} : k \in g}
      OBVIOUS
    <3> QED BY <2>1, <3>1
  <2>5. {R(y) : y \in f \cup {x \cup {l} : x \in g}} =
            {R(x) : x \in f} \cup {z \cup {map[l]} : z \in {R(x) : x \in g}}
    <3> DEFINE S == {R(y) : y \in f \cup {x \cup {l} : x \in g}}
               T == {R(x) : x \in f} \cup {z \cup {map[l]} : z \in {R(x) : x \in g}}
    <3>1. S \subseteq T
      BY <2>6
    <3>2. ASSUME NEW z \in T PROVE z \in S
      <4>1. CASE z \in {R(x) : x \in f}
        BY <2>7, <4>1
      <4>2. CASE z \in {y \cup {map[l]} : y \in {R(x) : x \in g}}
        <5>1. PICK x \in g : z = R(x) \cup {map[l]}
          BY <4>2
        <5> QED BY <2>8, <5>1
      <4> QED BY <4>1, <4>2
    <3> QED BY <3>1, <3>2
  <2> QED BY <2>3, <2>4, <2>5
<1>2. CASE ~kind
  <2> DEFINE Old(x) == {k \in DOMAIN map : map[k] \in x} \cup (Level \ DOMAIN map)
  <2>1. \A x : l \in Old(x) <=> map[l] \in x
    OBVIOUS
  <2>2. \A S : Renamed(kind, map, S) = {x \in SUBSET Level : Old(x) \in S}
    BY <1>2 DEF Renamed
  <2> HIDE DEF Old
  <2>3. \A k, S, T : Choice(kind, k, S, T) = {x \in S : k \notin x} \cup {x \in T : k \in x}
    BY <1>2 DEF Choice
  <2>4. \A x : Old(x) \in Choice(kind, l, f, g) <=>
                   (Old(x) \in f /\ map[l] \notin x) \/ (Old(x) \in g /\ map[l] \in x)
    BY <2>1, <2>3
  <2>5. Renamed(kind, map, Choice(kind, l, f, g)) =
            {x \in SUBSET Level : (Old(x) \in f /\ map[l] \notin x) \/ (Old(x) \in g /\ map[l] \in x)}
    BY <2>2, <2>4
  <2>6. Choice(kind, map[l], Renamed(kind, map, f), Renamed(kind, map, g)) =
            {x \in {y \in SUBSET Level : Old(y) \in f} : map[l] \notin x}
                \cup {x \in {y \in SUBSET Level : Old(y) \in g} : map[l] \in x}
    BY <2>2, <2>3
  <2> QED BY <2>5, <2>6
<1> QED BY <1>1, <1>2

LEMMA RenamedTerminals ==
    ASSUME NEW kind \in BOOLEAN, NEW map, Renames(map), NEW v
    PROVE  LET f == IF ~v THEN {} ELSE IF kind THEN {{}} ELSE SUBSET Level
           IN  Renamed(kind, map, f) = f
<1>1. Renamed(kind, map, {}) = {}
  BY DEF Renamed
<1>2. CASE kind
  <2>1. {map[l] : l \in {}} = {}
    OBVIOUS
  <2>2. Renamed(kind, map, {{}}) = {{}}
    BY <1>2, <2>1 DEF Renamed
  <2> QED BY <1>1, <1>2, <2>2
<1>3. CASE ~kind
  <2>1. Renamed(kind, map, SUBSET Level) = SUBSET Level
    BY <1>3 DEF Renamed, Renames
  <2> QED BY <1>1, <1>3, <2>1
<1> QED BY <1>2, <1>3

LEMMA TerminalsStand ==
    ASSUME NEW kind \in BOOLEAN, NEW map, Renames(map), NEW in, PlainDiagram(in),
           NEW N, PlainDiagram(N), NEW v \in BOOLEAN
    PROVE  Stands(kind, map, in, N, Terminal(v), Terminal(v))
<1>1. Terminal(v) \in PointersAt(N, 0)
  BY PointersOf
<1>2. DenotesOf(kind, N, Terminal(v)) = IF ~v THEN {} ELSE IF kind THEN {{}} ELSE SUBSET Level
  BY PlainFollows, TerminalDenotes
<1>3. DenotesOf(kind, in, Terminal(v)) = IF ~v THEN {} ELSE IF kind THEN {{}} ELSE SUBSET Level
  BY PlainFollows, TerminalDenotes
<1> QED BY <1>1, <1>2, <1>3, RenamedTerminals DEF Stands

(* What stands for a node, given what stands for its children: by rule 1   *)
(* the low child, and otherwise a node with these children.                *)
LEMMA NodesStand ==
    ASSUME zdd \in BOOLEAN, NEW map, Renames(map), NEW in, PlainDiagram(in),
           NEW N, PlainDiagram(N), NEW m \in in, LevelOf(m.uid) \in DOMAIN map,
           NEW low, Stands(zdd, map, in, N, low, m.low),
           NEW high, Stands(zdd, map, in, N, high, m.high)
    PROVE  /\ IsRedundant(zdd, low, high) => Stands(zdd, map, in, N, low, m.uid)
           /\ \A n \in N : LevelOf(n.uid) = map[LevelOf(m.uid)] /\ n.low = low /\ n.high = high
                              => Stands(zdd, map, in, N, n.uid, m.uid)
<1> DEFINE D(S, p) == DenotesOf(zdd, S, p)
           l == LevelOf(m.uid)
<1>1. D(in, m.uid) = Choice(zdd, l, D(in, m.low), D(in, m.high))
  <2>1. ChildrenFollow(in) /\ \A i, j \in in : i.uid = j.uid => i = j
    BY PlainFollows, Zenon
  <2>2. IsNode(m.uid) /\ m.uid % 4 = 0
    BY PlainNodes, Zenon
  <2> QED BY <2>1, <2>2, NodeDenotes, Zenon
<1>2. Renamed(zdd, map, D(in, m.uid)) = Choice(zdd, map[l], D(N, low), D(N, high))
  <2>2. \A f, g : Renamed(zdd, map, Choice(zdd, LevelOf(m.uid), f, g)) =
            Choice(zdd, map[LevelOf(m.uid)], Renamed(zdd, map, f), Renamed(zdd, map, g))
    BY RenamedChoice
  <2>1. Renamed(zdd, map, D(in, m.uid)) =
            Choice(zdd, map[l], Renamed(zdd, map, D(in, m.low)), Renamed(zdd, map, D(in, m.high)))
    BY <1>1, <2>2, Zenon
  <2> QED BY <2>1, Zenon DEF Stands
<1>3. low \in PointersAt(N, 0) /\ high \in PointersAt(N, 0)
  BY DEF Stands
<1>4. ASSUME IsRedundant(zdd, low, high)
      PROVE  D(N, low) = Choice(zdd, map[l], D(N, low), D(N, high))
  <2>1. CASE zdd
    <3>1. IsFalse(high)
      BY <1>4, <2>1 DEF IsRedundant
    <3>2. FlagsAside(high)
      BY <1>3, PlainPointers
    <3>3. high = Terminal(FALSE)
      BY <3>1, <3>2 DEF FlagsAside
    <3>4. D(N, high) = {}
      BY <3>3, PlainFollows, TerminalDenotes
    <3> QED BY <2>1, <3>4 DEF Choice
  <2>2. CASE ~zdd
    <3>1. low = high
      BY <1>4, <2>2 DEF IsRedundant
    <3> QED BY <2>2, <3>1 DEF Choice
  <2> QED BY <2>1, <2>2
<1>5. IsRedundant(zdd, low, high) => Stands(zdd, map, in, N, low, m.uid)
  BY <1>2, <1>3, <1>4 DEF Stands
<1>6. ASSUME NEW n \in N, LevelOf(n.uid) = map[l], n.low = low, n.high = high
      PROVE  Stands(zdd, map, in, N, n.uid, m.uid)
  <2>1. D(N, n.uid) = Choice(zdd, map[l], D(N, low), D(N, high))
    <3>1. D(N, n.uid) = Choice(zdd, LevelOf(n.uid), D(N, n.low), D(N, n.high))
      <4>1. ChildrenFollow(N) /\ \A i, j \in N : i.uid = j.uid => i = j
        BY PlainFollows, Zenon
      <4>2. IsNode(n.uid) /\ n.uid % 4 = 0
        BY PlainNodes, Zenon
      <4> QED BY <4>1, <4>2, NodeDenotes, Zenon
    <3> QED BY <1>6, <3>1, Zenon
  <2>2. n.uid \in PointersAt(N, 0)
    BY PointersOf
  <2> QED BY <1>2, <2>1, <2>2 DEF Stands
<1> QED BY <1>5, <1>6

(* In a reduced diagram no two pointers denote the same.                   *)
LEMMA OnlyOneStands ==
    ASSUME zdd \in BOOLEAN, NEW map, NEW in, NEW N, PlainDiagram(N), Reduced(N),
           NEW p, NEW q, Stands(zdd, map, in, N, q, p), NEW r, Stands(zdd, map, in, N, r, p)
    PROVE  q = r
<1>1. DenotesOf(zdd, N, q) = DenotesOf(zdd, N, r)
  BY DEF Stands
<1>2. AreTold(N, 0)
  BY ReducedAreTold, DiagramAssumption
<1> QED BY <1>1, <1>2 DEF AreTold, Denotes, Stands

-----------------------------------------------------------------------------
(* When every node of the input is settled, the output is canonical        *)

LEMMA InputIsPlain ==
    ASSUME NEW in, IsDiagram(in)
    PROVE  PlainDiagram(in) /\ HasRoot(in, CHOOSE n \in Roots(in) : TRUE)
<1>1. \A n \in in : /\ n = Node(n.uid, n.low, n.high)
                    /\ n.uid = Uid(LevelOf(n.uid), IdOf(n.uid))
                    /\ LevelOf(n.uid) \in Level /\ IdOf(n.uid) \in 0 .. MaxId
  BY DEF IsDiagram
<1>2. \A n \in in : \A p \in Targets(n) :
          (\E v \in BOOLEAN : p = Terminal(v)) \/ (LevelOf(n.uid) < LevelOf(p) /\ \E m \in in : m.uid = p)
  BY DEF IsDiagram
<1>3. \A n \in in : n.uid \in Nat
  BY <1>1, UidIs DEF Level
<1>4. \A v \in BOOLEAN : Terminal(v) \in Nat /\ Terminal(v) # Nil /\ IsTerminal(Terminal(v))
  BY PointersAre, Zenon
<1>5. \A n \in in : n.uid # Nil
  <2> SUFFICES ASSUME NEW n \in in PROVE n.uid # Nil
    OBVIOUS
  <2>1. IsNode(n.uid) /\ ~IsNode(Nil)
    BY <1>1, PointersAre, Zenon
  <2> QED BY <2>1, Zenon
<1>6. \A n \in in : \A p \in Targets(n) : p \in Nat /\ p # Nil
  BY <1>2, <1>3, <1>4, <1>5, Zenon
<1>7. \A n \in in : n.low \in Targets(n) /\ n.high \in Targets(n)
  BY DEF Targets
<1>8. \A n \in in : IsInner(n)
  <2> SUFFICES ASSUME NEW n \in in PROVE IsInner(n)
    OBVIOUS
  <2>1. n.low \in Nat /\ n.high \in Nat /\ n.low # Nil /\ n.uid \in Nat
    BY <1>3, <1>6, <1>7, Zenon
  <2>2. n \in NodeRecord
    BY <1>1, <2>1, NodeIs
  <2>3. \E l \in Level, i \in 0 .. MaxId : n.uid = Uid(l, i)
    BY <1>1, Zenon
  <2> QED BY <2>1, <2>2, <2>3 DEF IsInner
<1>9. \A n \in in, s \in Sides : n[s] \in Targets(n)
  BY DEF Targets, Sides
<1>10. HoldsDiagram(in)
  <2>1. HoldsNodes(in) /\ \A m, n \in in : m.uid = n.uid => m = n
    BY <1>8 DEF IsDiagram, HoldsNodes
  <2>2. \A n \in in, s \in Sides :
           IsTerminal(n[s]) \/ \E m \in in : m.uid = n[s] /\ LevelOf(n.uid) < LevelOf(m.uid)
    BY <1>2, <1>4, <1>9
  <2> QED BY <2>1, <2>2 DEF HoldsDiagram
<1>11. PlainDiagram(in)
  BY <1>2, <1>9, <1>10 DEF PlainDiagram
<1> QED BY <1>11, TheChosenRoot DEF IsDiagram

(* A node other than the root has a parent.                                *)
LEMMA ParentIs ==
    ASSUME NEW N, PlainDiagram(N), NEW r, HasRoot(N, r), NEW n \in N, n # r
    PROVE  \E k \in N : k.uid < n.uid /\ (n.uid = k.low \/ n.uid = k.high)
<1>1. PICK a \in SidesIn(N) : EndOf(a) = n.uid
  BY DEF HasRoot
<1>2. a[1] \in N /\ a[2] \in Sides /\ a[1][a[2]] = n.uid
  BY <1>1 DEF SidesIn, EndOf
<1>3. a[1].uid \in Nat /\ n.uid \in Nat /\ a[1].uid + 3 < n.uid
  BY <1>2, PlainChildren, PlainNodes
<1>4. a[1].uid < n.uid
  BY <1>3
<1> QED BY <1>2, <1>4 DEF Sides

LEMMA SettledIsRooted ==
    ASSUME zdd \in BOOLEAN, NEW map, NEW in, PlainDiagram(in), NEW r, HasRoot(in, r),
           NEW N, Tidy(N), N # {},
           \A m \in in : Settled(zdd, map, in, N, m),
           \A n \in N : \E m \in in : Stands(zdd, map, in, N, n.uid, m.uid)
    PROVE  \E t \in N : HasRoot(N, t) /\ Stands(zdd, map, in, N, t.uid, r.uid)
<1> DEFINE Stand(q, p) == Stands(zdd, map, in, N, q, p)
<1>1. PlainDiagram(N) /\ Reduced(N) /\ IsOrdered(N) /\ IsContiguous(N)
  BY DEF Tidy
<1>2. \A p, q, s : Stand(q, p) /\ Stand(s, p) => q = s
  BY <1>1, OnlyOneStands
<1>3. \A m \in in : m.uid \in Nat
  BY PlainNodes
(* A node without a parent stands for the root of the input.               *)
<1>4. ASSUME NEW n \in N, \A k \in N : n.uid # k.low /\ n.uid # k.high
      PROVE  Stand(n.uid, r.uid)
  <2> DEFINE S == {u \in {m.uid : m \in in} : Stand(n.uid, u)}
  <2>1. S # {} /\ S \subseteq Nat
    BY <1>3
  <2>2. PICK u \in S : \A x \in S : u <= x
    <3> HIDE DEF S
    <3> QED BY <2>1, LeastExists, Zenon
  <2>3. PICK m \in in : m.uid = u
    OBVIOUS
  <2>4. CASE m = r
    BY <2>3, <2>4
  <2>5. CASE m # r
    <3>1. PICK k \in in : k.uid < m.uid /\ (m.uid = k.low \/ m.uid = k.high)
      BY <2>5, ParentIs
    <3>2. PICK q, low, high \in PointersAt(N, 0) :
              /\ Stand(q, k.uid) /\ Stand(low, k.low) /\ Stand(high, k.high)
              /\ (IsRedundant(zdd, low, high) /\ q = low) \/ Node(q, low, high) \in N
      BY DEF Settled
    <3>3. Stand(n.uid, m.uid)
      BY <2>3
    <3>4. low = n.uid \/ high = n.uid
      BY <1>2, <3>1, <3>2, <3>3
    <3>5. Node(q, low, high) \notin N
      BY <1>4, <3>4 DEF Node
    <3>6. IsRedundant(zdd, low, high) /\ q = low
      BY <3>2, <3>5
    <3>7. low = n.uid
      <4>1. CASE ~zdd
        BY <3>4, <3>6, <4>1 DEF IsRedundant
      <4>2. CASE zdd
        <5>1. IsFalse(high)
          BY <3>6, <4>2 DEF IsRedundant
        <5>2. FlagsAside(high)
          BY <1>1, PlainPointers
        <5>3. high = Terminal(FALSE) /\ IsNode(n.uid) /\ ~IsNode(Terminal(FALSE))
          BY <1>1, <5>1, <5>2, PlainNodes, TerminalsAre DEF FlagsAside
        <5> QED BY <3>4, <5>3, Zenon
      <4> QED BY <4>1, <4>2
    <3>8. k.uid \in S
      BY <3>2, <3>6, <3>7
    <3>9. ~(m.uid <= k.uid)
      BY <1>3, <3>1
    <3> QED BY <2>2, <2>3, <3>8, <3>9
  <2> QED BY <2>4, <2>5
<1>5. PICK t \in N : \A n \in N : t.uid <= n.uid
  <2> DEFINE S == {n.uid : n \in N}
  <2>1. S # {} /\ S \subseteq Nat
    BY <1>1, PlainNodes
  <2>2. PICK u \in S : \A x \in S : u <= x
    <3> HIDE DEF S
    <3> QED BY <2>1, LeastExists, Zenon
  <2> QED BY <2>2
<1>6. Stand(t.uid, r.uid)
  <2>1. ASSUME NEW k \in N PROVE t.uid # k.low /\ t.uid # k.high
    <3>1. t.uid \in Nat /\ k.uid \in Nat /\ t.uid <= k.uid
      BY <1>1, <1>5, PlainNodes
    <3>2. k.uid + 3 < k.low /\ k.uid + 3 < k.high /\ k.low \in 0 .. Nil /\ k.high \in 0 .. Nil
      BY <1>1, PlainChildren DEF Sides
    <3> QED BY <3>1, <3>2
  <2> QED BY <1>4, <2>1
<1>7. HasRoot(N, t)
  <2> SUFFICES ASSUME NEW n \in N \ {t} PROVE \E a \in SidesIn(N) : EndOf(a) = n.uid
    BY DEF HasRoot
  <2>1. n.uid # t.uid
    BY <1>1, PlainFollows
  <2>2. ~Stand(n.uid, r.uid)
    BY <1>2, <1>6, <2>1
  <2>3. PICK k \in N : n.uid = k.low \/ n.uid = k.high
    BY <1>4, <2>2
  <2>4. <<k, "low">> \in SidesIn(N) /\ <<k, "high">> \in SidesIn(N)
    BY DEF SidesIn, Sides
  <2>5. EndOf(<<k, "low">>) = k.low /\ EndOf(<<k, "high">>) = k.high
    BY DEF EndOf
  <2> QED BY <2>3, <2>4, <2>5
<1> QED BY <1>6, <1>7

LEMMA SettledIsCanonical ==
    ASSUME zdd \in BOOLEAN, NEW map, NEW in, PlainDiagram(in), NEW r, HasRoot(in, r),
           NEW N, Tidy(N), N # {},
           \A m \in in : Settled(zdd, map, in, N, m),
           \A n \in N : \E m \in in : Stands(zdd, map, in, N, n.uid, m.uid)
    PROVE  N = CanonicalNodes(Renamed(zdd, map, Denotes(in, r.uid)))
<1>1. PICK t \in N : HasRoot(N, t) /\ Stands(zdd, map, in, N, t.uid, r.uid)
  BY SettledIsRooted
<1>2. N = CanonicalNodes(Denotes(N, t.uid))
  BY <1>1, NumberedDiagramIsCanonical DEF Tidy
<1>3. Denotes(N, t.uid) = Renamed(zdd, map, Denotes(in, r.uid))
  BY <1>1 DEF Stands, Denotes
<1> QED BY <1>2, <1>3, Zenon

(* A constant function has no node: every cofactor is redundant.           *)
LEMMA ConstantsAreCanonical ==
    ASSUME zdd \in BOOLEAN, NEW v \in BOOLEAN, NEW f,
           f = IF ~v THEN {} ELSE IF zdd THEN {{}} ELSE SUBSET Level
    PROVE  CanonicalNodes(f) = {TerminalNode(v)}
<1>1. ASSUME NEW l \in Level, NEW g \in Cofactors(f, l)
      PROVE  Redundant(zdd, g, l)
  <2>1. PICK a \in SUBSET (0 .. l - 1) : g = Cofactor(f, l, a)
    BY CofactorsAre
  <2>2. l \in Nat /\ l \in Level /\ Below(l) = Below(l + 1) \cup {l} /\ Below(l + 1) \subseteq Below(l)
        /\ Below(l) \subseteq Level /\ 0 .. l - 1 \subseteq Level
    <3>1. l \in Nat /\ 0 .. l - 1 \subseteq Level
      BY DiagramAssumption DEF Level
    <3> QED BY <3>1, BelowIs
  <2>3. CASE ~v
    <3>1. g = {}
      BY <2>1, <2>3 DEF Cofactor
    <3> QED BY <3>1 DEF Redundant, High, Low
  <2>4. CASE v /\ zdd
    <3>1. f = {{}}
      BY <2>4
    <3>2. \A x : x \in g => x = {}
      BY <2>1, <3>1 DEF Cofactor
    <3>3. High(g, l) = {}
      BY <3>2 DEF High
    <3> QED BY <2>4, <3>3 DEF Redundant
  <2>5. CASE v /\ ~zdd
    <3>1. f = SUBSET Level
      BY <2>5
    <3>2. g = SUBSET Below(l)
      BY <2>1, <2>2, <3>1 DEF Cofactor
    <3>3. High(g, l) = SUBSET Below(l + 1) /\ Low(g, l) = SUBSET Below(l + 1)
      BY <2>2, <3>2 DEF High, Low, Below
    <3> QED BY <2>5, <3>3 DEF Redundant
  <2> QED BY <2>3, <2>4, <2>5
<1>2. PICK P : /\ IsNumbering(P, zdd, f)
               /\ CanonicalNodesOf(zdd, f) =
                      IF NumberedNodes(P, zdd, f) = {} THEN {TerminalNode(f # {})}
                                                       ELSE NumberedNodes(P, zdd, f)
  BY CanonicalNodesAre
<1>3. \A l \in Level : Irredundant(zdd, Cofactors(f, l), l) = {}
  BY <1>1 DEF Irredundant
<1>4. NumberedNodes(P, zdd, f) = {}
  BY <1>3 DEF NumberedNodes
<1>5. (f # {}) = v
  <2>1. SUBSET Level # {} /\ {{}} # {}
    OBVIOUS
  <2>2. CASE v = TRUE
    BY <2>1, <2>2
  <2>3. CASE v = FALSE
    BY <2>3
  <2> QED BY <2>2, <2>3
<1>6. CanonicalNodes(f) = {TerminalNode(f # {})}
  BY <1>2, <1>4, Zenon DEF CanonicalNodes
<1> QED BY <1>5, <1>6, Zenon

LEMMA SettledIsConstant ==
    ASSUME zdd \in BOOLEAN, NEW map, NEW in, NEW r, NEW v \in BOOLEAN,
           Stands(zdd, map, in, {}, Terminal(v), r.uid)
    PROVE  {TerminalNode(v)} = CanonicalNodes(Renamed(zdd, map, Denotes(in, r.uid)))
<1>1. DenotesOf(zdd, {}, Terminal(v)) = IF ~v THEN {} ELSE IF zdd THEN {{}} ELSE SUBSET Level
  <2>1. ChildrenFollow({})
    BY DEF ChildrenFollow
  <2> QED BY <2>1, TerminalDenotes
<1>2. DenotesOf(zdd, {}, Terminal(v)) = Renamed(zdd, map, Denotes(in, r.uid))
  BY DEF Stands, Denotes
<1> QED BY <1>1, <1>2, ConstantsAreCanonical

-----------------------------------------------------------------------------
(* What each call leaves of the writer                                     *)

(* The file of x in y but for its nodes and levels.                        *)
SameFile(y, x) ==
    /\ HasFields(y)
    /\ y.open = x.open /\ y.latest = x.latest
    /\ y.file.sorted = x.file.sorted /\ y.file.indexable = x.file.indexable

LEMMA FileWithFields ==
    ASSUME NEW x, HasFields(x), NEW g, FileFields \subseteq DOMAIN g, g.nodes \in Seq(NodeRecord),
           g.sorted = x.file.sorted, g.indexable = x.file.indexable
    PROVE  SameFile([x EXCEPT !.file = g], x) /\ [x EXCEPT !.file = g].file = g
  BY DEF SameFile, HasFields, FileFields

LEMMA PushedNode ==
    ASSUME NEW x, HasFields(x), NEW n \in NodeRecord
    PROVE  LET y == UnsafePushNode(x, n)
           IN  /\ SameFile(y, x) /\ y.file.nodes = Append(x.file.nodes, n)
               /\ y.file.levels = x.file.levels
<1>1. PICK f : f = x.file
  OBVIOUS
<1>2. PICK s \in Seq(NodeRecord) : s = Append(f.nodes, n)
  BY <1>1, AppendProperties DEF HasFields
<1>3. PICK t : t = [v \in BOOLEAN |-> f.terminals[v] + TerminalsOf(n, v)]
  OBVIOUS
<1>4. PICK g : g = [f EXCEPT !.nodes = s, !.terminals = t]
  OBVIOUS
<1>5. UnsafePushNode(x, n) = [x EXCEPT !.file = g]
  BY <1>1, <1>2, <1>3, <1>4, Zenon DEF UnsafePushNode
<1>6. /\ FileFields \subseteq DOMAIN g /\ g.nodes = s /\ g.levels = f.levels
      /\ g.sorted = f.sorted /\ g.indexable = f.indexable
  BY <1>1, <1>4 DEF HasFields, FileFields
<1>7. g.nodes \in Seq(NodeRecord) /\ g.sorted = x.file.sorted /\ g.indexable = x.file.indexable
  BY <1>1, <1>2, <1>6
<1>8. SameFile([x EXCEPT !.file = g], x) /\ [x EXCEPT !.file = g].file = g
  BY <1>6, <1>7, FileWithFields, Zenon
<1> QED BY <1>1, <1>2, <1>5, <1>6, <1>8

LEMMA PushedLevel ==
    ASSUME NEW x, HasFields(x), NEW l, NEW k
    PROVE  LET y == UnsafePushLevel(x, l, k)
           IN  SameFile(y, x) /\ y.file.nodes = x.file.nodes
<1>1. PICK f : f = x.file
  OBVIOUS
<1>2. PICK s : s = Append(f.levels, [level |-> l, width |-> k])
  OBVIOUS
<1>3. PICK t : t = Bigger(f.width, k)
  OBVIOUS
<1>4. PICK g : g = [f EXCEPT !.levels = s, !.width = t]
  OBVIOUS
<1>5. UnsafePushLevel(x, l, k) = [x EXCEPT !.file = g]
  BY <1>1, <1>2, <1>3, <1>4, Zenon DEF UnsafePushLevel
<1>6. /\ FileFields \subseteq DOMAIN g /\ g.nodes = f.nodes
      /\ g.sorted = f.sorted /\ g.indexable = f.indexable
  BY <1>1, <1>4 DEF HasFields, FileFields
<1>7. g.nodes \in Seq(NodeRecord) /\ g.sorted = x.file.sorted /\ g.indexable = x.file.indexable
  BY <1>1, <1>6 DEF HasFields
<1>8. SameFile([x EXCEPT !.file = g], x) /\ [x EXCEPT !.file = g].file = g
  BY <1>6, <1>7, FileWithFields, Zenon
<1> QED BY <1>1, <1>5, <1>6, <1>8

(* The cuts and the number of terminals.                                   *)
CutsReplaced(x, c, d) == [x EXCEPT !.file.cut1 = c, !.file.cut2 = d]

LEMMA CutsSet ==
    ASSUME NEW x, HasFields(x), NEW c, NEW d
    PROVE  LET y == CutsReplaced(x, c, d)
           IN  SameFile(y, x) /\ y.file.nodes = x.file.nodes /\ y.file.levels = x.file.levels
<1>1. PICK f : f = x.file
  OBVIOUS
<1>2. PICK g : g = [f EXCEPT !.cut1 = c]
  OBVIOUS
<1>3. PICK h : h = [g EXCEPT !.cut2 = d]
  OBVIOUS
<1>4. /\ FileFields \subseteq DOMAIN h /\ h.nodes = f.nodes /\ h.levels = f.levels
      /\ h.sorted = f.sorted /\ h.indexable = f.indexable
  BY <1>1, <1>2, <1>3 DEF HasFields, FileFields
<1>5. h.nodes \in Seq(NodeRecord)
  BY <1>1, <1>4 DEF HasFields
<1>6. CutsReplaced(x, c, d) = [x EXCEPT !.file = h]
  BY <1>1, <1>2, <1>3 DEF HasFields, CutsReplaced
<1>7. SameFile([x EXCEPT !.file = h], x) /\ [x EXCEPT !.file = h].file = h
  <2>1. h.sorted = x.file.sorted /\ h.indexable = x.file.indexable
    BY <1>1, <1>4
  <2> QED BY <1>4, <1>5, <2>1, FileWithFields, Zenon
<1> QED BY <1>1, <1>4, <1>6, <1>7

LEMMA CutSet ==
    ASSUME NEW x, HasFields(x), NEW c
    PROVE  LET y == [x EXCEPT !.file.cut1 = c]
           IN  SameFile(y, x) /\ y.file.nodes = x.file.nodes /\ y.file.levels = x.file.levels
<1>1. PICK f : f = x.file
  OBVIOUS
<1>2. PICK h : h = [f EXCEPT !.cut1 = c]
  OBVIOUS
<1>4. /\ FileFields \subseteq DOMAIN h /\ h.nodes = f.nodes /\ h.levels = f.levels
      /\ h.sorted = f.sorted /\ h.indexable = f.indexable
  BY <1>1, <1>2 DEF HasFields, FileFields
<1>5. h.nodes \in Seq(NodeRecord)
  BY <1>1, <1>4 DEF HasFields
<1>6. [x EXCEPT !.file.cut1 = c] = [x EXCEPT !.file = h]
  BY <1>1, <1>2 DEF HasFields
<1>7. SameFile([x EXCEPT !.file = h], x) /\ [x EXCEPT !.file = h].file = h
  <2>1. h.sorted = x.file.sorted /\ h.indexable = x.file.indexable
    BY <1>1, <1>4
  <2> QED BY <1>4, <1>5, <2>1, FileWithFields, Zenon
<1> QED BY <1>1, <1>4, <1>6, <1>7

LEMMA PushedTerminal ==
    ASSUME NEW x, HasFields(x), NEW v \in BOOLEAN
    PROVE  LET y == PushTerminalNode(x, v)
           IN  SameFile(y, x) /\ y.file.nodes = Append(x.file.nodes, TerminalNode(v))
<1>1. PICK y : y = UnsafePushNode(x, TerminalNode(v))
  OBVIOUS
<1>2. SameFile(y, x) /\ y.file.nodes = Append(x.file.nodes, TerminalNode(v))
  BY <1>1, TerminalIs, PushedNode
<1>3. PICK f : f = y.file
  OBVIOUS
<1>4. PICK t : t = [b \in BOOLEAN |-> IF b THEN One(v) ELSE One(~v)]
  OBVIOUS
<1>5. PICK h : h = [f EXCEPT !.terminals = t]
  OBVIOUS
<1>6. /\ FileFields \subseteq DOMAIN h /\ h.nodes = f.nodes
      /\ h.sorted = f.sorted /\ h.indexable = f.indexable
  BY <1>2, <1>3, <1>5 DEF HasFields, FileFields, SameFile
<1>7. h.nodes \in Seq(NodeRecord) /\ h.sorted = y.file.sorted /\ h.indexable = y.file.indexable
  BY <1>2, <1>3, <1>6 DEF HasFields, SameFile
<1>8. PushTerminalNode(x, v) = [y EXCEPT !.file = h]
  BY <1>1, <1>3, <1>4, <1>5, Zenon DEF PushTerminalNode, SetNumberOfTerminals
<1>9. SameFile([y EXCEPT !.file = h], y) /\ [y EXCEPT !.file = h].file = h
  <2>1. HasFields(y)
    BY <1>2 DEF SameFile
  <2> QED BY <1>6, <1>7, <2>1, FileWithFields, Zenon
<1> QED BY <1>2, <1>3, <1>6, <1>8, <1>9 DEF SameFile

LEMMA ClosedWriter ==
    ASSUME NEW x, HasFields(x), x.latest = Dummy
    PROVE  LET y == Closed(x)
           IN  /\ HasFields(y) /\ y.file.nodes = x.file.nodes
               /\ y.file.sorted = x.file.sorted /\ y.file.indexable = x.file.indexable
<1>1. CASE ~x.open
  BY <1>1 DEF Closed
<1>2. CASE x.open
  <2>1. PICK f : f = x.file
    OBVIOUS
  <2>2. PICK c, d : c = FixedCut1(f) /\ d = FixedCut2(f, FixedCut1(f))
    OBVIOUS
  <2>3. PICK g : g = [f EXCEPT !.cut1 = c]
    OBVIOUS
  <2>4. PICK h : h = [g EXCEPT !.cut2 = d]
    OBVIOUS
  <2>5. /\ FileFields \subseteq DOMAIN h /\ h.nodes = f.nodes
        /\ h.sorted = f.sorted /\ h.indexable = f.indexable
    BY <2>1, <2>3, <2>4 DEF HasFields, FileFields
  <2>6. Fixup(f) = h
    BY <2>2, <2>3, <2>4, Zenon DEF Fixup
  <2>7. PICK z : z = [x EXCEPT !.open = FALSE]
    OBVIOUS
  <2>8. HasFields(z) /\ z.file = f
    BY <2>1, <2>7 DEF HasFields
  <2>9. Closed(x) = [z EXCEPT !.file = Fixup(f)]
    BY <1>2, <2>1, <2>7, <2>8 DEF Closed
  <2>10. h.nodes \in Seq(NodeRecord)
    BY <2>1, <2>5 DEF HasFields
  <2>11. SameFile([z EXCEPT !.file = h], z) /\ [z EXCEPT !.file = h].file = h
    BY <2>5, <2>8, <2>10, FileWithFields
  <2> QED BY <2>1, <2>5, <2>6, <2>8, <2>9, <2>11 DEF SameFile
<1> QED BY <1>1, <1>2

(* The nodes after one more.                                               *)
LEMMA AppendedNode ==
    ASSUME NEW f, f.nodes \in Seq(NodeRecord), NEW n \in NodeRecord,
           NEW g, g.nodes = Append(f.nodes, n)
    PROVE  /\ NodesOf(g) = NodesOf(f) \cup {n}
           /\ UidsFall(f.nodes) /\ (\A m \in NodesOf(f) : m.uid > n.uid) => UidsFall(g.nodes)
<1>5. PICK s \in Seq(NodeRecord) : s = f.nodes
  OBVIOUS
<1>1. /\ DOMAIN Append(s, n) = 1 .. Len(s) + 1 /\ DOMAIN s = 1 .. Len(s) /\ Len(s) \in Nat
      /\ \A i \in 1 .. Len(s) : Append(s, n)[i] = s[i]
      /\ Append(s, n)[Len(s) + 1] = n
  OBVIOUS
<1>2. NodesOf(f) = {s[i] : i \in 1 .. Len(s)} /\ NodesOf(g) = {Append(s, n)[i] : i \in 1 .. Len(s) + 1}
  BY <1>1, <1>5 DEF NodesOf
<1>3. NodesOf(g) = NodesOf(f) \cup {n}
  <2>1. \A i \in 1 .. Len(s) + 1 : i \in 1 .. Len(s) \/ i = Len(s) + 1
    BY <1>1
  <2>2. \A i \in 1 .. Len(s) : i \in 1 .. Len(s) + 1
    BY <1>1
  <2>3. Len(s) + 1 \in 1 .. Len(s) + 1
    BY <1>1
  <2>4. NodesOf(g) \subseteq NodesOf(f) \cup {n}
    BY <1>1, <1>2, <2>1
  <2>5. NodesOf(f) \cup {n} \subseteq NodesOf(g)
    BY <1>1, <1>2, <2>2, <2>3
  <2> QED BY <2>4, <2>5
<1>4. ASSUME UidsFall(f.nodes), \A m \in NodesOf(f) : m.uid > n.uid PROVE UidsFall(g.nodes)
  <2> SUFFICES ASSUME NEW i \in 1 .. Len(s) + 1, NEW j \in 1 .. Len(s) + 1, i < j
               PROVE  Append(s, n)[i].uid > Append(s, n)[j].uid
    BY <1>1, <1>5 DEF UidsFall
  <2>1. i \in 1 .. Len(s)
    BY <1>1
  <2>2. CASE j \in 1 .. Len(s)
    BY <1>1, <1>4, <1>5, <2>1, <2>2 DEF UidsFall
  <2>3. CASE j = Len(s) + 1
    BY <1>1, <1>2, <1>4, <1>5, <2>1, <2>3
  <2> QED BY <1>1, <2>2, <2>3
<1> QED BY <1>3, <1>4

-----------------------------------------------------------------------------
(* The start                                                               *)

LEMMA Setting ==
    ASSUME ReduceInv, TheJob
    PROVE  /\ PlainDiagram(input) /\ Proper /\ Renames(mapLevel) /\ zdd \in BOOLEAN
           /\ HasRoot(input, CHOOSE n \in Roots(input) : TRUE)
           /\ Function = Renamed(zdd, mapLevel, Denotes(input, (CHOOSE n \in Roots(input) : TRUE).uid))
           /\ \A m \in input : /\ LevelOf(m.uid) \in DOMAIN mapLevel /\ m.uid \in Uids
                               /\ LevelOf(m.uid) \in InputLevels
<1>1. IsDiagram(input)
  BY DEF ReduceInv
<1>2. Function = Renamed(zdd, mapLevel, Denotes(input, (CHOOSE n \in Roots(input) : TRUE).uid))
  BY DEF Function, InputFunction, Renamed
<1> QED BY <1>1, <1>2, InputIsPlain, DiagramsAreProper DEF TheJob, Renames, Uids, InputLevels

LEMMA NothingIsTidy == Tidy({})
<1>1. PlainDiagram({})
  BY FS_EmptySet DEF PlainDiagram, HoldsDiagram, HoldsNodes
<1> QED BY <1>1, OrderOfNone DEF Tidy, Reduced

LEMMA EmptyWriter ==
    LET x == Constructed(EmptyOutput)
    IN  /\ HasFields(x) /\ x.file.nodes = <<>> /\ x.file.levels = <<>>
        /\ x.file.sorted /\ x.file.indexable /\ x.open /\ x.latest = Dummy
<1>1. PICK f : f = EmptyOutput
  OBVIOUS
<1>2. /\ FileFields \subseteq DOMAIN f /\ f.nodes = <<>> /\ f.levels = <<>>
  BY <1>1 DEF EmptyOutput, EmptyFile, FileFields
<1>3. PICK y : y = Opened(f)
  OBVIOUS
<1>4. /\ {"open", "file", "latest"} \subseteq DOMAIN y /\ y.file = f /\ y.open /\ y.latest = Dummy
  BY <1>3 DEF Opened
<1>5. ~HasPushed(y)
  BY <1>2, <1>4 DEF HasPushed
<1>6. PICK g : g = [f EXCEPT !.sorted = TRUE]
  OBVIOUS
<1>7. PICK h : h = [g EXCEPT !.indexable = TRUE]
  OBVIOUS
<1>8. FileFields \subseteq DOMAIN h /\ h.nodes = <<>> /\ h.levels = <<>> /\ h.sorted /\ h.indexable
  BY <1>2, <1>6, <1>7 DEF FileFields
<1>9. (~HasPushed(y)) = TRUE
  BY <1>5
<1>10. Constructed(f) = [y EXCEPT !.file = h]
  <2>1. Constructed(f) = [y EXCEPT !.file.sorted = TRUE, !.file.indexable = TRUE]
    BY <1>3, <1>9, Zenon DEF Constructed
  <2> QED BY <1>4, <1>6, <1>7, <2>1
<1>11. [y EXCEPT !.file = h].file = h /\ [y EXCEPT !.file = h].open = y.open
       /\ [y EXCEPT !.file = h].latest = y.latest /\ DOMAIN [y EXCEPT !.file = h] = DOMAIN y
  BY <1>4
<1>12. h.nodes \in Seq(NodeRecord)
  BY <1>8
<1> QED BY <1>1, <1>4, <1>8, <1>10, <1>11, <1>12 DEF HasFields, FileFields

LEMMA NothingIsOut ==
    ASSUME w.file.nodes = <<>>
    PROVE  Out = {} /\ UidsFall(w.file.nodes)
BY DEF Out, NodesOf, UidsFall

LEMMA InitCanon == ASSUME Init PROVE CanonInv
<1>1. phase = "begin" /\ label = NoLabel /\ w = Constructed(EmptyOutput) /\ pq = {}
      /\ levels = {LevelOf(n.uid) : n \in input}
  BY DEF Init
<1>2. TheJob
  <2>1. PICK job \in Jobs : zdd = job.zdd /\ mapLevel = job.map /\ input \in job.inputs
    BY DEF Init
  <2> QED BY <2>1, JobsAssumption DEF TheJob
<1>3. /\ HasFields(w) /\ w.file.nodes = <<>> /\ w.file.levels = <<>>
      /\ w.file.sorted /\ w.file.indexable /\ w.open /\ w.latest = Dummy
  BY <1>1, EmptyWriter
<1>4. Out = {} /\ UidsFall(w.file.nodes)
  BY <1>3, NothingIsOut
<1>5. TheWriter
  BY <1>3, <1>4 DEF TheWriter
<1>6. OutIsTidy
  BY <1>4, NothingIsTidy DEF OutIsTidy
<1>7. DoneIsSettled
  BY <1>1 DEF DoneIsSettled, IsDone
<1>8. /\ ArcsCarry /\ MappingsStand /\ IsGathered /\ SomeMapping /\ Numbering /\ AtStart
  BY <1>1 DEF ArcsCarry, MappingsStand, IsGathered, SomeMapping, Numbering, AtStart
<1>9. Sweeping
  BY <1>1 DEF Sweeping
<1> QED BY <1>2, <1>5, <1>6, <1>7, <1>8, <1>9 DEF CanonInv

LEMMA BeginLevelCanon ==
    ASSUME ReduceInv, CanonInv, BeginLevel, UNCHANGED <<zdd, input, mapLevel>>
    PROVE  CanonInv'
<1>1. /\ phase = "begin" /\ phase' = "pull" /\ w' = w /\ pq' = pq /\ eHigh' = NoArc
      /\ grouping' = {} /\ red1' = {} /\ red2' = {} /\ outNode' = NoNode /\ outId' = MaxId
      /\ label' = MaxOf(levels) /\ levels' = levels \ {label'} /\ levels # {}
  BY DEF BeginLevel
<1>2. zdd' = zdd /\ input' = input /\ mapLevel' = mapLevel /\ Out' = Out
  BY <1>1 DEF Out
<1>3. label' \in levels
  <2>1. levels \subseteq Level
    BY LevelsAreNumbers, Setting DEF ReduceInv, CanonInv
  <2> QED BY <1>1, <2>1, LastLevelIs
<1>4. /\ TheJob /\ TheWriter /\ OutIsTidy /\ DoneIsSettled /\ ArcsCarry
  BY <1>1 DEF CanonInv, Sweeping
<1>5. TheJob'
  BY <1>2, <1>4 DEF TheJob
<1>6. TheWriter'
  BY <1>1, <1>4 DEF TheWriter
<1>7. OutIsTidy'
  <2>1. Tidy(Out)' /\ \A n \in Out : \E m \in input : Stands(zdd', mapLevel', input', Out', n.uid, m.uid)
    BY <1>2, <1>4 DEF OutIsTidy, Tidy, Reduced, ReductionRule
  <2>2. \A n \in Out : \E m \in input : IsFrom(n, m)'
    BY <1>1, <1>2, <1>3, <1>4 DEF OutIsTidy, IsFrom
  <2> QED BY <1>2, <2>1, <2>2 DEF OutIsTidy
<1>8. DoneIsSettled'
  <2>1. \A u : IsDone(u)' => IsDone(u)
    BY <1>1, <1>3 DEF IsDone
  <2> QED BY <1>2, <1>4, <2>1 DEF DoneIsSettled
<1>9. ArcsCarry'
  BY <1>1, <1>2, <1>4 DEF ArcsCarry
<1>10. MappingsStand' /\ IsGathered' /\ SomeMapping' /\ Numbering' /\ AtStart'
  BY <1>1 DEF MappingsStand, IsGathered, SomeMapping, Numbering, AtStart
<1>11. Sweeping'
  BY <1>1 DEF Sweeping
<1> QED BY <1>5, <1>6, <1>7, <1>8, <1>9, <1>10, <1>11 DEF CanonInv

-----------------------------------------------------------------------------
(* An input of a single node                                               *)

LEMMA RuleIs ==
    ASSUME NEW n, NEW low, FlagsAside(low), NEW high, FlagsAside(high),
           n.low \in {low, Flag(low)}, n.high \in {high, Flag(high)}
    PROVE  /\ Essential(n.low) = low
           /\ IsRedundant(zdd, low, high) => ReductionRule(n) = n.low
           /\ ~IsRedundant(zdd, low, high) => ReductionRule(n) = n.uid
<1>1. Essential(n.low) = low /\ Essential(n.high) = high
  BY DEF FlagsAside
<1>2. IsFalse(n.high) <=> IsFalse(high)
  BY DEF FlagsAside
<1> QED BY <1>1, <1>2 DEF IsRedundant, ReductionRule

LEMMA FunctionIsKept ==
    ASSUME UNCHANGED <<zdd, input, mapLevel>>
    PROVE  Function' = Function /\ (TheJob => TheJob') /\ (\A f : CanonicalNodes(f)' = CanonicalNodes(f))
BY DEF Function, InputFunction, Denotes, TheJob, CanonicalNodes

LEMMA NothingIsPushed ==
    ASSUME ReduceInv, CanonInv, phase = "begin", levels = InputLevels
    PROVE  label = NoLabel /\ w.file.nodes = <<>>
<1>1. InputLevels \subseteq Level /\ Level \subseteq Nat
  BY LevelsAreNumbers, Setting DEF ReduceInv, CanonInv
<1>2. label = NoLabel
  <2> SUFFICES ASSUME label # NoLabel PROVE FALSE
    OBVIOUS
  <2>1. label \in InputLevels /\ (label \in levels <=> label < label)
    BY DEF ReduceInv, LevelsAreLeft
  <2> QED BY <1>1, <2>1
<1> QED BY <1>2 DEF CanonInv, TheWriter

LEMMA SingleNode ==
    ASSUME ReduceInv, CanonInv, ReduceSingleNode
    PROVE  \E r \in input, v1, v2 \in BOOLEAN :
               /\ input = {r} /\ r.low = Terminal(v1) /\ r.high = Terminal(v2)
               /\ w.file.nodes = <<>>
               /\ r = Node(SingleArc(0).source, SingleArc(0).target, SingleArc(1).target)
<1> DEFINE r == CHOOSE n \in Roots(input) : TRUE
<1>1. phase = "begin" /\ levels = {LevelOf(n.uid) : n \in input} /\ internal = {}
  BY DEF ReduceSingleNode
<1>2. levels = InputLevels
  BY <1>1 DEF InputLevels, Uids
<1>3. PlainDiagram(input) /\ Proper /\ HasRoot(input, r)
  BY Setting DEF CanonInv
<1>4. \A a \in ArcsOf(input) : IsTerminal(a.target) /\ ~IsNode(a.target)
  <2> SUFFICES ASSUME NEW a \in ArcsOf(input), ~(IsTerminal(a.target) /\ ~IsNode(a.target)) PROVE FALSE
    OBVIOUS
  <2>1. IsNode(a.target) /\ a.target \in Uids
    BY <1>3 DEF Proper, ArcIsProper
  <2>2. IsAhead(a.target)
    BY <1>2, <2>1 DEF IsAhead, InputLevels
  <2> QED BY <1>1, <2>1, <2>2 DEF ReduceInv, InternalsAreUnread
<1>5. \A k \in input : Arc(k.uid, k.low) \in ArcsOf(input) /\ Arc(k.uid + OutBit, k.high) \in ArcsOf(input)
  BY DEF ArcsOf
<1>6. \A k \in input : ~IsNode(k.low) /\ ~IsNode(k.high) /\ IsTerminal(k.low) /\ IsTerminal(k.high)
  BY <1>4, <1>5 DEF Arc
<1>7. r \in input /\ input = {r}
  <2>1. r \in input
    BY <1>3 DEF HasRoot
  <2>2. ASSUME NEW n \in input, n # r PROVE FALSE
    <3>1. PICK k \in input : n.uid = k.low \/ n.uid = k.high
      BY <1>3, <2>2, ParentIs
    <3>2. IsNode(n.uid)
      BY <1>3, PlainNodes
    <3> QED BY <1>6, <3>1, <3>2
  <2> QED BY <2>1, <2>2
<1>8. \E v1, v2 \in BOOLEAN : r.low = Terminal(v1) /\ r.high = Terminal(v2)
  <2> DEFINE k == r
  <2> HIDE DEF r
  <2>1. \A s \in Sides : \E v \in BOOLEAN : k[s] = Terminal(v)
    <3> SUFFICES ASSUME NEW s \in Sides PROVE \E v \in BOOLEAN : k[s] = Terminal(v)
      OBVIOUS
    <3>1. ~IsNode(k[s])
      BY <1>6, <1>7 DEF Sides
    <3>2. \A m \in input : IsNode(m.uid)
      BY <1>3, PlainNodes
    <3> QED BY <1>3, <1>7, <3>1, <3>2 DEF PlainDiagram
  <2>2. (\E v \in BOOLEAN : k.low = Terminal(v)) /\ \E v \in BOOLEAN : k.high = Terminal(v)
    BY <2>1 DEF Sides
  <2> QED BY <2>2
<1> HIDE DEF r
<1>9. r.uid \in Nat /\ r.uid % 4 = 0
  BY <1>3, <1>7, PlainNodes
<1>10. OutIdx(r.uid) = 0 /\ OutIdx(r.uid + OutBit) = 1
  BY <1>9 DEF OutIdx, OutBit
<1>11. terminal = {Arc(r.uid, r.low), Arc(r.uid + OutBit, r.high)}
  <2>1. ArcsOf(input) = {Arc(r.uid, r.low), Arc(r.uid + OutBit, r.high)}
    BY <1>7 DEF ArcsOf
  <2>2. \A a \in ArcsOf(input) : IsPending(a.source)
    <3>1. \A a \in ArcsOf(input) : LevelOf(a.source) \in InputLevels
      BY <1>3, SourcesAreOrdered
    <3> QED BY <1>2, <3>1 DEF IsPending
  <2> QED BY <1>4, <2>1, <2>2 DEF ReduceInv, TerminalsAreUnread
<1>12. SingleArc(0) = Arc(r.uid, r.low) /\ SingleArc(1) = Arc(r.uid + OutBit, r.high)
  <2>1. \A a \in terminal : OutIdx(a.source) = 0 <=> a = Arc(r.uid, r.low)
    BY <1>10, <1>11 DEF Arc
  <2>2. \A a \in terminal : OutIdx(a.source) = 1 <=> a = Arc(r.uid + OutBit, r.high)
    BY <1>10, <1>11 DEF Arc
  <2> QED BY <1>11, <2>1, <2>2 DEF SingleArc
<1>13. r = Node(r.uid, r.low, r.high)
  BY <1>7 DEF ReduceInv, IsDiagram
<1>14. w.file.nodes = <<>>
  BY <1>1, <1>2, NothingIsPushed
<1> QED BY <1>7, <1>8, <1>12, <1>13, <1>14 DEF Arc

(* The writer after the one node of the output, a terminal or not.         *)
LEMMA FirstNode ==
    ASSUME TheWriter, w.file.nodes = <<>>, NEW x, SameFile(x, w), NEW n \in NodeRecord,
           x.file.nodes = Append(w.file.nodes, n)
    PROVE  NodesOf(x.file) = {n} /\ UidsFall(x.file.nodes)
<1>1. NodesOf(w.file) = {} /\ UidsFall(w.file.nodes)
  BY NothingIsOut DEF Out
<1>2. w.file.nodes \in Seq(NodeRecord)
  BY DEF TheWriter, HasFields
<1>3. /\ NodesOf(x.file) = NodesOf(w.file) \cup {n}
      /\ UidsFall(w.file.nodes) /\ (\A m \in NodesOf(w.file) : m.uid > n.uid) => UidsFall(x.file.nodes)
  BY <1>2, AppendedNode
<1> QED BY <1>1, <1>3

LEMMA AtClose ==
    ASSUME CanonInv, UNCHANGED <<zdd, input, mapLevel>>, phase # "done", phase' = "close",
           SameFile(w', w), UidsFall(w'.file.nodes), NodesOf(w'.file) = CanonicalNodes(Function)
    PROVE  CanonInv'
<1>1. TheJob' /\ Function' = Function /\ \A f : CanonicalNodes(f)' = CanonicalNodes(f)
  BY FunctionIsKept DEF CanonInv
<1>2. TheWriter'
  BY DEF CanonInv, TheWriter, SameFile
<1>3. ~Sweeping'
  BY DEF Sweeping
<1>4. Out' = CanonicalNodes(Function)'
  BY <1>1 DEF Out
<1> QED BY <1>1, <1>2, <1>3, <1>4 DEF CanonInv

LEMMA SingleTerminalIs ==
    ASSUME HasFields(w), NEW v \in BOOLEAN
    PROVE  LET y == SingleTerminal(v)
           IN  SameFile(y, w) /\ y.file.nodes = Append(w.file.nodes, TerminalNode(v))
<1>1. PICK x : x = PushTerminalNode(w, v)
  OBVIOUS
<1>2. SameFile(x, w) /\ x.file.nodes = Append(w.file.nodes, TerminalNode(v))
  BY <1>1, PushedTerminal
<1>3. PICK c : c = CutAdd(x.file.cut1, Cut(0, One(~v), One(v)))
  OBVIOUS
<1>4. SingleTerminal(v) = CutsReplaced(x, c, c)
  BY <1>1, <1>3, Zenon DEF SingleTerminal, CutsReplaced
<1>5. SameFile(SingleTerminal(v), x) /\ SingleTerminal(v).file.nodes = x.file.nodes
  <2>1. HasFields(x)
    BY <1>2 DEF SameFile
  <2> QED BY <1>4, <2>1, CutsSet
<1> QED BY <1>2, <1>4, <1>5 DEF SameFile

LEMMA SingleInnerIs ==
    ASSUME HasFields(w), NEW n, NEW m, m = Node(Uid(mapLevel[LevelOf(n.uid)], MaxId), n.low, n.high),
           m \in NodeRecord
    PROVE  LET y == SingleInner(n)
           IN  SameFile(y, w) /\ y.file.nodes = Append(w.file.nodes, m)
<1>1. PICK x : x = UnsafePushNode(w, m)
  OBVIOUS
<1>2. SameFile(x, w) /\ x.file.nodes = Append(w.file.nodes, m)
  BY <1>1, PushedNode
<1>3. PICK z : z = UnsafePushLevel(x, mapLevel[LevelOf(n.uid)], 1)
  OBVIOUS
<1>4. SameFile(z, x) /\ z.file.nodes = x.file.nodes
  BY <1>2, <1>3, PushedLevel DEF SameFile
<1>5. PICK c : c = SingleCut(m)
  OBVIOUS
<1>6. SingleInner(n) = CutsReplaced(z, c, c)
  BY <1>1, <1>3, <1>5, Zenon DEF SingleInner, CutsReplaced
<1>7. SameFile(SingleInner(n), z) /\ SingleInner(n).file.nodes = z.file.nodes
  <2>1. HasFields(z)
    BY <1>4 DEF SameFile
  <2> QED BY <1>6, <2>1, CutsSet
<1> QED BY <1>2, <1>4, <1>6, <1>7 DEF SameFile

LEMMA OneNodeIsTidy ==
    ASSUME zdd \in BOOLEAN, NEW l \in Level, NEW v1 \in BOOLEAN, NEW v2 \in BOOLEAN, NEW m,
           m = Node(Uid(l, MaxId), Terminal(v1), Terminal(v2)),
           ~IsRedundant(zdd, Terminal(v1), Terminal(v2))
    PROVE  m \in NodeRecord /\ Tidy({m}) /\ LevelOf(m.uid) = l
<1>1. Uid(l, MaxId) \in Nat /\ LevelOf(Uid(l, MaxId)) = l /\ IdOf(Uid(l, MaxId)) = MaxId
  BY UidIs, DiagramAssumption DEF Level
<1>2. /\ Terminal(v1) \in Nat /\ Terminal(v2) \in Nat
      /\ IsTerminal(Terminal(v1)) /\ IsTerminal(Terminal(v2)) /\ ~IsTerminal(Nil)
  BY PointersAre, Zenon
<1>3. m \in NodeRecord /\ m.uid = Uid(l, MaxId) /\ m.low = Terminal(v1) /\ m.high = Terminal(v2)
  BY <1>1, <1>2, NodeIs
<1>4. m.low # Nil
  BY <1>2, <1>3, Zenon
<1>5. IsInner(m)
  <2>1. MaxId \in 0 .. MaxId
    BY DiagramAssumption
  <2> QED BY <1>3, <1>4, <2>1 DEF IsInner
<1>6. \A s \in Sides : \E v \in BOOLEAN : m[s] = Terminal(v)
  BY <1>3 DEF Sides
<1>7. IsTopNode(m, {})
  BY <1>5, <1>6, TerminalsAre DEF IsTopNode
<1>8. PlainDiagram({m})
  <2>1. PlainDiagram({} \cup {m})
    BY <1>6, <1>7, PlainGrows
  <2> QED BY <2>1
<1>9. FlagsAside(Terminal(v1)) /\ FlagsAside(Terminal(v2))
  BY TerminalFlags
<1>10. ReductionRule(m) = m.uid
  BY <1>3, <1>9, RuleIs
<1>11. Reduced({m})
  BY <1>10 DEF Reduced
<1>12. IsOrdered({m}) /\ IsContiguous({m})
  BY <1>1, <1>3, <1>5, OrderOfOne
<1> QED BY <1>1, <1>3, <1>8, <1>11, <1>12 DEF Tidy

LEMMA SingleNodeCanon ==
    ASSUME ReduceInv, CanonInv, ReduceSingleNode, UNCHANGED <<zdd, input, mapLevel>>
    PROVE  CanonInv'
<1>1. PICK r \in input, v1, v2 \in BOOLEAN :
          /\ input = {r} /\ r.low = Terminal(v1) /\ r.high = Terminal(v2)
          /\ w.file.nodes = <<>>
          /\ r = Node(SingleArc(0).source, SingleArc(0).target, SingleArc(1).target)
  BY SingleNode
<1>2. /\ PlainDiagram(input) /\ Renames(mapLevel) /\ zdd \in BOOLEAN /\ HasRoot(input, r)
      /\ Function = Renamed(zdd, mapLevel, Denotes(input, r.uid))
      /\ LevelOf(r.uid) \in DOMAIN mapLevel
  <2>1. HasRoot(input, CHOOSE n \in Roots(input) : TRUE)
    BY Setting DEF CanonInv
  <2>2. (CHOOSE n \in Roots(input) : TRUE) = r
    <3>1. (CHOOSE n \in Roots(input) : TRUE) \in input
      BY <2>1, Zenon DEF HasRoot
    <3>2. \A k \in input : k = r
      BY <1>1
    <3> QED BY <3>1, <3>2, Zenon
  <2> QED BY <1>1, <2>1, <2>2, Setting DEF CanonInv
<1>3. FlagsAside(Terminal(v1)) /\ FlagsAside(Terminal(v2))
  BY TerminalFlags
<1>4. /\ IsRedundant(zdd, Terminal(v1), Terminal(v2)) => ReductionRule(r) = r.low
      /\ ~IsRedundant(zdd, Terminal(v1), Terminal(v2)) => ReductionRule(r) = r.uid
  BY <1>1, <1>3, RuleIs
<1>5. HasFields(w) /\ TheWriter
  BY DEF CanonInv, TheWriter
<1>6. w' = IF ReductionRule(r) = r.uid THEN SingleInner(r) ELSE SingleTerminal(Value(ReductionRule(r)))
  BY <1>1 DEF ReduceSingleNode
<1>7. phase # "done" /\ phase' = "close"
  BY DEF ReduceSingleNode
<1>8. CASE IsRedundant(zdd, Terminal(v1), Terminal(v2))
  <2>1. r.low # r.uid
    <3>1. IsNode(r.uid) /\ ~IsNode(Terminal(v1))
      BY <1>2, PlainNodes, TerminalsAre
    <3> QED BY <1>1, <3>1
  <2>2. Value(Terminal(v1)) = v1
    BY TerminalsAre
  <2>3. w' = SingleTerminal(v1)
    BY <1>1, <1>4, <1>6, <1>8, <2>1, <2>2
  <2>4. SameFile(w', w) /\ w'.file.nodes = Append(w.file.nodes, TerminalNode(v1))
    BY <1>5, <2>3, SingleTerminalIs
  <2>5. NodesOf(w'.file) = {TerminalNode(v1)} /\ UidsFall(w'.file.nodes)
    BY <1>1, <1>5, <2>4, TerminalIs, FirstNode
  <2>6. PlainDiagram({})
    BY NothingIsTidy DEF Tidy
  <2>7. /\ Stands(zdd, mapLevel, input, {}, Terminal(v1), r.low)
        /\ Stands(zdd, mapLevel, input, {}, Terminal(v2), r.high)
    BY <1>1, <1>2, <2>6, TerminalsStand
  <2>8. Stands(zdd, mapLevel, input, {}, Terminal(v1), r.uid)
    BY <1>2, <1>8, <2>6, <2>7, NodesStand
  <2>9. {TerminalNode(v1)} = CanonicalNodes(Function)
    BY <1>2, <2>8, SettledIsConstant
  <2> QED BY <1>7, <2>4, <2>5, <2>9, AtClose
<1>9. CASE ~IsRedundant(zdd, Terminal(v1), Terminal(v2))
  <2>1. w' = SingleInner(r)
    BY <1>4, <1>6, <1>9
  <2>2. PICK l \in Level : l = mapLevel[LevelOf(r.uid)]
    BY <1>2 DEF Renames
  <2>3. PICK m : m = Node(Uid(l, MaxId), Terminal(v1), Terminal(v2))
    OBVIOUS
  <2>4. m \in NodeRecord /\ Tidy({m}) /\ LevelOf(m.uid) = l
    BY <1>2, <1>9, <2>3, OneNodeIsTidy
  <2>5. SameFile(w', w) /\ w'.file.nodes = Append(w.file.nodes, m)
    BY <1>1, <1>5, <2>1, <2>2, <2>3, <2>4, SingleInnerIs
  <2>6. NodesOf(w'.file) = {m} /\ UidsFall(w'.file.nodes)
    BY <1>1, <1>5, <2>4, <2>5, FirstNode
  <2>7. PlainDiagram({m})
    BY <2>4 DEF Tidy
  <2>8. /\ Stands(zdd, mapLevel, input, {m}, Terminal(v1), r.low)
        /\ Stands(zdd, mapLevel, input, {m}, Terminal(v2), r.high)
    BY <1>1, <1>2, <2>7, TerminalsStand
  <2>9. m.low = Terminal(v1) /\ m.high = Terminal(v2) /\ m = Node(m.uid, Terminal(v1), Terminal(v2))
    BY <2>3 DEF Node
  <2>10. Stands(zdd, mapLevel, input, {m}, m.uid, r.uid)
    BY <1>2, <2>2, <2>4, <2>7, <2>8, <2>9, NodesStand
  <2>11. Settled(zdd, mapLevel, input, {m}, r)
    <3>1. m.uid \in PointersAt({m}, 0) /\ Terminal(v1) \in PointersAt({m}, 0) /\ Terminal(v2) \in PointersAt({m}, 0)
      BY <2>8, <2>10 DEF Stands
    <3> QED BY <2>8, <2>9, <2>10, <3>1 DEF Settled
  <2>12. {m} = CanonicalNodes(Function)
    <3>1. \A k \in input : Settled(zdd, mapLevel, input, {m}, k)
      BY <1>1, <2>11
    <3>2. \A n \in {m} : \E k \in input : Stands(zdd, mapLevel, input, {m}, n.uid, k.uid)
      BY <2>10
    <3> QED BY <1>2, <2>4, <3>1, <3>2, SettledIsCanonical
  <2> QED BY <1>7, <2>5, <2>6, <2>12, AtClose
<1> QED BY <1>8, <1>9

-----------------------------------------------------------------------------
(* Putting nodes together                                                  *)

LEMMA ArcsToTerminalsCarry ==
    ASSUME ReduceInv, CanonInv, Sweeping, NEW a \in ArcsOf(input), IsTerminal(a.target)
    PROVE  Carries(zdd, mapLevel, input, Out, a)
<1>1. PlainDiagram(input) /\ Proper /\ Renames(mapLevel) /\ zdd \in BOOLEAN
  BY Setting DEF CanonInv
<1>2. PlainDiagram(Out)
  BY DEF CanonInv, OutIsTidy, Tidy
<1>3. \E v \in BOOLEAN : a.target = Terminal(v)
  <2>1. PICK n \in input, s \in Sides : a.target = n[s]
    <3>1. PICK n \in input : a = Arc(n.uid, n.low) \/ a = Arc(n.uid + OutBit, n.high)
      BY ArcsAre
    <3>2. a.target = n.low \/ a.target = n.high
      BY <3>1 DEF Arc
    <3>3. a.target = n["low"] \/ a.target = n["high"]
      BY <3>2
    <3> QED BY <3>3 DEF Sides
  <2>2. \A m \in input : m.uid # a.target
    <3>1. ~IsNode(a.target)
      BY <1>1 DEF Proper, ArcIsProper
    <3>2. \A m \in input : IsNode(m.uid)
      BY <1>1, PlainNodes
    <3> QED BY <3>1, <3>2
  <2> QED BY <1>1, <2>1, <2>2 DEF PlainDiagram
<1>4. PICK v \in BOOLEAN : a.target = Terminal(v)
  BY <1>3
<1>5. Stands(zdd, mapLevel, input, Out, a.target, a.target)
  BY <1>1, <1>2, <1>4, TerminalsStand
<1>6. a.target \in PointersAt(Out, 0)
  BY <1>5 DEF Stands
<1> QED BY <1>5, <1>6 DEF Carries

LEMMA NextCarries ==
    ASSUME ReduceInv, CanonInv, phase = "pull", NEW b \in ArcsOf(input), IsHere(b.source)
    PROVE  Carries(zdd, mapLevel, input, Out, NextArc)
<1>1. Sweeping
  BY DEF Sweeping
<1>2. /\ TakesTerminal => NextArc \in terminal
      /\ ~TakesTerminal => NextArc \in pq
  BY NextIsLargest
<1>3. CASE NextArc \in terminal
  <2>1. NextArc \in ArcsOf(input) /\ IsTerminal(NextArc.target)
    BY <1>3 DEF ReduceInv, TerminalsAreUnread
  <2> QED BY <1>1, <2>1, ArcsToTerminalsCarry
<1>4. CASE NextArc \in pq
  BY <1>1, <1>4 DEF CanonInv, ArcsCarry
<1> QED BY <1>2, <1>3, <1>4

(* Pulls leave the output, and the level they are at.                      *)
LEMMA PullsKeep ==
    ASSUME CanonInv, Sweeping, phase' = phase,
           UNCHANGED <<zdd, input, mapLevel, w, levels, label>>
    PROVE  TheJob' /\ TheWriter' /\ OutIsTidy' /\ Out' = Out /\ Sweeping'
<1>1. Out' = Out
  BY DEF Out
<1>2. TheJob' /\ TheWriter' /\ Sweeping'
  BY DEF CanonInv, TheJob, TheWriter, Sweeping
<1>3. OutIsTidy'
  BY <1>1 DEF CanonInv, OutIsTidy, Tidy, Reduced, ReductionRule, IsFrom
<1> QED BY <1>1, <1>2, <1>3

LEMMA PullHighCanon ==
    ASSUME ReduceInv, CanonInv, PullHigh, UNCHANGED <<zdd, input, mapLevel>>
    PROVE  CanonInv'
<1>1. /\ phase = "pull" /\ eHigh = NoArc /\ MorePulls /\ eHigh' = NextArc /\ TakeNextArc
      /\ UNCHANGED <<levels, phase, label, grouping, red1, red2, outNode, outId, w>>
  BY DEF PullHigh
<1>2. Sweeping /\ phase' = phase
  BY <1>1 DEF Sweeping
<1>3. TheJob' /\ TheWriter' /\ OutIsTidy' /\ Out' = Out /\ Sweeping'
  BY <1>1, <1>2, PullsKeep
<1>4. Carries(zdd, mapLevel, input, Out, NextArc)
  BY <1>1, NoneIsHere, NextCarries
<1>5. pq' \subseteq pq
  BY <1>1 DEF TakeNextArc
<1>6. ArcsCarry'
  BY <1>1, <1>2, <1>3, <1>4, <1>5 DEF CanonInv, ArcsCarry
<1>7. DoneIsSettled'
  BY <1>1, <1>2, <1>3 DEF CanonInv, DoneIsSettled, IsDone
<1>8. MappingsStand' /\ IsGathered'
  BY <1>1, <1>2, <1>3 DEF CanonInv, MappingsStand, IsGathered, OutUids
<1>9. SomeMapping' /\ Numbering' /\ AtStart'
  BY <1>1, <1>2 DEF CanonInv, SomeMapping, Numbering, AtStart
<1> QED BY <1>3, <1>6, <1>7, <1>8, <1>9 DEF CanonInv

(* The node m that PullLow puts together, from what stands for its         *)
(* children; the output is below the level it will get.                    *)
LEMMA LowAndHigh ==
    ASSUME ReduceInv, CanonInv, phase = "pull", eHigh # NoArc
    PROVE  \E m \in input : \E low, high \in PointersAt(Out, 0) :
               /\ m.uid \in UidsHere /\ m.uid \notin Got
               /\ Stands(zdd, mapLevel, input, Out, low, m.low)
               /\ Stands(zdd, mapLevel, input, Out, high, m.high)
               /\ Essential(NextArc.source) = m.uid
               /\ NextArc.target \in {low, Flag(low)} /\ eHigh.target \in {high, Flag(high)}
<1>1. PlainDiagram(input) /\ Proper /\ Sweeping
  BY Setting DEF CanonInv, Sweeping
<1>2. PICK u \in UidsHere : /\ u \notin Got /\ eHigh.source = u + OutBit
                            /\ NextArc.source = u
                            /\ \E a \in ArcsOf(input) : IsHere(a.source)
  BY LowIs
<1>3. PICK m \in input : m.uid = u
  BY DEF UidsHere, Uids
<1>4. /\ Arc(m.uid, m.low) \in ArcsOf(input) /\ Arc(m.uid + OutBit, m.high) \in ArcsOf(input)
  BY DEF ArcsOf
<1>5. \A a, c \in ArcsOf(input) : a.source = c.source => a = c
  BY <1>1 DEF Proper
<1>6. Carries(zdd, mapLevel, input, Out, NextArc) /\ Carries(zdd, mapLevel, input, Out, eHigh)
  BY <1>1, <1>2, NextCarries DEF CanonInv, ArcsCarry
<1>7. PICK low \in PointersAt(Out, 0) :
          Stands(zdd, mapLevel, input, Out, low, m.low) /\ NextArc.target \in {low, Flag(low)}
  <2>1. PICK c \in ArcsOf(input), q \in PointersAt(Out, 0) :
            /\ c.source = NextArc.source /\ Stands(zdd, mapLevel, input, Out, q, c.target)
            /\ NextArc.target \in {q, Flag(q)}
    BY <1>6, Zenon DEF Carries
  <2>2. c.target = m.low
    BY <1>2, <1>3, <1>4, <1>5, <2>1 DEF Arc
  <2> QED BY <2>1, <2>2
<1>8. PICK high \in PointersAt(Out, 0) :
          Stands(zdd, mapLevel, input, Out, high, m.high) /\ eHigh.target \in {high, Flag(high)}
  <2>1. PICK c \in ArcsOf(input), q \in PointersAt(Out, 0) :
            /\ c.source = eHigh.source /\ Stands(zdd, mapLevel, input, Out, q, c.target)
            /\ eHigh.target \in {q, Flag(q)}
    BY <1>6, Zenon DEF Carries
  <2>2. c.target = m.high
    BY <1>2, <1>3, <1>4, <1>5, <2>1 DEF Arc
  <2> QED BY <2>1, <2>2
<1>9. Essential(NextArc.source) = m.uid
  BY <1>1, <1>2, <1>3, UidsAre DEF UidsHere
<1> QED BY <1>2, <1>3, <1>7, <1>8, <1>9

(* While nodes are put together, the output is below the level they will   *)
(* get, and shares no uid with them.                                       *)
LEMMA OutputIsBelow ==
    ASSUME ReduceInv, CanonInv, phase = "pull"
    PROVE  /\ mapLevel[label] \in Level
           /\ \A n \in Out : LevelOf(n.uid) \in Nat /\ mapLevel[label] < LevelOf(n.uid)
           /\ \A m \in input, n \in Out : m.uid \in UidsHere => n.uid # m.uid
<1>1. PlainDiagram(input) /\ Proper /\ Renames(mapLevel)
      /\ \A m \in input : LevelOf(m.uid) \in DOMAIN mapLevel /\ LevelOf(m.uid) \in InputLevels
  BY Setting DEF CanonInv
<1>2. InputLevels \subseteq Level /\ Level \subseteq Nat
  BY <1>1, LevelsAreNumbers DEF ReduceInv
<1>3. label \in InputLevels /\ \A l \in InputLevels : l \in levels <=> l < label
  BY DEF ReduceInv, LevelsAreLeft
<1>4. label \in DOMAIN mapLevel
  <2>1. PICK m \in input : label = LevelOf(m.uid)
    BY <1>3 DEF InputLevels, Uids
  <2> QED BY <1>1, <2>1
<1>5. mapLevel[label] \in Level
  BY <1>1, <1>4 DEF Renames
<1>6. ASSUME NEW n \in Out
      PROVE  \E k \in input : /\ label < LevelOf(k.uid) /\ mapLevel[label] < LevelOf(n.uid)
                              /\ LevelOf(n.uid) = mapLevel[LevelOf(k.uid)]
                              /\ IdOf(n.uid) + WidthOf(input, LevelOf(k.uid)) > MaxId
  <2>1. PICK k \in input : IsFrom(n, k)
    BY DEF CanonInv, OutIsTidy, Sweeping
  <2>2. LevelOf(k.uid) \in InputLevels /\ LevelOf(k.uid) \notin levels /\ LevelOf(k.uid) # label
    BY <1>1, <2>1 DEF IsFrom
  <2>3. label < LevelOf(k.uid)
    <3>1. PICK j \in Nat : j = LevelOf(k.uid)
      BY <1>2, <2>2
    <3>2. ~(j < label) /\ j # label
      BY <1>3, <2>2, <3>1
    <3>3. label \in Nat
      BY <1>2, <1>3
    <3> QED BY <3>1, <3>2, <3>3
  <2>4. mapLevel[label] < mapLevel[LevelOf(k.uid)]
    BY <1>1, <1>4, <2>3 DEF CanonInv, TheJob
  <2> QED BY <2>1, <2>3, <2>4 DEF IsFrom
<1>7. ASSUME NEW n \in Out PROVE LevelOf(n.uid) \in Nat
  <2>1. PlainDiagram(Out)
    BY DEF CanonInv, OutIsTidy, Tidy, Sweeping
  <2> QED BY <2>1, PlainNodes
<1>8. ASSUME NEW m \in input, NEW n \in Out, m.uid \in UidsHere, n.uid = m.uid PROVE FALSE
  <2>1. PICK k \in input : /\ label < LevelOf(k.uid)
                           /\ LevelOf(n.uid) = mapLevel[LevelOf(k.uid)]
                           /\ IdOf(n.uid) + WidthOf(input, LevelOf(k.uid)) > MaxId
    BY <1>6
  <2>2. LevelOf(m.uid) = label
    BY <1>8 DEF UidsHere
  <2>3. LevelOf(m.uid) < LevelOf(k.uid) /\ mapLevel[LevelOf(k.uid)] = LevelOf(m.uid)
    BY <1>8, <2>1, <2>2
  <2>4. IdOf(m.uid) + Cardinality(OnLevel(input, LevelOf(k.uid))) <= MaxId
    BY <2>3 DEF CanonInv, TheJob, KeepsApart
  <2>5. PICK i \in 0 .. MaxId : i = IdOf(m.uid)
    BY NodesAreProper DEF ReduceInv
  <2>6. PICK c \in Nat : c = Cardinality(OnLevel(input, LevelOf(k.uid)))
    <3>1. LevelOf(k.uid) \in Level
      BY <1>1, <1>2
    <3> QED BY <1>1, <3>1, LevelsHaveRoom
  <2>7. i + c > MaxId /\ i + c <= MaxId
    BY <1>8, <2>1, <2>4, <2>5, <2>6 DEF WidthOf
  <2> QED BY <2>5, <2>6, <2>7, DiagramAssumption
<1> QED BY <1>5, <1>6, <1>7, <1>8

LEMMA PointersBelow ==
    ASSUME NEW N, NEW l \in Nat, \A n \in N : LevelOf(n.uid) \in Nat /\ l < LevelOf(n.uid)
    PROVE  PointersAt(N, 0) \subseteq PointersAt(N, l + 1)
<1>1. \A n \in N : LevelOf(n.uid) >= l + 1
  OBVIOUS
<1> QED BY <1>1 DEF PointersAt

LEMMA PullLowCanon ==
    ASSUME ReduceInv, CanonInv, PullLow, UNCHANGED <<zdd, input, mapLevel>>
    PROVE  CanonInv'
<1>1. /\ phase = "pull" /\ eHigh # NoArc /\ eHigh' = NoArc /\ TakeNextArc
      /\ UNCHANGED <<levels, phase, label, red2, outNode, outId, w>>
  BY DEF PullLow
<1>2. Sweeping /\ phase' = phase
  BY <1>1 DEF Sweeping
<1>3. TheJob' /\ TheWriter' /\ OutIsTidy' /\ Out' = Out /\ Sweeping'
  BY <1>1, <1>2, PullsKeep
<1>4. PICK m \in input, low \in PointersAt(Out, 0), high \in PointersAt(Out, 0) :
          /\ m.uid \in UidsHere /\ m.uid \notin Got
          /\ Stands(zdd, mapLevel, input, Out, low, m.low)
          /\ Stands(zdd, mapLevel, input, Out, high, m.high)
          /\ Essential(NextArc.source) = m.uid
          /\ NextArc.target \in {low, Flag(low)} /\ eHigh.target \in {high, Flag(high)}
  BY <1>1, LowAndHigh
<1>5. /\ PlainDiagram(input) /\ PlainDiagram(Out) /\ Renames(mapLevel) /\ zdd \in BOOLEAN
      /\ LevelOf(m.uid) \in DOMAIN mapLevel
  BY <1>2, Setting DEF CanonInv, OutIsTidy, Tidy
<1>6. FlagsAside(low) /\ FlagsAside(high)
  BY <1>5, PlainPointers
<1>7. PICK n : n = Node(Essential(NextArc.source), NextArc.target, eHigh.target)
  OBVIOUS
<1>8. n.uid = m.uid /\ n = Node(m.uid, n.low, n.high)
      /\ n.low \in {low, Flag(low)} /\ n.high \in {high, Flag(high)}
  BY <1>4, <1>7 DEF Node
<1>9. n.low # n.uid
  <2>1. m.uid \in Nat /\ m.uid % 4 = 0 /\ IsNode(m.uid)
    BY <1>5, PlainNodes
  <2>2. n.low # Flag(low) \/ n.low # n.uid
    BY <1>6, <1>8, <2>1 DEF FlagsAside
  <2>3. low # m.uid
    <3>1. CASE \E v \in BOOLEAN : low = Terminal(v)
      BY <2>1, <3>1, TerminalsAre
    <3>2. CASE \E k \in Out : low = k.uid
      BY <1>1, <1>4, <3>2, OutputIsBelow
    <3> QED BY <1>5, <3>1, <3>2, PlainPointers
  <2> QED BY <1>8, <2>2, <2>3
<1>10. /\ Essential(n.low) = low
       /\ IsRedundant(zdd, low, high) => ReductionRule(n) = n.low
       /\ ~IsRedundant(zdd, low, high) => ReductionRule(n) = n.uid
  BY <1>6, <1>8, RuleIs
<1>11. IF ReductionRule(n) = n.uid
       THEN grouping' = grouping \cup {n} /\ red1' = red1
       ELSE red1' = red1 \cup {[old |-> n.uid, new |-> Essential(ReductionRule(n))]} /\ grouping' = grouping
  BY <1>7 DEF PullLow
<1>12. ArcsCarry'
  <2>1. pq' \subseteq pq
    BY <1>1 DEF TakeNextArc
  <2> QED BY <1>1, <1>2, <1>3, <2>1 DEF CanonInv, ArcsCarry
<1>13. SomeMapping' /\ Numbering' /\ AtStart'
  BY <1>1, <1>2 DEF CanonInv, SomeMapping, Numbering, AtStart
<1>14. CASE IsRedundant(zdd, low, high)
  <2>1. PICK x : x = [old |-> m.uid, new |-> low]
    OBVIOUS
  <2>2. red1' = red1 \cup {x} /\ grouping' = grouping
    BY <1>8, <1>9, <1>10, <1>11, <1>14, <2>1
  <2>3. x.old = m.uid /\ x.new = low
    BY <2>1
  <2>4. Stands(zdd, mapLevel, input, Out, low, m.uid)
    BY <1>4, <1>5, <1>14, NodesStand
  <2>5. Settled(zdd, mapLevel, input, Out, m)
    BY <1>4, <1>14, <2>4 DEF Settled
  <2>6. DoneIsSettled'
    <3>1. \A u : IsDone(u)' => IsDone(u) \/ u = m.uid
      BY <1>1, <2>2, <2>3 DEF IsDone
    <3>2. \A k \in input : k.uid = m.uid => k = m
      BY <1>5, PlainFollows
    <3> QED BY <1>2, <1>3, <2>5, <3>1, <3>2 DEF CanonInv, DoneIsSettled
  <2>7. MappingsStand'
    <3>1. MappingsStand
      BY <1>2 DEF CanonInv
    <3> QED BY <1>1, <1>3, <2>2, <2>3, <2>4, <3>1 DEF MappingsStand, OutUids
  <2>8. IsGathered'
    BY <1>1, <1>2, <1>3, <2>2 DEF CanonInv, IsGathered
  <2> QED BY <1>3, <1>12, <1>13, <2>6, <2>7, <2>8 DEF CanonInv
<1>15. CASE ~IsRedundant(zdd, low, high)
  <2>1. grouping' = grouping \cup {n} /\ red1' = red1
    BY <1>10, <1>11, <1>15
  <2>2. GatheredFrom(zdd, mapLevel, input, Out, mapLevel[label], n, m)
    <3>1. PointersAt(Out, 0) \subseteq PointersAt(Out, mapLevel[label] + 1)
      <4>1. mapLevel[label] \in Nat /\ \A k \in Out : LevelOf(k.uid) \in Nat /\ mapLevel[label] < LevelOf(k.uid)
        BY <1>1, OutputIsBelow DEF Level
      <4> QED BY <4>1, PointersBelow
    <3>2. low \in PointersAt(Out, mapLevel[label] + 1) /\ high \in PointersAt(Out, mapLevel[label] + 1)
      BY <3>1
    <3> QED BY <1>4, <1>8, <1>15, <3>2 DEF GatheredFrom
  <2>3. \A k \in grouping : k.uid # n.uid
    BY <1>4, <1>8 DEF Got
  <2>4. IsGathered'
    <3>1. IsGathered
      BY <1>2 DEF CanonInv
    <3> QED BY <1>1, <1>3, <2>1, <2>2, <2>3, <3>1 DEF IsGathered
  <2>5. DoneIsSettled' /\ MappingsStand'
    BY <1>1, <1>2, <1>3, <2>1 DEF CanonInv, DoneIsSettled, IsDone, MappingsStand, OutUids
  <2> QED BY <1>3, <1>12, <1>13, <2>4, <2>5 DEF CanonInv
<1> QED BY <1>14, <1>15

-----------------------------------------------------------------------------
(* Sorting what rule 1 leaves, and its output by rule 2                    *)

LEMMA GatheredIs ==
    ASSUME ReduceInv, CanonInv, phase \in {"pull", "output"}, NEW n \in grouping
    PROVE  \E m \in input : \E low, high \in PointersAt(Out, mapLevel[label] + 1) :
               /\ n.uid = m.uid /\ LevelOf(m.uid) = label /\ label \in DOMAIN mapLevel
               /\ mapLevel[label] \in Level
               /\ Stands(zdd, mapLevel, input, Out, low, m.low)
               /\ Stands(zdd, mapLevel, input, Out, high, m.high)
               /\ Unflag(n.low) = low /\ Unflag(n.high) = high
               /\ FlagsAside(low) /\ FlagsAside(high)
               /\ ~IsRedundant(zdd, low, high)
<1>1. /\ PlainDiagram(Out) /\ Renames(mapLevel)
      /\ \A m \in input : LevelOf(m.uid) \in DOMAIN mapLevel
  BY Setting DEF CanonInv, OutIsTidy, Tidy, Sweeping
<1>2. PICK m \in input : GatheredFrom(zdd, mapLevel, input, Out, mapLevel[label], n, m)
  BY DEF CanonInv, Sweeping, IsGathered
<1>3. PICK low, high \in PointersAt(Out, mapLevel[label] + 1) :
          /\ Stands(zdd, mapLevel, input, Out, low, m.low)
          /\ Stands(zdd, mapLevel, input, Out, high, m.high)
          /\ n = Node(m.uid, n.low, n.high)
          /\ n.low \in {low, Flag(low)} /\ n.high \in {high, Flag(high)}
          /\ ~IsRedundant(zdd, low, high)
  BY <1>2, Zenon DEF GatheredFrom
<1>4. n.uid = m.uid
  BY <1>3 DEF Node
<1>5. LevelOf(m.uid) = label
  <2>1. n.uid \in Got
    BY DEF Got
  <2>2. n.uid \in UidsHere
    BY <2>1 DEF ReduceInv, AllWerePulled
  <2> QED BY <1>4, <2>2 DEF UidsHere
<1>6. label \in DOMAIN mapLevel /\ mapLevel[label] \in Level
  BY <1>1, <1>5 DEF Renames
<1>7. FlagsAside(low) /\ FlagsAside(high)
  BY <1>1, <1>3, PlainPointers DEF Stands
<1>8. Unflag(n.low) = low /\ Unflag(n.high) = high
  BY <1>3, <1>7 DEF FlagsAside
<1> QED BY <1>3, <1>4, <1>5, <1>6, <1>7, <1>8

LEMMA GroupingFits ==
    ASSUME ReduceInv, CanonInv, phase = "pull"
    PROVE  /\ IsFiniteSet(grouping) /\ Cardinality(grouping) \in Nat
           /\ WidthOf(input, label) \in Nat
           /\ Cardinality(grouping) <= WidthOf(input, label)
<1> DEFINE T == OnLevel(input, label)
           f == [n \in grouping |-> CHOOSE m \in T : m.uid = n.uid]
<1>1. PlainDiagram(input) /\ label \in Level
  BY Setting, LevelsAreNumbers DEF ReduceInv, CanonInv
<1>2. IsFiniteSet(T) /\ Cardinality(T) \in Nat
  BY <1>1, LevelsHaveRoom
<1>3. \A n \in grouping : \E m \in T : m.uid = n.uid
  <2> SUFFICES ASSUME NEW n \in grouping PROVE \E m \in T : m.uid = n.uid
    OBVIOUS
  <2>1. PICK m \in input : n.uid = m.uid /\ LevelOf(m.uid) = label
    BY GatheredIs
  <2> QED BY <2>1 DEF OnLevel
<1>4. \A n \in grouping : f[n] \in T /\ f[n].uid = n.uid
  BY <1>3
<1>5. \A n, m \in grouping : n.uid = m.uid => n = m
  BY DEF CanonInv, Sweeping, IsGathered
<1>6. f \in [grouping -> T] /\ \A n, m \in grouping : f[n] = f[m] => n = m
  BY <1>4, <1>5
<1> HIDE DEF f
<1>7. f \in Injection(grouping, T)
  BY <1>6, Fun_IsInj, Zenon
<1>8. IsFiniteSet(grouping) /\ Cardinality(grouping) <= Cardinality(T)
  BY <1>2, <1>7, FS_Injection, Zenon
<1>9. Cardinality(grouping) \in Nat
  BY <1>8, FS_CardinalityType, Zenon
<1> QED BY <1>2, <1>8, <1>9 DEF WidthOf

LEMMA EndPullsCanon ==
    ASSUME ReduceInv, CanonInv, EndPulls, UNCHANGED <<zdd, input, mapLevel>>
    PROVE  CanonInv'
<1>1. /\ phase = "pull" /\ phase' = "output"
      /\ UNCHANGED <<levels, label, pq, grouping, red1, red2, outNode, outId, w>>
  BY DEF EndPulls
<1>2. Sweeping /\ Sweeping' /\ Out' = Out
  BY <1>1 DEF Sweeping, Out
<1>3. TheJob' /\ TheWriter'
  BY <1>1 DEF CanonInv, TheJob, TheWriter
<1>4. OutIsTidy'
  BY <1>1, <1>2 DEF CanonInv, OutIsTidy, Tidy, Reduced, ReductionRule, IsFrom
<1>5. DoneIsSettled' /\ ArcsCarry' /\ MappingsStand' /\ IsGathered'
  BY <1>1, <1>2 DEF CanonInv, DoneIsSettled, IsDone, ArcsCarry, MappingsStand, IsGathered, OutUids
<1>6. outId = MaxId /\ outNode = NoNode
  BY <1>1, <1>2 DEF CanonInv, AtStart
<1>7. \A n \in grouping : ComesNext(n)
  <2> SUFFICES ASSUME NEW n \in grouping PROVE ComesNext(n)
    OBVIOUS
  <2>1. FlagsAside(Unflag(n.high))
    BY <1>1, GatheredIs
  <2>2. outNode.high = Nil
    BY <1>6 DEF NoNode, Node
  <2>3. PICK b \in Nat, h \in Nat : b = Nil /\ h = Unflag(n.high) /\ h < b
    <3>1. Unflag(n.high) \in Nat /\ Unflag(n.high) < Nil /\ Nil \in Nat
      BY <2>1, PointersAre, Zenon DEF FlagsAside
    <3> QED BY <3>1, Zenon
  <2>4. b > h
    BY <2>3
  <2> QED BY <2>2, <2>3, <2>4, Zenon DEF ComesNext
<1>8. Numbering'
  <2>1. /\ IsFiniteSet(grouping) /\ Cardinality(grouping) \in Nat
        /\ WidthOf(input, label) \in Nat /\ Cardinality(grouping) <= WidthOf(input, label)
    BY <1>1, GroupingFits
  <2>2. Cardinality(grouping) + (MaxId - outId) <= WidthOf(input, label)
    BY <1>6, <2>1, DiagramAssumption
  <2>3. outId \in -1 .. MaxId /\ ~(outId < MaxId)
    BY <1>6, DiagramAssumption
  <2>4. \A n \in Out : mapLevel[label] < LevelOf(n.uid)
    BY <1>1, OutputIsBelow
  <2>5. \A n \in grouping : ComesNext(n)'
    BY <1>1, <1>7 DEF ComesNext
  <2> QED BY <1>1, <1>2, <1>6, <2>1, <2>2, <2>3, <2>4, <2>5 DEF Numbering
<1>9. SomeMapping' /\ AtStart'
  BY <1>1 DEF SomeMapping, AtStart
<1> QED BY <1>2, <1>3, <1>4, <1>5, <1>8, <1>9 DEF CanonInv

(* The node that Output takes, from what stands for its children, and the  *)
(* node of the output it is mapped to.                                     *)
Taken(n, m, low, high) ==
    /\ n \in grouping /\ m \in input
    /\ \A k \in grouping : ChildrenFirst(n, k)
    /\ low \in PointersAt(Out, mapLevel[label] + 1) /\ high \in PointersAt(Out, mapLevel[label] + 1)
    /\ n.uid = m.uid /\ LevelOf(m.uid) = label /\ label \in DOMAIN mapLevel
    /\ mapLevel[label] \in Level
    /\ Stands(zdd, mapLevel, input, Out, low, m.low)
    /\ Stands(zdd, mapLevel, input, Out, high, m.high)
    /\ Unflag(n.low) = low /\ Unflag(n.high) = high
    /\ FlagsAside(low) /\ FlagsAside(high)
    /\ ~IsRedundant(zdd, low, high)

MappedTo(n, u) ==
    /\ grouping' = grouping \ {n}
    /\ red2' = red2 \cup {[old |-> n.uid, new |-> u]}
    /\ UNCHANGED <<zdd, input, mapLevel, levels, internal, terminal, pq, pqLevel, phase, label,
                   eHigh, red1, lastRed1>>

LEMMA OutputTakes ==
    ASSUME ReduceInv, CanonInv, Output, UNCHANGED <<zdd, input, mapLevel>>
    PROVE  /\ phase = "output"
           /\ \E n, m, low, high : /\ Taken(n, m, low, high) /\ MappedTo(n, outNode'.uid)
                                   /\ OutputNew(n) \/ OutputSame(n)
<1>1. PICK n \in grouping : /\ \A m \in grouping : ChildrenFirst(n, m)
                            /\ OutputNew(n) \/ OutputSame(n)
                            /\ grouping' = grouping \ {n}
                            /\ red2' = red2 \cup {[old |-> n.uid, new |-> outNode'.uid]}
  BY Zenon DEF Output
<1>2. /\ phase = "output"
      /\ UNCHANGED <<levels, internal, terminal, pq, pqLevel, phase, label, eHigh, red1, lastRed1>>
  BY DEF Output
<1>3. PICK m \in input : \E low, high \in PointersAt(Out, mapLevel[label] + 1) :
          /\ n.uid = m.uid /\ LevelOf(m.uid) = label /\ label \in DOMAIN mapLevel
          /\ mapLevel[label] \in Level
          /\ Stands(zdd, mapLevel, input, Out, low, m.low)
          /\ Stands(zdd, mapLevel, input, Out, high, m.high)
          /\ Unflag(n.low) = low /\ Unflag(n.high) = high
          /\ FlagsAside(low) /\ FlagsAside(high)
          /\ ~IsRedundant(zdd, low, high)
  BY <1>2, GatheredIs
<1>4. \E low, high : Taken(n, m, low, high)
  BY <1>1, <1>3, Zenon DEF Taken
<1>5. MappedTo(n, outNode'.uid)
  BY <1>1, <1>2 DEF MappedTo
<1> QED BY <1>1, <1>2, <1>4, <1>5

(* With the new output tidy and the node settled, only the numbering of    *)
(* what is left on the level is to be shown.                               *)
LEMMA OutputKeepsTheRest ==
    ASSUME ReduceInv, CanonInv, phase = "output",
           NEW n, NEW m, NEW low, NEW high, Taken(n, m, low, high), NEW u, MappedTo(n, u),
           Out \subseteq Out', Tidy(Out'), u \in OutUids',
           Stands(zdd, mapLevel, input, Out', u, m.uid),
           Settled(zdd, mapLevel, input, Out', m),
           TheWriter', OutIsTidy', Numbering'
    PROVE  CanonInv'
<1>1. /\ TheJob /\ OutIsTidy /\ DoneIsSettled /\ ArcsCarry /\ MappingsStand /\ IsGathered
  BY DEF CanonInv, Sweeping
<1>2. PICK N : N = Out'
  OBVIOUS
<1>3. PlainDiagram(Out) /\ PlainDiagram(N)
  BY <1>1, <1>2 DEF OutIsTidy, Tidy
<1>4. /\ \A q, p : Stands(zdd, mapLevel, input, Out, q, p) => Stands(zdd, mapLevel, input, N, q, p)
      /\ \A k : Settled(zdd, mapLevel, input, Out, k) => Settled(zdd, mapLevel, input, N, k)
      /\ \A a : Carries(zdd, mapLevel, input, Out, a) => Carries(zdd, mapLevel, input, N, a)
      /\ \A l, k, j : GatheredFrom(zdd, mapLevel, input, Out, l, k, j)
                         => GatheredFrom(zdd, mapLevel, input, N, l, k, j)
  BY <1>2, <1>3, GrownStands
<1>5. /\ UNCHANGED <<zdd, input, mapLevel, levels, pq, phase, label, eHigh, red1, lastRed1>>
      /\ grouping' \subseteq grouping
  BY DEF MappedTo
<1>6. TheJob' /\ Sweeping'
  BY <1>1, <1>5 DEF TheJob, Sweeping
<1>7. PICK x : x = [old |-> n.uid, new |-> u]
  OBVIOUS
<1>8. red2' = red2 \cup {x} /\ x.old = m.uid /\ x.new = u
  BY <1>7 DEF MappedTo, Taken
<1>9. DoneIsSettled'
  <2>1. \A k : IsDone(k)' => IsDone(k) \/ k = m.uid
    BY <1>5, <1>8 DEF IsDone
  <2>2. \A k \in input : k.uid = m.uid => k = m
    <3>1. m \in input
      BY DEF Taken
    <3>2. PlainDiagram(input)
      BY Setting DEF CanonInv
    <3> QED BY <3>1, <3>2, PlainFollows
  <2>3. \A k \in input : IsDone(k.uid)' => Settled(zdd, mapLevel, input, N, k)
    BY <1>1, <1>2, <1>4, <2>1, <2>2 DEF DoneIsSettled
  <2> QED BY <1>2, <1>5, <2>3 DEF DoneIsSettled
<1>10. ArcsCarry'
  BY <1>1, <1>2, <1>4, <1>5 DEF ArcsCarry
<1>11. MappingsStand'
  <2>1. \A y \in red1 \cup red2 : Stands(zdd, mapLevel, input, N, y.new, y.old)
    BY <1>1, <1>4 DEF MappingsStand
  <2>2. \A y \in red2 : y.new \in OutUids'
    BY <1>1 DEF MappingsStand, OutUids
  <2>3. \A y \in (red1 \cup red2)' : Stands(zdd, mapLevel, input, N, y.new, y.old)
    BY <1>2, <1>5, <1>8, <2>1
  <2>4. \A y \in red2' : y.new \in OutUids'
    BY <1>8, <2>2
  <2> QED BY <1>2, <1>5, <2>3, <2>4 DEF MappingsStand
<1>12. IsGathered'
  <2>1. \A k \in grouping : \E j \in input : GatheredFrom(zdd, mapLevel, input, N, mapLevel[label], k, j)
    BY <1>1, <1>4 DEF IsGathered
  <2>2. \A k, j \in grouping : k.uid = j.uid => k = j
    BY <1>1 DEF IsGathered
  <2> QED BY <1>2, <1>5, <2>1, <2>2 DEF IsGathered
<1>13. SomeMapping' /\ AtStart'
  BY <1>5 DEF SomeMapping, AtStart
<1> QED BY <1>6, <1>9, <1>10, <1>11, <1>12, <1>13 DEF CanonInv

LEMMA OneLessIsLeft ==
    ASSUME ReduceInv, CanonInv, phase = "output", NEW n \in grouping
    PROVE  /\ IsFiniteSet(grouping \ {n})
           /\ Cardinality(grouping \ {n}) \in Nat /\ WidthOf(input, label) \in Nat
           /\ outId \in -1 .. MaxId
           /\ Cardinality(grouping \ {n}) + 1 + (MaxId - outId) <= WidthOf(input, label)
           /\ outId \in 0 .. MaxId /\ WidthOf(input, label) <= MaxId + 1
<1>1. /\ IsFiniteSet(grouping) /\ outId \in -1 .. MaxId
      /\ Cardinality(grouping) + (MaxId - outId) <= WidthOf(input, label)
  BY DEF CanonInv, Sweeping, Numbering
<1>2. PICK c \in Nat : c = Cardinality(grouping)
  BY <1>1, FS_CardinalityType, Zenon
<1>3. IsFiniteSet(grouping \ {n}) /\ Cardinality(grouping \ {n}) = c - 1
  BY <1>1, <1>2, FS_RemoveElement, Zenon
<1>4. PICK d \in Nat : d = Cardinality(grouping \ {n})
  BY <1>3, FS_CardinalityType, Zenon
<1>5. PICK b \in Nat : b = WidthOf(input, label) /\ b <= MaxId + 1
  <2>1. PlainDiagram(input) /\ label \in Level
    BY Setting, LevelsAreNumbers DEF ReduceInv, CanonInv
  <2> QED BY <2>1, LevelsHaveRoom DEF WidthOf
<1>6. d = c - 1
  BY <1>3, <1>4
<1>7. c + (MaxId - outId) <= b
  BY <1>1, <1>2, <1>5
<1>8. d + 1 + (MaxId - outId) <= b /\ outId \in 0 .. MaxId
  BY <1>1, <1>2, <1>4, <1>5, <1>6, <1>7, DiagramAssumption
<1> QED BY <1>1, <1>3, <1>4, <1>5, <1>8

LEMMA OutputSameCanon ==
    ASSUME ReduceInv, CanonInv, phase = "output",
           NEW n, NEW m, NEW low, NEW high, Taken(n, m, low, high), MappedTo(n, outNode'.uid),
           OutputSame(n)
    PROVE  CanonInv'
<1> DEFINE l == mapLevel[label]
<1>1. /\ outNode' = outNode /\ outId' = outId /\ w' = w
      /\ outNode.low = low /\ outNode.high = high
  BY DEF OutputSame, SameChildren, Taken
<1>2. /\ TheJob /\ TheWriter /\ OutIsTidy /\ Numbering /\ Sweeping
  BY DEF CanonInv, Sweeping
<1>3. /\ n \in grouping /\ m \in input /\ n.uid = m.uid /\ LevelOf(m.uid) = label
      /\ label \in DOMAIN mapLevel /\ l \in Level /\ l \in Nat
      /\ Stands(zdd, mapLevel, input, Out, low, m.low)
      /\ Stands(zdd, mapLevel, input, Out, high, m.high)
      /\ FlagsAside(low) /\ ~IsRedundant(zdd, low, high)
  BY DEF Taken, Level
<1>4. /\ IsFiniteSet(grouping \ {n})
      /\ Cardinality(grouping \ {n}) \in Nat /\ WidthOf(input, label) \in Nat
      /\ Cardinality(grouping \ {n}) + 1 + (MaxId - outId) <= WidthOf(input, label)
      /\ outId \in 0 .. MaxId
  BY <1>3, OneLessIsLeft
<1>5. MaxId \in Nat
  BY DiagramAssumption
<1>6. outId < MaxId
  <2> SUFFICES ASSUME outId = MaxId PROVE FALSE
    BY <1>4, <1>5
  <2>1. outNode = NoNode
    BY <1>2 DEF Numbering
  <2>2. low = Nil
    BY <1>1, <2>1 DEF NoNode, Node
  <2>3. PICK x : x = Nil
    OBVIOUS
  <2>4. low \in Nat /\ low < x
    BY <1>3, <2>3 DEF FlagsAside
  <2> QED BY <2>2, <2>3, <2>4
<1>7. /\ outNode \in Out /\ outNode.uid = Uid(l, outId + 1)
      /\ \A k \in Out : k = outNode \/ k.uid > outNode.uid
  BY <1>2, <1>6 DEF Numbering
<1>8. outId + 1 \in 0 .. MaxId
  BY <1>4, <1>5, <1>6
<1>9. LevelOf(outNode.uid) = l
  BY <1>3, <1>7, <1>8, UidIs
<1>10. PlainDiagram(Out) /\ Tidy(Out)
  BY <1>2 DEF OutIsTidy, Tidy
<1>11. PlainDiagram(input) /\ Renames(mapLevel) /\ zdd \in BOOLEAN
  BY <1>2, Setting
<1> HIDE DEF l
<1>12. Stands(zdd, mapLevel, input, Out, outNode.uid, m.uid)
  <2>1. \A k \in Out : LevelOf(k.uid) = mapLevel[LevelOf(m.uid)] /\ k.low = low /\ k.high = high
                          => Stands(zdd, mapLevel, input, Out, k.uid, m.uid)
    BY <1>3, <1>10, <1>11, NodesStand
  <2> QED BY <1>1, <1>3, <1>7, <1>9, <2>1 DEF l
<1>13. Settled(zdd, mapLevel, input, Out, m)
  <2>1. outNode.uid \in PointersAt(Out, 0) /\ low \in PointersAt(Out, 0) /\ high \in PointersAt(Out, 0)
    BY <1>1, <1>7, <1>10, PointersOf
  <2>2. outNode = Node(outNode.uid, low, high)
    <3>1. outNode \in NodeRecord
      BY <1>7, <1>10, PlainNodes
    <3> QED BY <1>1, <3>1 DEF NodeRecord, Node
  <2>3. Node(outNode.uid, low, high) \in Out
    BY <1>7, <2>2
  <2> QED BY <1>3, <1>12, <2>1, <2>3 DEF Settled
<1>14. Out' = Out
  BY <1>1 DEF Out
<1>15. UNCHANGED <<zdd, input, mapLevel, levels, phase, label>> /\ grouping' = grouping \ {n}
  BY DEF MappedTo
<1>16. TheWriter'
  BY <1>1, <1>2, <1>15 DEF TheWriter
<1>17. OutIsTidy'
  <2>1. \A k \in Out : \E j \in input : IsFrom(k, j)'
    BY <1>2, <1>15 DEF OutIsTidy, IsFrom
  <2>2. Tidy(Out)' /\ \A k \in Out : \E j \in input : Stands(zdd, mapLevel, input, Out, k.uid, j.uid)'
    BY <1>2, <1>14, <1>15 DEF OutIsTidy, Tidy, Reduced, ReductionRule
  <2> QED BY <1>14, <1>15, <2>1, <2>2 DEF OutIsTidy
<1>18. Numbering'
  <2>1. Cardinality(grouping') + (MaxId - outId') <= WidthOf(input', label')
    BY <1>1, <1>4, <1>5, <1>15
  <2>2. \A k \in grouping' : ComesNext(k)'
    BY <1>1, <1>2, <1>15 DEF Numbering, ComesNext
  <2>3. outId \in -1 .. MaxId
    BY <1>4, <1>5
  <2> QED BY <1>1, <1>4, <1>5, <1>6, <1>7, <1>14, <1>15, <2>1, <2>2, <2>3 DEF Numbering, l
<1>19. Tidy(Out') /\ Out \subseteq Out'
  BY <1>10, <1>14
<1>20. outNode'.uid \in OutUids'
  BY <1>1, <1>7, <1>14 DEF OutUids
<1>21. /\ Stands(zdd, mapLevel, input, Out', outNode'.uid, m.uid)
       /\ Settled(zdd, mapLevel, input, Out', m)
  BY <1>1, <1>12, <1>13, <1>14
<1> QED BY <1>16, <1>17, <1>18, <1>19, <1>20, <1>21, OutputKeepsTheRest

(* The node written for a new pair of children keeps the output tidy.      *)
LEMMA NewNodeIs ==
    ASSUME ReduceInv, CanonInv, phase = "output",
           NEW n, NEW m, NEW low, NEW high, Taken(n, m, low, high), ~SameChildren(n),
           NEW o, o = Node(Uid(mapLevel[label], outId), low, high)
    PROVE  /\ IsInner(o) /\ o.uid = Uid(mapLevel[label], outId) /\ o.low = low /\ o.high = high
           /\ LevelOf(o.uid) = mapLevel[label] /\ IdOf(o.uid) = outId
           /\ \A k \in Out : o.uid < k.uid
           /\ outId = MaxId => \A k \in Out : mapLevel[label] < LevelOf(k.uid)
           /\ outId < MaxId => /\ outNode \in Out /\ LevelOf(outNode.uid) = mapLevel[label]
                               /\ IdOf(outNode.uid) = outId + 1
                               /\ \A k \in Out : k = outNode \/ k.uid > outNode.uid
                               /\ Precedes(outNode, o)
<1>1. PICK l \in Level : l = mapLevel[label]
  BY DEF Taken
<1>2. /\ n \in grouping /\ FlagsAside(low) /\ FlagsAside(high)
      /\ Unflag(n.low) = low /\ Unflag(n.high) = high
  BY DEF Taken
<1>3. outId \in 0 .. MaxId /\ MaxId \in Nat /\ l \in Nat
  <2>1. outId \in 0 .. MaxId
    BY <1>2, OneLessIsLeft
  <2>2. MaxId \in Nat /\ l \in Nat
    BY DiagramAssumption DEF Level
  <2> QED BY <2>1, <2>2
<1>4. low \in Nat /\ high \in Nat /\ low # Nil
  <2>1. PICK x : x = Nil
    OBVIOUS
  <2>2. low \in Nat /\ high \in Nat /\ low < x
    BY <1>2, <2>1 DEF FlagsAside
  <2> QED BY <2>1, <2>2
<1>5. /\ Uid(l, outId) \in Nat /\ LevelOf(Uid(l, outId)) = l /\ IdOf(Uid(l, outId)) = outId
  BY <1>3, UidIs
<1>6. /\ o \in NodeRecord /\ o.uid = Uid(l, outId) /\ o.low = low /\ o.high = high
  BY <1>1, <1>4, <1>5, NodeIs
<1>7. IsInner(o)
  BY <1>3, <1>4, <1>6 DEF IsInner
<1>8. LevelOf(o.uid) = l /\ IdOf(o.uid) = outId
  BY <1>5, <1>6
<1>9. Numbering /\ Tidy(Out) /\ PlainDiagram(Out)
  BY DEF CanonInv, Sweeping, OutIsTidy, Tidy
<1>10. \A k \in Out : /\ k.uid \in Nat
                      /\ \E lk \in Level, i \in 0 .. MaxId : k.uid = Uid(lk, i) /\ LevelOf(k.uid) = lk
  <2> SUFFICES ASSUME NEW k \in Out
               PROVE  /\ k.uid \in Nat
                      /\ \E lk \in Level, i \in 0 .. MaxId : k.uid = Uid(lk, i) /\ LevelOf(k.uid) = lk
    OBVIOUS
  <2>1. PICK lk \in Level, i \in 0 .. MaxId : k.uid = Uid(lk, i)
    BY <1>9 DEF PlainDiagram, HoldsDiagram, HoldsNodes, IsInner
  <2>2. lk \in Nat
    BY DEF Level
  <2>3. LevelOf(Uid(lk, i)) = lk /\ Uid(lk, i) \in Nat
    BY <2>2, UidIs
  <2> QED BY <2>1, <2>3
<1>11. outId = MaxId => \A k \in Out : l < LevelOf(k.uid)
  BY <1>1, <1>9 DEF Numbering
<1>12. outId < MaxId => /\ outNode \in Out /\ outNode.uid = Uid(l, outId + 1)
                        /\ \A k \in Out : k = outNode \/ k.uid > outNode.uid
  BY <1>1, <1>9 DEF Numbering
<1>13. outId < MaxId => /\ LevelOf(outNode.uid) = l /\ IdOf(outNode.uid) = outId + 1
                        /\ o.uid < outNode.uid
  <2> SUFFICES ASSUME outId < MaxId
               PROVE  /\ LevelOf(outNode.uid) = l /\ IdOf(outNode.uid) = outId + 1
                      /\ o.uid < outNode.uid
    OBVIOUS
  <2>1. outId + 1 \in 0 .. MaxId /\ outId < outId + 1
    BY <1>3
  <2>2. Uid(l, outId) < Uid(l, outId + 1) <=> l < l \/ (l = l /\ outId < outId + 1)
    BY <1>3, <2>1, UidsAreOrdered
  <2>3. LevelOf(Uid(l, outId + 1)) = l /\ IdOf(Uid(l, outId + 1)) = outId + 1
    BY <1>3, <2>1, UidIs
  <2> QED BY <1>6, <1>12, <2>1, <2>2, <2>3
<1>14. \A k \in Out : o.uid < k.uid
  <2> SUFFICES ASSUME NEW k \in Out PROVE o.uid < k.uid
    OBVIOUS
  <2>1. o.uid \in Nat /\ k.uid \in Nat
    BY <1>5, <1>6, <1>10
  <2>2. CASE outId = MaxId
    <3>1. PICK lk \in Level, i \in 0 .. MaxId : k.uid = Uid(lk, i) /\ LevelOf(k.uid) = lk
      BY <1>10
    <3>2. l < lk /\ lk \in Nat
      BY <1>11, <2>2, <3>1 DEF Level
    <3>3. Uid(l, outId) < Uid(lk, i) <=> l < lk \/ (l = lk /\ outId < i)
      BY <1>3, <3>2, UidsAreOrdered
    <3> QED BY <1>6, <3>1, <3>2, <3>3
  <2>3. CASE outId < MaxId
    <3>1. outNode.uid \in Nat
      BY <1>10, <1>12, <2>3
    <3> QED BY <1>12, <1>13, <2>1, <2>3, <3>1
  <2> QED BY <1>3, <2>2, <2>3
<1>15. outId < MaxId => Precedes(outNode, o)
  <2> SUFFICES ASSUME outId < MaxId PROVE Precedes(outNode, o)
    OBVIOUS
  <2>1. outNode \in NodeRecord
    BY <1>9, <1>12, PlainNodes
  <2>2. outNode.low \in Nat /\ outNode.high \in Nat
    BY <2>1 DEF NodeRecord
  <2>3. \/ outNode.high > high
        \/ outNode.high = high /\ outNode.low >= low
    BY <1>2, <1>9 DEF Numbering, ComesNext
  <2>4. ~(outNode.low = low /\ outNode.high = high)
    BY <1>2 DEF SameChildren
  <2> QED BY <1>4, <1>6, <2>2, <2>3, <2>4 DEF Precedes
<1> QED BY <1>1, <1>6, <1>7, <1>8, <1>11, <1>12, <1>13, <1>14, <1>15

LEMMA TidyGrows ==
    ASSUME ReduceInv, CanonInv, phase = "output",
           NEW n, NEW m, NEW low, NEW high, Taken(n, m, low, high), ~SameChildren(n),
           NEW o, o = Node(Uid(mapLevel[label], outId), low, high)
    PROVE  Tidy(Out \cup {o})
<1>1. PICK l \in Level : l = mapLevel[label]
  BY DEF Taken
<1>2. /\ IsInner(o) /\ o.uid = Uid(l, outId) /\ o.low = low /\ o.high = high
      /\ LevelOf(o.uid) = l /\ IdOf(o.uid) = outId
      /\ \A k \in Out : o.uid < k.uid
      /\ outId = MaxId => \A k \in Out : l < LevelOf(k.uid)
      /\ outId < MaxId => /\ outNode \in Out /\ LevelOf(outNode.uid) = l
                          /\ IdOf(outNode.uid) = outId + 1
                          /\ \A k \in Out : k = outNode \/ k.uid > outNode.uid
                          /\ Precedes(outNode, o)
  BY <1>1, NewNodeIs
<1>3. /\ n \in grouping /\ FlagsAside(low) /\ FlagsAside(high) /\ ~IsRedundant(zdd, low, high)
      /\ low \in PointersAt(Out, l + 1) /\ high \in PointersAt(Out, l + 1)
  BY <1>1 DEF Taken
<1>4. outId \in 0 .. MaxId /\ MaxId \in Nat /\ l \in Nat
  <2>1. outId \in 0 .. MaxId
    BY <1>3, OneLessIsLeft
  <2>2. MaxId \in Nat /\ l \in Nat
    BY DiagramAssumption DEF Level
  <2> QED BY <2>1, <2>2
<1>5. PlainDiagram(Out) /\ Reduced(Out) /\ IsOrdered(Out) /\ IsContiguous(Out) /\ HoldsNodes(Out)
  BY DEF CanonInv, Sweeping, OutIsTidy, Tidy, PlainDiagram, HoldsDiagram
<1>6. \A k \in Out : k.uid \in Nat /\ k \in NodeRecord /\ LevelOf(k.uid) \in Nat
  BY <1>5, PlainNodes
<1>7. \A p \in PointersAt(Out, l + 1) :
          (\E v \in BOOLEAN : p = Terminal(v)) \/ \E k \in Out : k.uid = p /\ l < LevelOf(k.uid)
  BY <1>4, <1>6 DEF PointersAt
<1>8. \A s \in Sides : (\E v \in BOOLEAN : o[s] = Terminal(v))
                          \/ \E k \in Out : k.uid = o[s] /\ l < LevelOf(k.uid)
  BY <1>2, <1>3, <1>7 DEF Sides
<1>9. IsTopNode(o, Out)
  <2>1. \A v \in BOOLEAN : IsTerminal(Terminal(v))
    BY TerminalsAre
  <2>2. \A s \in Sides : \/ IsTerminal(o[s])
                         \/ \E k \in Out : k.uid = o[s] /\ LevelOf(o.uid) < LevelOf(k.uid)
    BY <1>2, <1>8, <2>1, Zenon
  <2> QED BY <1>2, <2>2 DEF IsTopNode
<1>10. PlainDiagram(Out \cup {o})
  <2>1. \A s \in Sides : (\E v \in BOOLEAN : o[s] = Terminal(v)) \/ \E k \in Out : k.uid = o[s]
    BY <1>8
  <2> QED BY <1>5, <1>9, <2>1, PlainGrows
<1>11. \A k \in Out : ~(LevelOf(k.uid) = l /\ k.low = low /\ k.high = high)
  <2> SUFFICES ASSUME NEW k \in Out, LevelOf(k.uid) = l, k.low = low, k.high = high PROVE FALSE
    OBVIOUS
  <2>1. outId < MaxId
    BY <1>2, <1>4
  <2>2. outNode \in NodeRecord /\ Precedes(outNode, o)
    BY <1>2, <1>6, <2>1
  <2>3. /\ low \in Nat /\ high \in Nat /\ outNode.low \in Nat /\ outNode.high \in Nat
    BY <1>3, <2>2 DEF NodeRecord, FlagsAside
  <2>4. \/ outNode.high > high
        \/ outNode.high = high /\ outNode.low > low
    BY <1>2, <2>2 DEF Precedes
  <2>5. k # outNode
    BY <2>3, <2>4
  <2>6. k.uid > outNode.uid /\ LevelOf(k.uid) = LevelOf(outNode.uid)
    BY <1>2, <2>1, <2>5
  <2>7. Precedes(k, outNode)
    BY <1>2, <1>5, <2>1, <2>6 DEF IsOrdered
  <2> QED BY <2>3, <2>4, <2>7 DEF Precedes
<1>12. Reduced(Out \cup {o})
  <2>1. ReductionRule(o) = o.uid
    BY <1>2, <1>3, RuleIs
  <2>2. \A k \in Out \cup {o} : ReductionRule(k) = k.uid
    BY <1>5, <2>1 DEF Reduced
  <2>3. \A j, k \in Out \cup {o} :
            LevelOf(j.uid) = LevelOf(k.uid) /\ j.low = k.low /\ j.high = k.high => j = k
    BY <1>2, <1>5, <1>11 DEF Reduced
  <2> QED BY <2>2, <2>3 DEF Reduced
<1>13. IsOrdered(Out \cup {o}) /\ IsContiguous(Out \cup {o})
  <2>1. CASE Out = {}
    <3>1. outId = MaxId
      BY <1>2, <1>4, <2>1
    <3>2. Out \cup {o} = {o}
      BY <2>1
    <3> QED BY <1>2, <3>1, <3>2, OrderOfOne
  <2>2. CASE Out # {}
    <3>1. PICK t \in Out : /\ \A k \in Out : k = t \/ k.uid > t.uid
                           /\ outId < MaxId => t = outNode
      <4>1. CASE outId < MaxId
        BY <1>2, <4>1
      <4>2. CASE outId = MaxId
        <5>1. PICK u \in OutUids : \A x \in OutUids : u <= x
          <6>1. OutUids \subseteq Nat /\ OutUids # {}
            BY <1>6, <2>2 DEF OutUids
          <6> QED BY <6>1, LeastExists
        <5>2. PICK t \in Out : t.uid = u
          BY DEF OutUids
        <5>3. \A k \in Out : k = t \/ k.uid > t.uid
          <6> SUFFICES ASSUME NEW k \in Out, k # t PROVE k.uid > t.uid
            OBVIOUS
          <6>1. k.uid # t.uid
            BY <1>5, PlainFollows
          <6>2. t.uid <= k.uid
            BY <5>1, <5>2 DEF OutUids
          <6> QED BY <1>6, <6>1, <6>2
        <5> QED BY <1>4, <4>2, <5>3
      <4> QED BY <1>4, <4>1, <4>2
    <3>2. o.uid < t.uid
      BY <1>2
    <3>3. /\ IsOrdered(Out \cup {o}) <=>
                 IsOrdered(Out) /\ (LevelOf(t.uid) # LevelOf(o.uid) \/ Precedes(t, o))
          /\ IsContiguous(Out \cup {o}) <=>
                 /\ IsContiguous(Out)
                 /\ IF LevelOf(t.uid) # LevelOf(o.uid) THEN IdOf(o.uid) = MaxId
                                                       ELSE IdOf(o.uid) = IdOf(t.uid) - 1
      BY <1>2, <1>5, <3>1, <3>2, OrderGrows
    <3>4. CASE outId = MaxId
      <4>1. LevelOf(t.uid) # l
        BY <1>2, <1>4, <1>6, <3>4
      <4> QED BY <1>2, <1>5, <3>3, <3>4, <4>1
    <3>5. CASE outId < MaxId
      <4>1. LevelOf(t.uid) = l /\ Precedes(t, o) /\ IdOf(t.uid) = outId + 1
        BY <1>2, <3>1, <3>5
      <4>2. IdOf(o.uid) = IdOf(t.uid) - 1
        BY <1>2, <1>4, <4>1
      <4> QED BY <1>2, <1>5, <3>3, <4>1, <4>2
    <3> QED BY <1>4, <3>4, <3>5
  <2> QED BY <2>1, <2>2
<1> QED BY <1>10, <1>12, <1>13 DEF Tidy

LEMMA OutputNewCanon ==
    ASSUME ReduceInv, CanonInv, phase = "output",
           NEW n, NEW m, NEW low, NEW high, Taken(n, m, low, high), MappedTo(n, outNode'.uid),
           OutputNew(n)
    PROVE  CanonInv'
<1>1. PICK l \in Level : l = mapLevel[label]
  BY DEF Taken
<1>2. PICK o : o = Node(Uid(mapLevel[label], outId), low, high)
  OBVIOUS
<1>3. /\ ~SameChildren(n) /\ outNode' = o /\ outId' = outId - 1 /\ w' = UnsafePushNode(w, o)
  BY <1>2 DEF OutputNew, Taken
<1>4. /\ IsInner(o) /\ o.uid = Uid(l, outId) /\ o.low = low /\ o.high = high
      /\ LevelOf(o.uid) = l /\ IdOf(o.uid) = outId
      /\ \A k \in Out : o.uid < k.uid
  BY <1>1, <1>2, <1>3, NewNodeIs
<1>5. o \in NodeRecord /\ o.uid \in Nat
  BY <1>4 DEF IsInner, NodeRecord
<1>6. PICK N : N = Out
  OBVIOUS
<1>7. PICK M : M = N \cup {o}
  OBVIOUS
<1>8. Tidy(M)
  BY <1>2, <1>3, <1>6, <1>7, TidyGrows
<1>9. /\ TheJob /\ TheWriter /\ OutIsTidy /\ Numbering /\ Sweeping
  BY DEF CanonInv, Sweeping
<1>10. /\ n \in grouping /\ m \in input /\ n.uid = m.uid /\ LevelOf(m.uid) = label
       /\ label \in DOMAIN mapLevel /\ l \in Nat
       /\ Stands(zdd, mapLevel, input, N, low, m.low)
       /\ Stands(zdd, mapLevel, input, N, high, m.high)
       /\ \A k \in grouping : ChildrenFirst(n, k)
       /\ Unflag(n.low) = low /\ Unflag(n.high) = high
  BY <1>6 DEF Taken, Level
<1>11. /\ IsFiniteSet(grouping \ {n})
       /\ Cardinality(grouping \ {n}) \in Nat /\ WidthOf(input, label) \in Nat
       /\ Cardinality(grouping \ {n}) + 1 + (MaxId - outId) <= WidthOf(input, label)
       /\ outId \in 0 .. MaxId
  BY <1>10, OneLessIsLeft
<1>12. MaxId \in Nat
  BY DiagramAssumption
<1>13. /\ SameFile(w', w) /\ w'.file.nodes = Append(w.file.nodes, o)
       /\ w.file.nodes \in Seq(NodeRecord) /\ HasFields(w)
  <2>1. HasFields(w)
    BY <1>9 DEF TheWriter
  <2> QED BY <1>3, <1>5, <2>1, PushedNode DEF HasFields
<1>14. /\ NodesOf(w'.file) = NodesOf(w.file) \cup {o}
       /\ UidsFall(w.file.nodes) /\ (\A k \in NodesOf(w.file) : k.uid > o.uid) => UidsFall(w'.file.nodes)
  <2>1. PICK f, g : f = w.file /\ g = w'.file
    OBVIOUS
  <2>2. f.nodes \in Seq(NodeRecord) /\ g.nodes = Append(f.nodes, o)
    BY <1>13, <2>1
  <2>3. /\ NodesOf(g) = NodesOf(f) \cup {o}
        /\ UidsFall(f.nodes) /\ (\A k \in NodesOf(f) : k.uid > o.uid) => UidsFall(g.nodes)
    BY <1>5, <2>2, AppendedNode
  <2> QED BY <2>1, <2>3
<1>15. Out' = M /\ N \subseteq M /\ o \in M
  BY <1>6, <1>7, <1>14 DEF Out
<1>16. UNCHANGED <<zdd, input, mapLevel, levels, phase, label>> /\ grouping' = grouping \ {n}
  BY DEF MappedTo
<1>17. PlainDiagram(N) /\ PlainDiagram(M)
  BY <1>6, <1>8, <1>9 DEF OutIsTidy, Tidy
<1>18. TheWriter'
  <2>1. UidsFall(w'.file.nodes)
    <3>1. \A k \in NodesOf(w.file) : k.uid > o.uid
      <4>1. \A k \in Out : k.uid \in Nat
        BY <1>6, <1>17, PlainNodes
      <4> QED BY <1>4, <1>5, <4>1 DEF Out
    <3> QED BY <1>9, <1>14, <3>1 DEF TheWriter
  <2>2. w'.file.nodes # <<>>
    <3>1. PICK s \in Seq(NodeRecord) : s = w.file.nodes
      BY <1>13
    <3>2. Append(s, o) # <<>>
      <4>1. Len(Append(s, o)) = Len(s) + 1 /\ Len(s) \in Nat
        BY <1>5
      <4>2. Len(s) + 1 # 0
        BY <4>1
      <4>3. Len(<<>>) = 0
        OBVIOUS
      <4> QED BY <4>1, <4>2, <4>3
    <3> QED BY <1>13, <3>1, <3>2
  <2> QED BY <1>9, <1>13, <1>16, <2>1, <2>2 DEF TheWriter, SameFile
<1>19. \A q, p : Stands(zdd, mapLevel, input, N, q, p) => Stands(zdd, mapLevel, input, M, q, p)
  BY <1>15, <1>17, GrownStands
<1>20. Stands(zdd, mapLevel, input, M, low, m.low) /\ Stands(zdd, mapLevel, input, M, high, m.high)
  BY <1>10, <1>19
<1>21. Stands(zdd, mapLevel, input, M, o.uid, m.uid)
  <2>1. PlainDiagram(input) /\ Renames(mapLevel) /\ zdd \in BOOLEAN
    BY <1>9, Setting
  <2>2. \A k \in M : LevelOf(k.uid) = mapLevel[LevelOf(m.uid)] /\ k.low = low /\ k.high = high
                        => Stands(zdd, mapLevel, input, M, k.uid, m.uid)
    BY <1>10, <1>17, <1>20, <2>1, NodesStand
  <2> QED BY <1>1, <1>4, <1>10, <1>15, <2>2
<1>22. Settled(zdd, mapLevel, input, M, m)
  <2>1. o.uid \in PointersAt(M, 0) /\ low \in PointersAt(M, 0) /\ high \in PointersAt(M, 0)
    BY <1>4, <1>15, <1>17, PointersOf
  <2>2. Node(o.uid, low, high) \in M
    BY <1>4, <1>5, <1>15 DEF NodeRecord, Node
  <2> QED BY <1>20, <1>21, <2>1, <2>2 DEF Settled
<1>23. OutIsTidy'
  <2>1. \A k \in N : \E j \in input : IsFrom(k, j)'
    BY <1>6, <1>9, <1>16 DEF OutIsTidy, IsFrom
  <2>2. IsFrom(o, m)'
    <3>1. label \notin levels
      <4>1. Proper
        BY <1>9, Setting
      <4> QED BY <4>1, LevelsAreNumbers DEF ReduceInv
    <3>2. IdOf(o.uid) + WidthOf(input, label) > MaxId
      <4>1. PICK c \in Nat : c = Cardinality(grouping \ {n})
        BY <1>11
      <4>2. PICK b \in Nat : b = WidthOf(input, label)
        BY <1>11
      <4>3. c + 1 + (MaxId - outId) <= b
        BY <1>11, <4>1, <4>2
      <4>4. outId + b > MaxId
        BY <1>11, <1>12, <4>3
      <4> QED BY <1>4, <4>2, <4>4
    <3> QED BY <1>1, <1>4, <1>10, <1>16, <3>1, <3>2 DEF IsFrom
  <2>3. \A k \in M : \E j \in input : IsFrom(k, j)'
    BY <1>7, <1>10, <2>1, <2>2
  <2>4. \A k \in M : \E j \in input : Stands(zdd, mapLevel, input, M, k.uid, j.uid)
    BY <1>6, <1>7, <1>9, <1>10, <1>19, <1>21 DEF OutIsTidy
  <2>5. Tidy(M)' /\ M' = M
    <3>1. zdd' = zdd
      BY <1>16
    <3> QED BY <1>8, <3>1 DEF Tidy, Reduced, ReductionRule
  <2> QED BY <1>15, <1>16, <2>3, <2>4, <2>5 DEF OutIsTidy, Tidy, Reduced, ReductionRule
<1>24. Numbering'
  <2>1. outId' \in -1 .. MaxId /\ outId' < MaxId /\ outId' # MaxId /\ outId' + 1 = outId
    BY <1>3, <1>11, <1>12
  <2>2. Cardinality(grouping') + (MaxId - outId') <= WidthOf(input', label')
    <3>1. PICK c \in Nat : c = Cardinality(grouping \ {n})
      BY <1>11
    <3>2. PICK b \in Nat : b = WidthOf(input, label)
      BY <1>11
    <3>3. c + 1 + (MaxId - outId) <= b
      BY <1>11, <3>1, <3>2
    <3>4. c + (MaxId - outId') <= b
      BY <1>3, <1>11, <1>12, <3>3
    <3> QED BY <1>16, <3>1, <3>2, <3>4
  <2>3. \A k \in grouping' : ComesNext(k)'
    BY <1>3, <1>4, <1>10, <1>16 DEF ComesNext, ChildrenFirst
  <2>4. outNode' \in Out' /\ outNode'.uid = Uid(mapLevel'[label'], outId' + 1)
    BY <1>1, <1>3, <1>4, <1>15, <1>16, <2>1
  <2>5. \A k \in Out' : k = outNode' \/ k.uid > outNode'.uid
    <3>1. \A k \in N : k.uid \in Nat
      BY <1>17, PlainNodes
    <3> QED BY <1>3, <1>4, <1>5, <1>6, <1>7, <1>15, <3>1
  <2> QED BY <1>11, <1>16, <2>1, <2>2, <2>3, <2>4, <2>5 DEF Numbering
<1>25. Tidy(Out') /\ Out \subseteq Out'
  BY <1>6, <1>8, <1>15
<1>26. outNode'.uid \in OutUids'
  BY <1>3, <1>15 DEF OutUids
<1>27. /\ Stands(zdd, mapLevel, input, Out', outNode'.uid, m.uid)
       /\ Settled(zdd, mapLevel, input, Out', m)
  BY <1>3, <1>15, <1>21, <1>22
<1> QED BY <1>18, <1>23, <1>24, <1>25, <1>26, <1>27, OutputKeepsTheRest

LEMMA OutputCanon ==
    ASSUME ReduceInv, CanonInv, Output, UNCHANGED <<zdd, input, mapLevel>>
    PROVE  CanonInv'
<1>1. phase = "output"
  BY OutputTakes
<1>2. PICK n, m, low, high : /\ Taken(n, m, low, high) /\ MappedTo(n, outNode'.uid)
                             /\ OutputNew(n) \/ OutputSame(n)
  BY OutputTakes
<1> QED BY <1>1, <1>2, OutputNewCanon, OutputSameCanon

-----------------------------------------------------------------------------
(* The end of the output, and the forwarding of the mappings               *)

LEMMA EndOutputCanon ==
    ASSUME ReduceInv, CanonInv, EndOutput, UNCHANGED <<zdd, input, mapLevel>>
    PROVE  CanonInv'
<1>1. /\ phase = "output" /\ grouping = {} /\ phase' = "forward"
      /\ w' = IF outId < MaxId THEN UnsafePushLevel(w, mapLevel[label], MaxId - outId) ELSE w
      /\ UNCHANGED <<levels, pq, label, eHigh, grouping, red1, red2, lastRed1>>
  BY DEF EndOutput, levelVars
<1>2. /\ TheJob /\ TheWriter /\ OutIsTidy /\ DoneIsSettled /\ ArcsCarry /\ MappingsStand /\ Numbering
  BY <1>1 DEF CanonInv, Sweeping
<1>3. SameFile(w', w) /\ w'.file.nodes = w.file.nodes
  <2>1. HasFields(w)
    BY <1>2 DEF TheWriter
  <2>2. SameFile(w, w)
    BY <2>1 DEF SameFile
  <2> QED BY <1>1, <2>1, <2>2, PushedLevel
<1>4. Out' = Out
  BY <1>3 DEF Out, NodesOf
<1>5. w'.file.nodes = <<>> => w'.file.levels = <<>>
  <2> SUFFICES ASSUME w'.file.nodes = <<>> PROVE w'.file.levels = <<>>
    OBVIOUS
  <2>1. w.file.nodes = <<>>
    BY <1>3
  <2>2. Out = {}
    BY <2>1, NothingIsOut
  <2>3. ~(outId < MaxId)
    BY <1>1, <1>2, <2>2 DEF Numbering
  <2> QED BY <1>1, <1>2, <2>1, <2>3 DEF TheWriter
<1>6. TheWriter'
  BY <1>1, <1>2, <1>3, <1>5 DEF TheWriter, SameFile
<1>7. TheJob' /\ Sweeping'
  BY <1>1, <1>2 DEF TheJob, Sweeping
<1>8. OutIsTidy'
  <2>1. \A k \in Out : \E j \in input : IsFrom(k, j)'
    BY <1>1, <1>2 DEF OutIsTidy, IsFrom
  <2>2. Tidy(Out)' /\ \A k \in Out : \E j \in input : Stands(zdd, mapLevel, input, Out, k.uid, j.uid)'
    BY <1>2, <1>4 DEF OutIsTidy, Tidy, Reduced, ReductionRule
  <2> QED BY <1>4, <2>1, <2>2 DEF OutIsTidy
<1>9. \A u \in UidsHere : \E x \in red1 \cup red2 : x.old = u
  <2>1. UidsHere \subseteq Got
    BY <1>1 DEF ReduceInv, AllWerePulled
  <2> QED BY <1>1, <2>1 DEF Got
<1>10. DoneIsSettled'
  <2>1. \A j \in input : IsDone(j.uid)' => IsDone(j.uid)
    BY <1>1, <1>9 DEF IsDone, UidsHere, Uids
  <2> QED BY <1>2, <1>4, <2>1 DEF DoneIsSettled
<1>11. ArcsCarry'
  BY <1>1, <1>2, <1>4 DEF ArcsCarry
<1>12. MappingsStand'
  <2>1. OutUids' = OutUids
    BY <1>4 DEF OutUids
  <2> QED BY <1>1, <1>2, <1>4, <2>1 DEF MappingsStand
<1>13. SomeMapping'
  <2>1. label \in InputLevels
    BY <1>1 DEF ReduceInv, LevelsAreLeft
  <2>2. PICK u \in Uids : LevelOf(u) = label
    BY <2>1 DEF InputLevels
  <2>3. red1 \cup red2 # {}
    BY <1>9, <2>2 DEF UidsHere
  <2> QED BY <1>1, <2>3 DEF SomeMapping
<1>14. IsGathered' /\ Numbering' /\ AtStart'
  BY <1>1 DEF IsGathered, Numbering, AtStart
<1> QED BY <1>6, <1>7, <1>8, <1>10, <1>11, <1>12, <1>13, <1>14 DEF CanonInv

(* What the steps of the forwarding have in common: they leave the output  *)
(* alone.                                                                  *)
LEMMA ForwardKeeps ==
    ASSUME CanonInv, phase = "forward", phase' = "forward",
           UNCHANGED <<zdd, input, mapLevel, levels, label, w, eHigh>>
    PROVE  /\ TheJob' /\ TheWriter' /\ OutIsTidy' /\ DoneIsSettled' /\ Out' = Out /\ Sweeping'
           /\ IsGathered' /\ Numbering' /\ AtStart'
<1>1. /\ TheJob /\ TheWriter /\ OutIsTidy /\ DoneIsSettled
  BY DEF CanonInv, Sweeping
<1>2. Out' = Out
  BY DEF Out
<1>3. TheJob' /\ TheWriter' /\ Sweeping'
  BY <1>1 DEF TheJob, TheWriter, Sweeping
<1>4. OutIsTidy'
  <2>1. \A k \in Out : \E j \in input : IsFrom(k, j)'
    BY <1>1 DEF OutIsTidy, IsFrom
  <2>2. Tidy(Out)' /\ \A k \in Out : \E j \in input : Stands(zdd, mapLevel, input, Out, k.uid, j.uid)'
    BY <1>1, <1>2 DEF OutIsTidy, Tidy, Reduced, ReductionRule
  <2> QED BY <1>2, <2>1, <2>2 DEF OutIsTidy
<1>5. DoneIsSettled'
  <2>1. \A u : IsDone(u)' => IsDone(u)
    BY DEF IsDone
  <2> QED BY <1>1, <1>2, <2>1 DEF DoneIsSettled
<1>6. IsGathered' /\ Numbering' /\ AtStart'
  BY DEF IsGathered, Numbering, AtStart
<1> QED BY <1>2, <1>3, <1>4, <1>5, <1>6

LEMMA ForwardArcCanon ==
    ASSUME ReduceInv, CanonInv, ForwardArc, UNCHANGED <<zdd, input, mapLevel>>
    PROVE  CanonInv'
<1>1. /\ phase = "forward" /\ red1 \cup red2 # {} /\ Forwards /\ phase' = "forward"
      /\ UNCHANGED <<levels, w, label, eHigh, red1, red2, lastRed1>>
  BY DEF ForwardArc, levelVars
<1>2. PICK t : t = (IF IsRed1 THEN Flag(Mapped.new) ELSE Mapped.new)
  OBVIOUS
<1>3. pq' = pq \cup {Arc(PeekInternal.source, t)}
  BY <1>2 DEF ForwardArc
<1>4. /\ TheJob' /\ TheWriter' /\ OutIsTidy' /\ DoneIsSettled' /\ Out' = Out /\ Sweeping'
      /\ IsGathered' /\ Numbering' /\ AtStart'
  BY <1>1, ForwardKeeps
<1>5. ArcsCarry /\ MappingsStand /\ SomeMapping
  BY <1>1 DEF CanonInv, Sweeping
<1>6. /\ Mapped \in red1 \cup red2 /\ internal # {} /\ PeekInternal \in internal
      /\ PeekInternal.target = Mapped.old
  BY <1>1, InStep DEF Forwards
<1>7. PICK a : a = Arc(PeekInternal.source, t)
  OBVIOUS
<1>8. Carries(zdd, mapLevel, input, Out, a)
  <2>1. PeekInternal \in ArcsOf(input)
    BY <1>6 DEF ReduceInv, InternalsAreUnread
  <2>2. Stands(zdd, mapLevel, input, Out, Mapped.new, PeekInternal.target)
    BY <1>1, <1>5, <1>6 DEF MappingsStand
  <2>3. Mapped.new \in PointersAt(Out, 0)
    BY <2>2 DEF Stands
  <2>4. a.source = PeekInternal.source /\ a.target = t
    BY <1>7 DEF Arc
  <2>5. t \in {Mapped.new, Flag(Mapped.new)}
    BY <1>2
  <2> QED BY <2>1, <2>2, <2>3, <2>4, <2>5 DEF Carries
<1>9. ArcsCarry'
  <2>1. \A c \in pq' : Carries(zdd, mapLevel, input, Out, c)
    BY <1>3, <1>5, <1>7, <1>8 DEF ArcsCarry
  <2> QED BY <1>1, <1>4, <2>1 DEF ArcsCarry
<1>10. MappingsStand'
  <2>1. OutUids' = OutUids
    BY <1>4 DEF OutUids
  <2> QED BY <1>1, <1>4, <1>5, <2>1 DEF MappingsStand
<1>11. SomeMapping'
  BY <1>1 DEF SomeMapping
<1> QED BY <1>4, <1>9, <1>10, <1>11 DEF CanonInv

LEMMA NextMappingCanon ==
    ASSUME ReduceInv, CanonInv, NextMapping, UNCHANGED <<zdd, input, mapLevel>>
    PROVE  CanonInv'
<1>1. /\ phase = "forward" /\ red1 \cup red2 # {} /\ phase' = "forward"
      /\ UNCHANGED <<levels, pq, w, label, eHigh>>
  BY DEF NextMapping
<1>2. IF IsRed1 THEN red1' = red1 \ {Mapped} /\ lastRed1' = Mapped /\ UNCHANGED red2
                ELSE red2' = red2 \ {Mapped} /\ UNCHANGED <<red1, lastRed1>>
  BY DEF NextMapping
<1>3. /\ TheJob' /\ TheWriter' /\ OutIsTidy' /\ DoneIsSettled' /\ Out' = Out /\ Sweeping'
      /\ IsGathered' /\ Numbering' /\ AtStart'
  BY <1>1, ForwardKeeps
<1>4. ArcsCarry /\ MappingsStand
  BY <1>1 DEF CanonInv, Sweeping
<1>5. red1' \subseteq red1 /\ red2' \subseteq red2
  BY <1>2
<1>6. ArcsCarry'
  BY <1>1, <1>3, <1>4 DEF ArcsCarry
<1>7. MappingsStand'
  <2>1. OutUids' = OutUids
    BY <1>3 DEF OutUids
  <2>2. /\ \A x \in red1' \cup red2' : Stands(zdd, mapLevel, input, Out, x.new, x.old)
        /\ \A x \in red2' : x.new \in OutUids
    BY <1>1, <1>4, <1>5 DEF MappingsStand
  <2> QED BY <1>1, <1>3, <2>1, <2>2 DEF MappingsStand
<1>8. SomeMapping'
  <2>1. Mapped \in red1 \cup red2 /\ Mapped.old \in UidsHere
    BY <1>1, InStep
  <2>2. CASE IsRed1
    <3>1. lastRed1' = Mapped
      BY <1>2, <2>2
    <3>2. Stands(zdd, mapLevel, input, Out, Mapped.new, Mapped.old)
      BY <1>1, <1>4, <2>1 DEF MappingsStand
    <3>3. UidsHere' = UidsHere
      BY <1>1 DEF UidsHere, Uids
    <3> QED BY <1>1, <1>3, <2>1, <3>1, <3>2, <3>3 DEF SomeMapping
  <2>3. CASE ~IsRed1
    <3>1. Mapped.new \in OutUids
      BY <1>1, <1>4, <2>1, <2>3 DEF MappingsStand, IsRed1
    <3>2. Out' # {}
      BY <1>3, <3>1 DEF OutUids
    <3> QED BY <3>2 DEF SomeMapping
  <2> QED BY <2>2, <2>3
<1> QED BY <1>3, <1>6, <1>7, <1>8 DEF CanonInv

-----------------------------------------------------------------------------
(* The end of a level                                                      *)

LEMMA CutsBounded ==
    ASSUME NEW x, HasFields(x), NEW c
    PROVE  LET y == MaxOneLevelCut(x, c)
           IN  SameFile(y, x) /\ y.file.nodes = x.file.nodes /\ y.file.levels = x.file.levels
<1>1. PICK d : d = [k \in CutKinds |-> Bigger(x.file.cut1[k], c[k])]
  OBVIOUS
<1>2. PICK y : y = [x EXCEPT !.file.cut1 = d]
  OBVIOUS
<1>3. SameFile(y, x) /\ y.file.nodes = x.file.nodes /\ y.file.levels = x.file.levels
  BY <1>2, CutSet
<1>4. MaxOneLevelCut(x, c) = y
  BY <1>1, <1>2 DEF MaxOneLevelCut
<1> QED BY <1>3, <1>4

LEMMA CutsAdded ==
    ASSUME NEW x, HasFields(x), NEW c
    PROVE  LET y == IncOneLevelCut(x, c)
           IN  SameFile(y, x) /\ y.file.nodes = x.file.nodes /\ y.file.levels = x.file.levels
<1>1. PICK d : d = [k \in CutKinds |-> x.file.cut1[k] + c[k]]
  OBVIOUS
<1>2. PICK y : y = [x EXCEPT !.file.cut1 = d]
  OBVIOUS
<1>3. SameFile(y, x) /\ y.file.nodes = x.file.nodes /\ y.file.levels = x.file.levels
  BY <1>2, CutSet
<1>4. IncOneLevelCut(x, c) = y
  BY <1>1, <1>2 DEF IncOneLevelCut
<1> QED BY <1>3, <1>4

LEMMA WithCutsIs ==
    ASSUME HasFields(w)
    PROVE  /\ SameFile(WithCuts, w)
           /\ WithCuts.file.nodes = w.file.nodes /\ WithCuts.file.levels = w.file.levels
<1>1. PICK x : x = MaxOneLevelCut(w, local)
  OBVIOUS
<1>2. SameFile(x, w) /\ x.file.nodes = w.file.nodes /\ x.file.levels = w.file.levels
  BY <1>1, CutsBounded
<1>3. PICK y : y = IncOneLevelCut(x, tainted)
  OBVIOUS
<1>4. SameFile(y, x) /\ y.file.nodes = x.file.nodes /\ y.file.levels = x.file.levels
  BY <1>2, <1>3, CutsAdded DEF SameFile
<1>5. WithCuts = y
  BY <1>1, <1>3 DEF WithCuts
<1> QED BY <1>2, <1>4, <1>5 DEF SameFile

LEMMA NothingIsOutMeans ==
    ASSUME TheWriter, Out = {}
    PROVE  w.file.nodes = <<>>
<1>1. PICK s \in Seq(NodeRecord) : s = w.file.nodes
  BY DEF TheWriter, HasFields
<1>2. \A i \in DOMAIN s : FALSE
  BY <1>1 DEF Out, NodesOf
<1>3. s = <<>>
  <2>1. Len(s) \in Nat /\ DOMAIN s = 1 .. Len(s)
    OBVIOUS
  <2>2. Len(s) = 0
    <3> SUFFICES ASSUME Len(s) # 0 PROVE FALSE
      OBVIOUS
    <3>1. 1 \in DOMAIN s
      BY <2>1
    <3> QED BY <1>2, <3>1
  <2> QED BY <2>2
<1> QED BY <1>1, <1>3

(* A level with none above it holds the root.                              *)
LEMMA TopmostIsTheRoot ==
    ASSUME ReduceInv, CanonInv, phase = "forward", levels = {}, NEW u \in UidsHere,
           NEW r, HasRoot(input, r)
    PROVE  u = r.uid
<1>1. PICK n \in input : n.uid = u
  BY DEF UidsHere, Uids
<1>2. LevelOf(n.uid) = label
  BY <1>1 DEF UidsHere
<1>3. Proper /\ PlainDiagram(input) /\ IsDiagram(input)
  BY Setting DEF CanonInv, ReduceInv
<1>4. ASSUME n # r PROVE FALSE
  <2>1. PICK k \in input : n.uid = k.low \/ n.uid = k.high
    BY <1>3, <1>4, ParentIs
  <2>2. IsNode(n.uid)
    BY <1>3, PlainNodes
  <2>3. \A v \in BOOLEAN : n.uid # Terminal(v)
    BY <2>2, TerminalsAre
  <2>4. LevelOf(k.uid) < label
    BY <1>2, <1>3, <2>1, <2>3, NodesAreProper
  <2>5. LevelOf(k.uid) \in InputLevels
    BY DEF InputLevels, Uids
  <2>6. LevelOf(k.uid) \in levels
    BY <2>4, <2>5 DEF ReduceInv, LevelsAreLeft
  <2> QED BY <2>6
<1> QED BY <1>1, <1>4

LEMMA AllAreSettled ==
    ASSUME CanonInv, phase = "forward", levels = {}
    PROVE  \A m \in input : Settled(zdd, mapLevel, input, Out, m)
<1>1. DoneIsSettled
  BY DEF CanonInv, Sweeping
<1>2. \A m \in input : IsDone(m.uid)
  BY DEF IsDone
<1> QED BY <1>1, <1>2 DEF DoneIsSettled

LEMMA LastLevelCanon ==
    ASSUME ReduceInv, CanonInv, EndLevel, levels = {}, UNCHANGED <<zdd, input, mapLevel>>
    PROVE  CanonInv'
<1> DEFINE r == CHOOSE n \in Roots(input) : TRUE
<1>1. /\ phase = "forward" /\ red1 \cup red2 = {} /\ phase' = "close"
      /\ pq = {} => w' = IF HasPushed(w) THEN WithCuts ELSE WithTerminal(WithCuts)
  BY DEF EndLevel
<1>2. pq = {}
  BY <1>1, LevelIsDone
<1>3. /\ TheJob /\ TheWriter /\ OutIsTidy /\ SomeMapping
  BY <1>1 DEF CanonInv, Sweeping
<1>4. /\ PlainDiagram(input) /\ HasRoot(input, r) /\ zdd \in BOOLEAN
      /\ Function = Renamed(zdd, mapLevel, Denotes(input, r.uid))
  BY <1>3, Setting
<1> HIDE DEF r
<1>5. /\ SameFile(WithCuts, w)
      /\ WithCuts.file.nodes = w.file.nodes /\ WithCuts.file.levels = w.file.levels
  BY <1>3, WithCutsIs DEF TheWriter
<1>6. CASE Out # {}
  <2>1. w.file.nodes # <<>>
    BY <1>6, NothingIsOut
  <2>2. w' = WithCuts
    BY <1>1, <1>2, <2>1 DEF HasPushed
  <2>3. Tidy(Out) /\ \A k \in Out : \E j \in input : Stands(zdd, mapLevel, input, Out, k.uid, j.uid)
    BY <1>3 DEF OutIsTidy
  <2>4. \A m \in input : Settled(zdd, mapLevel, input, Out, m)
    BY <1>1, AllAreSettled
  <2>5. Out = CanonicalNodes(Function)
    <3>1. PICK N : N = Out
      OBVIOUS
    <3>2. N = CanonicalNodes(Renamed(zdd, mapLevel, Denotes(input, r.uid)))
      BY <1>4, <1>6, <2>3, <2>4, <3>1, SettledIsCanonical
    <3> QED BY <1>4, <3>1, <3>2
  <2>6. NodesOf(w'.file) = CanonicalNodes(Function) /\ UidsFall(w'.file.nodes)
    BY <1>3, <1>5, <2>2, <2>5 DEF Out, NodesOf, TheWriter
  <2> QED BY <1>1, <1>5, <2>2, <2>6, AtClose
<1>7. CASE Out = {}
  <2>1. w.file.nodes = <<>> /\ w.file.levels = <<>>
    BY <1>1, <1>3, <1>7, NothingIsOutMeans DEF TheWriter
  <2>2. w' = WithTerminal(WithCuts)
    BY <1>1, <1>2, <2>1 DEF HasPushed
  <2>3. lastRed1.old \in UidsHere /\ Stands(zdd, mapLevel, input, Out, lastRed1.new, lastRed1.old)
    BY <1>1, <1>3, <1>7 DEF SomeMapping
  <2>4. lastRed1.old = r.uid
    BY <1>1, <1>4, <2>3, TopmostIsTheRoot
  <2>5. lastRed1.new \in PointersAt({}, 0)
    BY <1>7, <2>3 DEF Stands
  <2>6. PICK v \in BOOLEAN : lastRed1.new = Terminal(v)
    BY <2>5 DEF PointersAt
  <2>7. (IsTerminal(lastRed1.new) /\ Value(lastRed1.new)) = v
    BY <2>6, TerminalsAre
  <2>8. w' = PushTerminalNode(WithCuts, v)
    BY <2>2, <2>7 DEF WithTerminal
  <2>9. PICK x : x = WithCuts
    OBVIOUS
  <2>10. PICK y : y = PushTerminalNode(x, v)
    OBVIOUS
  <2>11. SameFile(y, x) /\ y.file.nodes = Append(x.file.nodes, TerminalNode(v))
    BY <1>5, <2>9, <2>10, PushedTerminal DEF SameFile
  <2>12. SameFile(y, w) /\ y.file.nodes = Append(w.file.nodes, TerminalNode(v)) /\ w' = y
    BY <1>5, <2>8, <2>9, <2>10, <2>11 DEF SameFile
  <2>13. TerminalNode(v) \in NodeRecord
    BY TerminalIs
  <2>14. NodesOf(y.file) = {TerminalNode(v)} /\ UidsFall(y.file.nodes)
    BY <1>3, <2>1, <2>12, <2>13, FirstNode
  <2>15. {TerminalNode(v)} = CanonicalNodes(Function)
    <3>1. Stands(zdd, mapLevel, input, {}, Terminal(v), r.uid)
      BY <1>7, <2>3, <2>4, <2>6
    <3>2. {TerminalNode(v)} = CanonicalNodes(Renamed(zdd, mapLevel, Denotes(input, r.uid)))
      BY <1>4, <3>1, SettledIsConstant
    <3> QED BY <1>4, <3>2
  <2> QED BY <1>1, <2>12, <2>14, <2>15, AtClose
<1> QED BY <1>6, <1>7

LEMMA EndLevelCanon ==
    ASSUME ReduceInv, CanonInv, EndLevel, levels # {}, UNCHANGED <<zdd, input, mapLevel>>
    PROVE  CanonInv'
<1>1. /\ phase = "forward" /\ red1 \cup red2 = {} /\ phase' = "begin"
      /\ UNCHANGED <<levels, pq, label, eHigh>>
  BY DEF EndLevel, levelVars
<1>2. w' = WithCuts
  <2>1. pq # {}
    BY <1>1, QueueIsNotEmpty
  <2> QED BY <2>1 DEF EndLevel
<1>3. /\ TheJob /\ TheWriter /\ OutIsTidy /\ DoneIsSettled /\ ArcsCarry
  BY <1>1 DEF CanonInv, Sweeping
<1>4. SameFile(w', w) /\ w'.file.nodes = w.file.nodes /\ w'.file.levels = w.file.levels
  BY <1>2, <1>3, WithCutsIs DEF TheWriter
<1>5. Out' = Out
  BY <1>4 DEF Out, NodesOf
<1>6. label # NoLabel
  <2>1. Proper
    BY <1>3, Setting
  <2>2. label \in Level /\ Level \subseteq Nat
    BY <1>1, <2>1, LevelsAreNumbers DEF ReduceInv
  <2> QED BY <2>2 DEF NoLabel
<1>7. TheWriter'
  BY <1>1, <1>3, <1>4, <1>6 DEF TheWriter, SameFile
<1>8. TheJob' /\ Sweeping'
  BY <1>1, <1>3 DEF TheJob, Sweeping
<1>9. OutIsTidy'
  <2>1. \A k \in Out : \E j \in input : IsFrom(k, j)'
    BY <1>1, <1>3 DEF OutIsTidy, IsFrom
  <2>2. Tidy(Out)' /\ \A k \in Out : \E j \in input : Stands(zdd, mapLevel, input, Out, k.uid, j.uid)'
    BY <1>3, <1>5 DEF OutIsTidy, Tidy, Reduced, ReductionRule
  <2> QED BY <1>5, <2>1, <2>2 DEF OutIsTidy
<1>10. DoneIsSettled'
  <2>1. \A u : IsDone(u)' => IsDone(u)
    BY <1>1 DEF IsDone
  <2> QED BY <1>3, <1>5, <2>1 DEF DoneIsSettled
<1>11. ArcsCarry'
  BY <1>1, <1>3, <1>5 DEF ArcsCarry
<1>12. MappingsStand' /\ IsGathered' /\ SomeMapping' /\ Numbering' /\ AtStart'
  BY <1>1 DEF MappingsStand, IsGathered, SomeMapping, Numbering, AtStart
<1> QED BY <1>7, <1>8, <1>9, <1>10, <1>11, <1>12 DEF CanonInv

LEMMA CloseCanon ==
    ASSUME CanonInv, Close \/ Done, UNCHANGED <<zdd, input, mapLevel>>
    PROVE  CanonInv'
<1>1. TheJob' /\ Function' = Function /\ \A f : CanonicalNodes(f)' = CanonicalNodes(f)
  BY FunctionIsKept DEF CanonInv
<1>2. phase \in {"close", "done"} /\ phase' = "done"
  BY DEF Close, Done
<1>3. TheWriter /\ Out = CanonicalNodes(Function)
  BY <1>2 DEF CanonInv, Sweeping
<1>4. /\ HasFields(w') /\ w'.file.nodes = w.file.nodes
      /\ w'.file.sorted = w.file.sorted /\ w'.file.indexable = w.file.indexable
  <2>1. CASE Close
    <3>1. phase = "close" /\ w' = Closed(w)
      BY <2>1 DEF Close
    <3> QED BY <1>3, <3>1, ClosedWriter DEF TheWriter
  <2>2. CASE Done
    <3>1. w' = w
      BY <2>2 DEF Done
    <3> QED BY <1>3, <3>1 DEF TheWriter
  <2> QED BY <2>1, <2>2
<1>5. TheWriter'
  BY <1>2, <1>3, <1>4 DEF TheWriter
<1>6. Out' = CanonicalNodes(Function)'
  BY <1>1, <1>3, <1>4 DEF Out, NodesOf
<1>7. ~Sweeping'
  BY <1>2 DEF Sweeping
<1> QED BY <1>1, <1>5, <1>6, <1>7 DEF CanonInv

LEMMA StutterCanon ==
    ASSUME CanonInv, UNCHANGED vars
    PROVE  CanonInv'
<1>1. UNCHANGED <<zdd, input, mapLevel, levels, pq, phase, label, eHigh, grouping, red1, red2,
                  lastRed1, outNode, outId, w>>
  BY DEF vars, levelVars
<1>2. Out' = Out /\ Function' = Function /\ \A f : CanonicalNodes(f)' = CanonicalNodes(f)
  BY <1>1, FunctionIsKept DEF Out
<1>3. TheJob' /\ TheWriter'
  BY <1>1 DEF CanonInv, TheJob, TheWriter
<1>4. CASE Sweeping
  <2>1. /\ OutIsTidy /\ DoneIsSettled /\ ArcsCarry /\ MappingsStand
        /\ IsGathered /\ SomeMapping /\ Numbering /\ AtStart
    BY <1>4 DEF CanonInv
  <2>2. OutIsTidy'
    <3>1. \A k \in Out : \E j \in input : IsFrom(k, j)'
      BY <1>1, <2>1 DEF OutIsTidy, IsFrom
    <3>2. Tidy(Out)' /\ \A k \in Out : \E j \in input : Stands(zdd, mapLevel, input, Out, k.uid, j.uid)'
      BY <1>1, <1>2, <2>1 DEF OutIsTidy, Tidy, Reduced, ReductionRule
    <3> QED BY <1>1, <1>2, <3>1, <3>2 DEF OutIsTidy
  <2>3. DoneIsSettled'
    <3>1. \A u : IsDone(u)' => IsDone(u)
      BY <1>1 DEF IsDone
    <3> QED BY <1>1, <1>2, <2>1, <3>1 DEF DoneIsSettled
  <2>4. ArcsCarry' /\ MappingsStand' /\ IsGathered' /\ SomeMapping' /\ AtStart'
    BY <1>1, <1>2, <2>1
    DEF ArcsCarry, MappingsStand, OutUids, IsGathered, SomeMapping, UidsHere, Uids, AtStart
  <2>5. Numbering'
    BY <1>1, <1>2, <2>1 DEF Numbering, ComesNext
  <2>6. Sweeping'
    BY <1>1, <1>4 DEF Sweeping
  <2> QED BY <1>3, <2>2, <2>3, <2>4, <2>5, <2>6 DEF CanonInv
<1>5. CASE ~Sweeping
  BY <1>1, <1>2, <1>3, <1>5 DEF CanonInv, Sweeping
<1> QED BY <1>4, <1>5

LEMMA NextCanon == ReduceInv /\ CanonInv /\ [Next]_vars => CanonInv'
<1> SUFFICES ASSUME ReduceInv, CanonInv, [Next]_vars PROVE CanonInv'
  OBVIOUS
<1>1. CASE UNCHANGED vars
  BY <1>1, StutterCanon
<1>2. CASE Next
  <2>1. UNCHANGED <<zdd, input, mapLevel>>
    BY <1>2 DEF Next
  <2>2. CASE ReduceSingleNode
    BY <2>1, <2>2, SingleNodeCanon
  <2>3. CASE BeginLevel
    BY <2>1, <2>3, BeginLevelCanon
  <2>4. CASE PullHigh
    BY <2>1, <2>4, PullHighCanon
  <2>5. CASE PullLow
    BY <2>1, <2>5, PullLowCanon
  <2>6. CASE EndPulls
    BY <2>1, <2>6, EndPullsCanon
  <2>7. CASE Output
    BY <2>1, <2>7, OutputCanon
  <2>8. CASE EndOutput
    BY <2>1, <2>8, EndOutputCanon
  <2>9. CASE ForwardArc
    BY <2>1, <2>9, ForwardArcCanon
  <2>10. CASE NextMapping
    BY <2>1, <2>10, NextMappingCanon
  <2>11. CASE EndLevel
    BY <2>1, <2>11, EndLevelCanon, LastLevelCanon
  <2>12. CASE Close \/ Done
    BY <2>1, <2>12, CloseCanon
  <2> QED BY <1>2, <2>2, <2>3, <2>4, <2>5, <2>6, <2>7, <2>8, <2>9, <2>10, <2>11, <2>12 DEF Next
<1> QED BY <1>1, <1>2

LEMMA InvMeansCanonical == CanonInv => OutputIsCanonical
<1> SUFFICES ASSUME CanonInv, phase = "done" PROVE OutputIsCanonical
  BY DEF OutputIsCanonical
<1>1. TheWriter /\ Out = CanonicalNodes(Function)
  BY DEF CanonInv, Sweeping
<1>2. w.file.sorted /\ w.file.indexable /\ UidsFall(w.file.nodes)
  BY <1>1 DEF TheWriter
<1> QED BY <1>1, <1>2 DEF OutputIsCanonical, Out, UidsFall

(* Whatever unreduced diagram it is given, and under any renaming of the   *)
(* levels that keeps their order and the identifiers apart, the sweep ends *)
(* with the canonical diagram of the input's function: it is that function *)
(* that is denoted, rules 1 and 2 left nothing to reduce, the identifiers  *)
(* of a level go down from the largest in the order of the children, and   *)
(* the nodes are in the file from the last to the first, which is what the *)
(* flags of the file say (reduce.h:327-390).                               *)
THEOREM ReducesToCanonical == Spec => []OutputIsCanonical
<1>1. Init => ReduceInv /\ CanonInv
  BY InitInv, InitCanon
<1>2. (ReduceInv /\ CanonInv) /\ [Next]_vars => (ReduceInv /\ CanonInv)'
  BY NextInv, NextCanon
<1>3. ReduceInv /\ CanonInv => OutputIsCanonical
  BY InvMeansCanonical
<1> QED BY <1>1, <1>2, <1>3, PTL DEF Spec
=============================================================================
