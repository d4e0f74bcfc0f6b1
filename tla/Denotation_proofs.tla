------------------------- MODULE Denotation_proofs -------------------------
(***************************************************************************)
(* The function a diagram denotes, and why a diagram that is reduced and   *)
(* numbered level by level is the canonical one of its function.           *)
(***************************************************************************)
EXTENDS NodeFile_proofs

-----------------------------------------------------------------------------
(* The equation of what a pointer denotes                                  *)

(* What p denotes when g is what the pointers below it do.                 *)
Meaning(kind, N, g, p) ==
    IF IsTerminal(p)
    THEN IF ~Value(p) THEN {} ELSE IF kind THEN {{}} ELSE SUBSET Level
    ELSE UNION {Choice(kind, LevelOf(p), g[n.low], g[n.high]) :
                   n \in {m \in N : m.uid = Essential(p)}}

LEMMA DenotesByChoice ==
    ASSUME NEW kind, NEW N, NEW p
    PROVE  DenotesOf(kind, N, p) = (CHOOSE g : g = [q \in 0 .. Nil |-> Meaning(kind, N, g, q)])[p]
BY DEF DenotesOf, Meaning

(* Children have larger pointers than all to their parent, with or without *)
(* an out-index or a flag.                                                 *)
ChildrenFollow(N) ==
    \A n \in N : n.uid \in Nat /\ \A q \in Targets(n) : q \in 0 .. Nil /\ n.uid + 3 < q

LEMMA EssentialIs ==
    ASSUME NEW p \in 0 .. Nil
    PROVE  Essential(p) \in Nat /\ Essential(p) <= p /\ p <= Essential(p) + 3
<1>1. Nil \in Nat
  BY PointersAre
<1> QED BY <1>1 DEF Essential, Unflag

LEMMA MeaningIsLocal ==
    ASSUME NEW kind, NEW N, ChildrenFollow(N), NEW p \in 0 .. Nil, NEW g, NEW h,
           \A q \in 0 .. Nil : q > p => g[q] = h[q]
    PROVE  Meaning(kind, N, g, p) = Meaning(kind, N, h, p)
<1>1. CASE IsTerminal(p)
  BY <1>1 DEF Meaning
<1>2. CASE ~IsTerminal(p)
  <2> DEFINE M == {m \in N : m.uid = Essential(p)}
  <2>1. ASSUME NEW n \in M
        PROVE  g[n.low] = h[n.low] /\ g[n.high] = h[n.high]
    <3>1. n \in N /\ n.uid \in Nat /\ p <= n.uid + 3
      BY <1>2, EssentialIs
    <3>2. n.low \in 0 .. Nil /\ n.high \in 0 .. Nil /\ n.uid + 3 < n.low /\ n.uid + 3 < n.high
      BY <3>1 DEF ChildrenFollow, Targets
    <3>3. Nil \in Nat
      BY PointersAre
    <3>4. n.low > p /\ n.high > p
      BY <3>1, <3>2, <3>3
    <3> QED BY <3>2, <3>4
  <2>2. {Choice(kind, LevelOf(p), g[n.low], g[n.high]) : n \in M}
            = {Choice(kind, LevelOf(p), h[n.low], h[n.high]) : n \in M}
    <3> HIDE DEF M
    <3> QED BY <2>1
  <2>3. Meaning(kind, N, g, p) = UNION {Choice(kind, LevelOf(p), g[n.low], g[n.high]) : n \in M}
        /\ Meaning(kind, N, h, p) = UNION {Choice(kind, LevelOf(p), h[n.low], h[n.high]) : n \in M}
    BY <1>2 DEF Meaning
  <2> QED BY <2>2, <2>3
<1> QED BY <1>1, <1>2

(* There is a function that satisfies the equation: it is put together     *)
(* from the largest pointer down.                                          *)
LEMMA DenotationExists ==
    ASSUME NEW kind, NEW N, ChildrenFollow(N)
    PROVE  \E g : g = [q \in 0 .. Nil |-> Meaning(kind, N, g, q)]
<1> DEFINE Solves(g, k) == /\ g = [q \in 0 .. Nil |-> g[q]]
                            /\ \A q \in k .. Nil : g[q] = Meaning(kind, N, g, q)
           Bad == {k \in 0 .. Nil + 1 : ~ \E g : Solves(g, k)}
<1>1. Nil \in Nat
  BY PointersAre
<1>2. \E g : Solves(g, Nil + 1)
  <2>1. Solves([q \in 0 .. Nil |-> {}], Nil + 1)
    BY <1>1
  <2> QED BY <2>1
<1>3. ASSUME NEW k \in 0 .. Nil, \E g : Solves(g, k + 1)
      PROVE  \E g : Solves(g, k)
  <2>1. PICK g : Solves(g, k + 1)
    BY <1>3
  <2> DEFINE h == [q \in 0 .. Nil |-> IF q = k THEN Meaning(kind, N, g, k) ELSE g[q]]
  <2>2. \A q \in 0 .. Nil : q > k => h[q] = g[q]
    BY <1>1
  <2>3. h = [q \in 0 .. Nil |-> h[q]] /\ h[k] = Meaning(kind, N, g, k)
    BY <1>1
  <2> HIDE DEF h
  <2>4. ASSUME NEW q \in k .. Nil
        PROVE  h[q] = Meaning(kind, N, h, q)
    <3>1. q \in 0 .. Nil /\ \A r \in 0 .. Nil : r > q => r > k
      BY <1>1
    <3>2. Meaning(kind, N, g, q) = Meaning(kind, N, h, q)
      BY <2>2, <3>1, MeaningIsLocal
    <3>3. q = k \/ (q \in k + 1 .. Nil /\ q > k)
      BY <1>1
    <3>4. ASSUME q \in k + 1 .. Nil
          PROVE  g[q] = Meaning(kind, N, g, q)
      BY <2>1, <3>4
    <3> QED BY <2>2, <2>3, <3>1, <3>2, <3>3, <3>4
  <2>5. Solves(h, k)
    BY <2>3, <2>4
  <2> QED BY <2>5
<1>4. Bad = {}
  <2> SUFFICES ASSUME Bad # {} PROVE FALSE
    OBVIOUS
  <2> HIDE DEF Solves
  <2>1. Bad \subseteq Nat /\ \A x \in Bad : x <= Nil + 1
    BY <1>1
  <2>2. PICK m \in Bad : \A x \in Bad : x <= m
    <3>1. Nil + 1 \in Nat
      BY <1>1
    <3> HIDE DEF Bad
    <3> QED BY <2>1, <3>1, GreatestExists
  <2>3. m \in 0 .. Nil
    BY <1>1, <1>2
  <2>4. m + 1 \notin Bad /\ m + 1 \in 0 .. Nil + 1
    BY <1>1, <2>2, <2>3
  <2>5. \E g : Solves(g, m + 1)
    BY <2>4
  <2>6. \E g : Solves(g, m)
    BY <1>3, <2>3, <2>5
  <2> QED BY <2>2, <2>6
<1>5. PICK g : Solves(g, 0)
  <2> HIDE DEF Solves
  <2> QED BY <1>1, <1>4
<1>6. g = [q \in 0 .. Nil |-> Meaning(kind, N, g, q)]
  BY <1>5
<1> QED BY <1>6

LEMMA DenotesIs ==
    ASSUME NEW kind, NEW N, ChildrenFollow(N)
    PROVE  \E g : /\ \A p \in 0 .. Nil : g[p] = Meaning(kind, N, g, p)
                  /\ \A p : DenotesOf(kind, N, p) = g[p]
<1> DEFINE g == CHOOSE h : h = [q \in 0 .. Nil |-> Meaning(kind, N, h, q)]
<1>1. g = [q \in 0 .. Nil |-> Meaning(kind, N, g, q)]
  BY DenotationExists, Zenon
<1>2. \A p : DenotesOf(kind, N, p) = g[p]
  BY DenotesByChoice, Zenon
<1> HIDE DEF g
<1>3. \A p \in 0 .. Nil : g[p] = Meaning(kind, N, g, p)
  BY <1>1, Zenon
<1> QED BY <1>2, <1>3

LEMMA TerminalsAre ==
    ASSUME NEW v \in BOOLEAN
    PROVE  /\ Terminal(v) \in 0 .. Nil /\ IsTerminal(Terminal(v)) /\ ~IsNode(Terminal(v))
           /\ Value(Terminal(v)) = v /\ Unflag(Terminal(v)) = Terminal(v)
           /\ Terminal(FALSE) # Terminal(TRUE)
<1>1. /\ Terminal(v) \in Nat /\ Terminal(FALSE) \in Nat /\ Nil \in Nat
      /\ IsTerminal(Terminal(v)) /\ ~IsNode(Terminal(v)) /\ Terminal(v) % 4 \in {0, 2}
  BY PointersAre
<1>2. Terminal(v) < Nil
  BY <1>1, Zenon DEF IsTerminal
<1>3. Unflag(Terminal(v)) = Terminal(v)
  <2>1. Terminal(v) % 2 = 0
    BY <1>1
  <2> QED BY <1>1, <2>1 DEF Unflag
<1>4. PICK t \in Nat : t = Uid(Levels, 0)
  BY DiagramAssumption, UidIs
<1>5. Terminal(FALSE) = t /\ Terminal(TRUE) = t + 2
  BY <1>4 DEF Terminal
<1>6. Terminal(FALSE) # Terminal(TRUE)
  BY <1>5, t # t + 2, Zenon
<1>7. Value(Terminal(v)) = v
  <2>1. CASE v = TRUE
    BY <1>3, <2>1, Zenon DEF Value
  <2>2. CASE v = FALSE
    BY <1>3, <1>6, <2>2, Zenon DEF Value
  <2> QED BY <2>1, <2>2
<1>8. Terminal(v) \in 0 .. Nil
  <2>1. PICK u \in Nat, m \in Nat : u = Terminal(v) /\ m = Nil
    BY <1>1, Zenon
  <2>2. u < m
    BY <1>2, <2>1, Zenon
  <2>3. u \in 0 .. m
    BY <2>2
  <2> QED BY <2>1, <2>3, Zenon
<1> QED BY <1>1, <1>3, <1>6, <1>7, <1>8, Zenon

(* A terminal, and a node by its children.                                 *)
LEMMA TerminalDenotes ==
    ASSUME NEW kind, NEW N, ChildrenFollow(N), NEW v \in BOOLEAN
    PROVE  DenotesOf(kind, N, Terminal(v)) =
               IF ~v THEN {} ELSE IF kind THEN {{}} ELSE SUBSET Level
<1>1. PICK g : /\ \A p \in 0 .. Nil : g[p] = Meaning(kind, N, g, p)
               /\ \A p : DenotesOf(kind, N, p) = g[p]
  BY DenotesIs
<1>2. IsTerminal(Terminal(v)) /\ Terminal(v) \in 0 .. Nil /\ Value(Terminal(v)) = v
  BY TerminalsAre
<1> QED BY <1>1, <1>2 DEF Meaning

LEMMA NodeDenotes ==
    ASSUME NEW kind, NEW N, ChildrenFollow(N), \A m, n \in N : m.uid = n.uid => m = n,
           NEW n \in N, IsNode(n.uid), n.uid % 4 = 0
    PROVE  DenotesOf(kind, N, n.uid) =
               Choice(kind, LevelOf(n.uid), DenotesOf(kind, N, n.low), DenotesOf(kind, N, n.high))
<1>1. PICK g : /\ \A p \in 0 .. Nil : g[p] = Meaning(kind, N, g, p)
               /\ \A p : DenotesOf(kind, N, p) = g[p]
  BY DenotesIs
<1>2. n.uid \in Nat /\ Nil \in Nat
  BY PointersAre, Zenon DEF ChildrenFollow
<1>3. PICK t \in 0 .. Nil : t = Terminal(FALSE)
  BY TerminalsAre, Zenon
<1>7. n.uid \in 0 .. Nil /\ ~(Terminal(FALSE) <= n.uid)
  <2>1. n.uid < t
    BY <1>3, Zenon DEF IsNode
  <2>2. n.uid \in 0 .. Nil /\ ~(t <= n.uid)
    BY <1>2, <2>1
  <2> QED BY <1>3, <2>2, Zenon
<1>8. ~IsTerminal(n.uid) /\ Essential(n.uid) = n.uid
  <2>1. ~IsTerminal(n.uid)
    BY <1>7, Zenon DEF IsTerminal
  <2> QED BY <1>2, <2>1 DEF Essential
<1>4. {m \in N : m.uid = Essential(n.uid)} = {n}
  BY <1>8
<1>5. g[n.uid] = UNION {Choice(kind, LevelOf(n.uid), g[m.low], g[m.high]) :
                           m \in {m \in N : m.uid = Essential(n.uid)}}
  BY <1>1, <1>7, <1>8 DEF Meaning
<1>6. g[n.uid] = Choice(kind, LevelOf(n.uid), g[n.low], g[n.high])
  BY <1>4, <1>5
<1> QED BY <1>1, <1>6

(* A child that the reduction rule puts in the place of its parent denotes *)
(* what the parent would.                                                  *)
LEMMA ReducedDenotes ==
    ASSUME zdd \in BOOLEAN, NEW N, ChildrenFollow(N), NEW n, NEW l,
           ReductionRule(n) # n.uid,
           Essential(n.low) = n.low, Essential(n.high) = n.high,
           IsFalse(n.high) => n.high = Terminal(FALSE)
    PROVE  DenotesOf(zdd, N, Essential(ReductionRule(n))) =
               Choice(zdd, l, DenotesOf(zdd, N, n.low), DenotesOf(zdd, N, n.high))
<1>1. Essential(ReductionRule(n)) = n.low
  BY DEF ReductionRule
<1>2. CASE zdd = TRUE
  <2>1. DenotesOf(zdd, N, n.high) = {}
    <3>1. n.high = Terminal(FALSE)
      BY <1>2 DEF ReductionRule
    <3> QED BY <3>1, TerminalDenotes
  <2> QED BY <1>1, <1>2, <2>1 DEF Choice
<1>3. CASE zdd = FALSE
  <2>1. n.high = n.low
    BY <1>3 DEF ReductionRule
  <2> QED BY <1>1, <1>3, <2>1 DEF Choice
<1> QED BY <1>2, <1>3

-----------------------------------------------------------------------------
(* Diagrams without flags                                                  *)

(* Every child is a terminal or a node of the diagram.                     *)
PlainDiagram(N) ==
    /\ HoldsDiagram(N)
    /\ \A n \in N, s \in Sides :
          (\E v \in BOOLEAN : n[s] = Terminal(v)) \/ \E m \in N : m.uid = n[s]

(* The pointers that may cross to level l or below.                        *)
PointersAt(N, l) ==
    {Terminal(v) : v \in BOOLEAN} \cup {n.uid : n \in {m \in N : LevelOf(m.uid) >= l}}

LEMMA MultiplesApart ==
    ASSUME NEW m \in Nat, NEW a \in Nat, NEW t \in 0 .. m, a < t
    PROVE  /\ t \in Nat /\ a \in 0 .. m
           /\ a % 4 = 0 /\ t % 4 = 0 => a + 3 < t
           /\ a + 3 < t => \A u \in 0 .. m : t <= u => a + 3 < u
OBVIOUS

LEMMA PlainNodes ==
    ASSUME NEW N, PlainDiagram(N), NEW n \in N
    PROVE  /\ n.uid \in Nat /\ n.uid % 4 = 0 /\ IsNode(n.uid) /\ n \in NodeRecord
           /\ LevelOf(n.uid) \in Nat /\ LevelOf(n.uid) \in Level /\ LevelOf(n.uid) < Levels
           /\ n.uid + 3 < Terminal(FALSE) /\ Terminal(FALSE) \in 0 .. Nil
           /\ n.uid \in 0 .. Nil
<1>1. HoldsNodes(N)
  BY DEF PlainDiagram, HoldsDiagram
<1>2. /\ LevelOf(n.uid) \in Nat /\ LevelOf(n.uid) < Levels
      /\ n \in NodeRecord /\ n.uid \in Nat /\ IsNode(n.uid)
  BY <1>1, NodesHaveLevels
<1>3. PICK l \in Level, i \in 0 .. MaxId : n.uid = Uid(l, i)
  BY <1>1 DEF HoldsNodes, IsInner
<1>4. n.uid % 4 = 0
  BY <1>3, UidIs, DiagramAssumption DEF Level
<1>5. PICK t \in 0 .. Nil : t = Terminal(FALSE) /\ t % 4 = 0
  <2>1. Terminal(FALSE) = Uid(Levels, 0)
    BY DiagramAssumption, UidIs DEF Terminal
  <2>2. Uid(Levels, 0) % 4 = 0
    BY DiagramAssumption, UidIs
  <2> QED BY <2>1, <2>2, TerminalsAre
<1>6. n.uid < t
  BY <1>2, <1>5, Zenon DEF IsNode
<1>9. Nil \in Nat
  BY PointersAre, Zenon
<1>7. n.uid + 3 < t /\ n.uid \in 0 .. Nil
  BY <1>2, <1>4, <1>5, <1>6, <1>9, MultiplesApart, Zenon
<1>8. LevelOf(n.uid) \in Level
  BY <1>2, DiagramAssumption DEF Level
<1> QED BY <1>2, <1>4, <1>5, <1>7, <1>8, Zenon

(* A child is below its parent.                                            *)
LEMMA PlainChildren ==
    ASSUME NEW N, PlainDiagram(N), NEW n \in N, NEW s \in Sides
    PROVE  /\ n[s] \in PointersAt(N, LevelOf(n.uid) + 1)
           /\ n[s] \in 0 .. Nil /\ n.uid + 3 < n[s]
<1>1. CASE \E v \in BOOLEAN : n[s] = Terminal(v)
  <2>1. PICK v \in BOOLEAN : n[s] = Terminal(v)
    BY <1>1
  <2>2. n[s] \in PointersAt(N, LevelOf(n.uid) + 1)
    BY <2>1 DEF PointersAt
  <2>3. n[s] \in 0 .. Nil /\ Terminal(FALSE) <= n[s]
    BY <2>1, TerminalsAre, Zenon DEF IsTerminal
  <2>4. n.uid + 3 < Terminal(FALSE) /\ n.uid \in Nat /\ Terminal(FALSE) \in 0 .. Nil
    BY PlainNodes
  <2>5. PICK t \in 0 .. Nil : t = Terminal(FALSE)
    BY <2>4
  <2>6. n.uid + 3 < n[s]
    <3>1. n.uid + 3 < t /\ t <= n[s]
      BY <2>3, <2>4, <2>5, Zenon
    <3>2. Nil \in Nat
      BY PointersAre, Zenon
    <3>3. n.uid < t
      BY <2>4, <2>5, PlainNodes, Zenon DEF IsNode
    <3> QED BY <2>3, <2>4, <2>5, <3>1, <3>2, <3>3, MultiplesApart, Zenon
  <2> QED BY <2>2, <2>3, <2>6
<1>2. CASE ~\E v \in BOOLEAN : n[s] = Terminal(v)
  <2>1. PICK m \in N : m.uid = n[s]
    BY <1>2 DEF PlainDiagram
  <2>2. IsNode(n[s]) /\ m.uid \in Nat /\ m.uid % 4 = 0 /\ LevelOf(m.uid) \in Nat /\ m.uid \in 0 .. Nil
    BY <2>1, PlainNodes
  <2>3. n.uid \in Nat /\ n.uid % 4 = 0 /\ LevelOf(n.uid) \in Nat
    BY PlainNodes
  <2>4. LevelOf(n.uid) < LevelOf(m.uid)
    <3>1. ~IsTerminal(n[s])
      BY <2>1, InnerIs DEF PlainDiagram, HoldsDiagram, HoldsNodes
    <3>2. PICK k \in N : k.uid = n[s] /\ LevelOf(n.uid) < LevelOf(k.uid)
      BY <3>1 DEF PlainDiagram, HoldsDiagram
    <3> QED BY <2>1, <3>2
  <2>5. n.uid < m.uid
    <3>1. IsInner(m) /\ IsInner(n)
      BY DEF PlainDiagram, HoldsDiagram, HoldsNodes
    <3>2. LevelOf(m.uid) <= LevelOf(n.uid) \/ ~(m.uid < n.uid)
      BY <3>1, SmallerIsAbove
    <3>3. m.uid # n.uid
      BY <2>2, <2>3, <2>4
    <3> QED BY <2>2, <2>3, <2>4, <3>2, <3>3
  <2>6. n.uid + 3 < m.uid
    BY <2>2, <2>3, <2>5
  <2>7. m.uid \in PointersAt(N, LevelOf(n.uid) + 1)
    BY <2>2, <2>3, <2>4 DEF PointersAt
  <2> QED BY <2>1, <2>2, <2>6, <2>7
<1> QED BY <1>1, <1>2

LEMMA PlainFollows ==
    ASSUME NEW N, PlainDiagram(N)
    PROVE  ChildrenFollow(N) /\ \A m, n \in N : m.uid = n.uid => m = n
<1>1. \A m, n \in N : m.uid = n.uid => m = n
  BY Zenon DEF PlainDiagram, HoldsDiagram
<1>2. ASSUME NEW n \in N, NEW q \in Targets(n)
      PROVE  q \in 0 .. Nil /\ n.uid + 3 < q
  <2>1. \E s \in Sides : q = n[s]
    BY DEF Sides, Targets
  <2> QED BY <2>1, PlainChildren
<1> QED BY <1>1, <1>2, PlainNodes DEF ChildrenFollow

LEMMA PointersFall ==
    ASSUME NEW N, PlainDiagram(N), NEW l \in Nat
    PROVE  /\ PointersAt(N, l + 1) \subseteq PointersAt(N, l)
           /\ \A v \in BOOLEAN : Terminal(v) \in PointersAt(N, l)
           /\ \A p \in PointersAt(N, l) :
                 p \in PointersAt(N, l + 1) \/ \E n \in OnLevel(N, l) : p = n.uid
           /\ \A n \in OnLevel(N, l) : n.uid \in PointersAt(N, l) /\ n.uid \notin PointersAt(N, l + 1)
<1>1. \A n \in N : LevelOf(n.uid) \in Nat
  BY PlainNodes
<1>2. PointersAt(N, l + 1) \subseteq PointersAt(N, l)
  BY <1>1 DEF PointersAt
<1>3. ASSUME NEW p \in PointersAt(N, l), p \notin PointersAt(N, l + 1)
      PROVE  \E n \in OnLevel(N, l) : p = n.uid
  <2>1. PICK n \in N : p = n.uid /\ LevelOf(n.uid) >= l
    BY <1>3 DEF PointersAt
  <2>2. ~(LevelOf(n.uid) >= l + 1)
    BY <1>3, <2>1 DEF PointersAt
  <2> QED BY <1>1, <2>1, <2>2 DEF OnLevel
<1>4. ASSUME NEW n \in OnLevel(N, l)
      PROVE  n.uid \in PointersAt(N, l) /\ n.uid \notin PointersAt(N, l + 1)
  <2>1. n \in N /\ LevelOf(n.uid) = l
    BY DEF OnLevel
  <2>2. \A v \in BOOLEAN : n.uid # Terminal(v)
    BY <2>1, PlainNodes, TerminalsAre
  <2>3. \A m \in N : m.uid = n.uid => ~(LevelOf(m.uid) >= l + 1)
    BY <1>1, <2>1
  <2> QED BY <2>1, <2>2, <2>3 DEF PointersAt
<1>5. \A v \in BOOLEAN : Terminal(v) \in PointersAt(N, l)
  BY DEF PointersAt
<1> QED BY <1>2, <1>3, <1>4, <1>5

-----------------------------------------------------------------------------
(* Functions of the levels from l down                                     *)

Below(l) == l .. Levels - 1

(* A function that the variables above l say nothing about; in a ZDD, no   *)
(* assignment has one of them.                                             *)
Confined(S, l) ==
    IF zdd THEN S \subseteq SUBSET Below(l)
           ELSE /\ S \subseteq SUBSET Level
                /\ \A x \in SUBSET Level : x \in S <=> (x \cap Below(l)) \in S

Part(S, l) == {x \in SUBSET Below(l) : x \in S}

LEMMA BelowIs ==
    ASSUME NEW l \in Nat
    PROVE  /\ Below(l) \subseteq Level /\ Below(l + 1) \subseteq Below(l)
           /\ l \notin Below(l + 1)
           /\ l \in Level => Below(l) = Below(l + 1) \cup {l}
           /\ Below(0) = Level /\ Below(Levels) = {}
           /\ \A k \in Nat : l <= k => Below(k) \subseteq Below(l)
BY DiagramAssumption DEF Below, Level

LEMMA ConfinedAbove ==
    ASSUME NEW S, NEW l \in Nat, NEW k \in Nat, l <= k, Confined(S, k)
    PROVE  Confined(S, l)
<1>1. Below(k) \subseteq Below(l) /\ Below(l) \subseteq Level
  BY BelowIs
<1>2. CASE zdd
  BY <1>1, <1>2 DEF Confined
<1>3. CASE ~zdd
  <2>1. ASSUME NEW x \in SUBSET Level
        PROVE  x \in S <=> (x \cap Below(l)) \in S
    <3>1. (x \cap Below(l)) \cap Below(k) = x \cap Below(k) /\ x \cap Below(l) \in SUBSET Level
      BY <1>1
    <3> QED BY <1>3, <3>1 DEF Confined
  <2> QED BY <1>3, <2>1 DEF Confined
<1> QED BY <1>2, <1>3

LEMMA ConfinedChoice ==
    ASSUME zdd \in BOOLEAN, NEW l \in Level, NEW S, NEW T, Confined(S, l + 1), Confined(T, l + 1)
    PROVE  Confined(Choice(zdd, l, S, T), l)
<1>1. l \in Nat /\ l + 1 \in Nat
  BY DiagramAssumption DEF Level
<1>2. /\ Below(l) = Below(l + 1) \cup {l} /\ l \notin Below(l + 1)
      /\ Below(l) \subseteq Level
  BY <1>1, BelowIs
<1>3. CASE zdd = TRUE
  BY <1>2, <1>3 DEF Confined, Choice
<1>4. CASE zdd = FALSE
  <2> DEFINE C == Choice(zdd, l, S, T)
  <2>1. \A x : x \in C <=> IF l \in x THEN x \in T ELSE x \in S
    BY <1>4 DEF Choice
  <2>2. S \subseteq SUBSET Level /\ T \subseteq SUBSET Level
    BY <1>4 DEF Confined
  <2> HIDE DEF C
  <2>3. ASSUME NEW x \in SUBSET Level
        PROVE  x \in C <=> (x \cap Below(l)) \in C
    <3>1. (x \cap Below(l)) \cap Below(l + 1) = x \cap Below(l + 1) /\ x \cap Below(l) \in SUBSET Level
      BY <1>2
    <3>2. l \in x <=> l \in x \cap Below(l)
      BY <1>2
    <3>3. /\ x \in S <=> (x \cap Below(l)) \in S
          /\ x \in T <=> (x \cap Below(l)) \in T
      BY <1>4, <3>1 DEF Confined
    <3> QED BY <2>1, <3>2, <3>3
  <2>4. C \subseteq SUBSET Level
    BY <2>1, <2>2
  <2> QED BY <1>4, <2>3, <2>4 DEF Confined, C
<1> QED BY <1>3, <1>4

LEMMA TerminalIsConfined ==
    ASSUME zdd \in BOOLEAN, NEW N, ChildrenFollow(N), NEW v \in BOOLEAN, NEW l \in Nat
    PROVE  Confined(Denotes(N, Terminal(v)), l)
<1>1. Denotes(N, Terminal(v)) = IF ~v THEN {} ELSE IF zdd THEN {{}} ELSE SUBSET Level
  BY TerminalDenotes DEF Denotes
<1>2. Below(l) \subseteq Level
  BY BelowIs
<1> QED BY <1>1, <1>2 DEF Confined

LEMMA PointersAreConfined ==
    ASSUME zdd \in BOOLEAN, NEW N, PlainDiagram(N), NEW l \in Nat, NEW p \in PointersAt(N, l)
    PROVE  Confined(Denotes(N, p), l)
<1> DEFINE Good(n) == Confined(Denotes(N, n.uid), LevelOf(n.uid))
           Bad == {n.uid : n \in {m \in N : ~Good(m)}}
<1>1. ChildrenFollow(N) /\ \A m, n \in N : m.uid = n.uid => m = n
  BY PlainFollows
<1>2. ASSUME NEW k \in Nat, NEW q \in PointersAt(N, k),
             \A n \in N : n.uid = q => Good(n)
      PROVE  Confined(Denotes(N, q), k)
  <2>1. CASE \E v \in BOOLEAN : q = Terminal(v)
    BY <1>1, <2>1, TerminalIsConfined
  <2>2. CASE \E n \in N : q = n.uid /\ LevelOf(n.uid) >= k
    <3>1. PICK n \in N : q = n.uid /\ LevelOf(n.uid) >= k
      BY <2>2
    <3>2. Confined(Denotes(N, q), LevelOf(n.uid))
      BY <1>2, <3>1
    <3>3. LevelOf(n.uid) \in Nat /\ k <= LevelOf(n.uid)
      BY <3>1, PlainNodes
    <3> QED BY <3>2, <3>3, ConfinedAbove
  <2> QED BY <2>1, <2>2 DEF PointersAt
<1>3. ASSUME NEW n \in N, \A m \in N : m.uid > n.uid => Good(m)
      PROVE  Good(n)
  <2>1. n.low \in PointersAt(N, LevelOf(n.uid) + 1) /\ n.high \in PointersAt(N, LevelOf(n.uid) + 1)
        /\ n.uid + 3 < n.low /\ n.uid + 3 < n.high /\ n.low \in 0 .. Nil /\ n.high \in 0 .. Nil
    BY PlainChildren DEF Sides
  <2>2. n.uid \in Nat /\ LevelOf(n.uid) \in Level /\ LevelOf(n.uid) + 1 \in Nat
        /\ IsNode(n.uid) /\ n.uid % 4 = 0
    <3>1. /\ n.uid \in Nat /\ LevelOf(n.uid) \in Level /\ LevelOf(n.uid) \in Nat
          /\ IsNode(n.uid) /\ n.uid % 4 = 0
      BY PlainNodes, Zenon
    <3> QED BY <3>1
  <2>3. \A q \in {n.low, n.high} : q > n.uid
    BY <2>1, <2>2
  <2>4. Confined(Denotes(N, n.low), LevelOf(n.uid) + 1) /\ Confined(Denotes(N, n.high), LevelOf(n.uid) + 1)
    <3> HIDE DEF Good
    <3> QED BY <1>2, <1>3, <2>1, <2>2, <2>3
  <2>5. Denotes(N, n.uid) = Choice(zdd, LevelOf(n.uid), Denotes(N, n.low), Denotes(N, n.high))
    BY <1>1, <2>2, NodeDenotes DEF Denotes
  <2> QED BY <2>2, <2>4, <2>5, ConfinedChoice
<1>4. Bad = {}
  <2> SUFFICES ASSUME Bad # {} PROVE FALSE
    OBVIOUS
  <2> HIDE DEF Good
  <2>1. Bad \subseteq Nat /\ (\A x \in Bad : x <= Nil) /\ Nil \in Nat
    <3>1. Nil \in Nat
      BY PointersAre, Zenon
    <3>2. \A n \in N : n.uid \in 0 .. Nil
      BY PlainNodes
    <3> QED BY <3>1, <3>2
  <2>2. PICK u \in Bad : \A x \in Bad : x <= u
    <3> HIDE DEF Bad
    <3> QED BY <2>1, GreatestExists
  <2>3. PICK n \in N : n.uid = u /\ ~Good(n)
    OBVIOUS
  <2>4. \A m \in N : m.uid > n.uid => Good(m)
    <3> SUFFICES ASSUME NEW m \in N, m.uid > n.uid, ~Good(m) PROVE FALSE
      OBVIOUS
    <3>1. m.uid <= n.uid /\ m.uid \in Nat /\ n.uid \in Nat
      BY <2>2, <2>3, PlainNodes
    <3> QED BY <3>1
  <2> QED BY <1>3, <2>3, <2>4
<1>5. \A n \in N : Good(n)
  <2> HIDE DEF Good
  <2> QED BY <1>4
<1> QED BY <1>2, <1>5

(* The cofactors of the function of a node are those of its children; a    *)
(* function of the levels below has the same for both, or none in a ZDD.   *)
LEMMA PartsOfChoice ==
    ASSUME zdd \in BOOLEAN, NEW l \in Level, NEW S, NEW T, Confined(S, l + 1), Confined(T, l + 1)
    PROVE  /\ Low(Part(Choice(zdd, l, S, T), l), l) = Part(S, l + 1)
           /\ High(Part(Choice(zdd, l, S, T), l), l) = Part(T, l + 1)
<1> DEFINE C == Choice(zdd, l, S, T)
<1>1. l \in Nat /\ l + 1 \in Nat
  BY DiagramAssumption DEF Level
<1>2. /\ Below(l) = Below(l + 1) \cup {l} /\ l \notin Below(l + 1)
      /\ Below(l) \subseteq Level
  BY <1>1, BelowIs
<1>3. ASSUME NEW x \in SUBSET Below(l + 1)
      PROVE  (x \in C <=> x \in S) /\ ((x \cup {l}) \in C <=> x \in T)
  <2>1. l \notin x /\ l \in x \cup {l} /\ (x \cup {l}) \cap Below(l + 1) = x
        /\ x \cup {l} \in SUBSET Level
    BY <1>2
  <2>2. CASE zdd = TRUE
    <3>1. \A y \in S \cup T : l \notin y
      BY <1>2, <2>2 DEF Confined
    <3>2. x \in C <=> x \in S
      BY <2>1, <2>2 DEF Choice
    <3>3. ASSUME (x \cup {l}) \in C
          PROVE  x \in T
      <4>1. PICK y \in T : x \cup {l} = y \cup {l}
        BY <2>1, <2>2, <3>1, <3>3 DEF Choice
      <4>2. l \notin x /\ l \notin y
        BY <2>1, <3>1
      <4>3. \A z : z \in x <=> z \in y
        BY <4>1, <4>2, Zenon
      <4>4. x = y
        BY <4>3
      <4> QED BY <4>1, <4>4
    <3> QED BY <2>2, <3>2, <3>3 DEF Choice
  <2>3. CASE zdd = FALSE
    <3>1. \A y : y \in C <=> IF l \in y THEN y \in T ELSE y \in S
      BY <2>3 DEF Choice
    <3>2. (x \cup {l}) \in T <=> x \in T
      BY <2>1, <2>3 DEF Confined
    <3> QED BY <2>1, <3>1, <3>2
  <2> QED BY <2>2, <2>3
<1>4. \A x \in SUBSET Below(l + 1) : x \in SUBSET Below(l) /\ x \cup {l} \in SUBSET Below(l)
  BY <1>2
<1> HIDE DEF C
<1>5. Low(Part(C, l), l) = Part(S, l + 1)
  BY <1>3, <1>4 DEF Low, Part, Below
<1>6. High(Part(C, l), l) = Part(T, l + 1)
  BY <1>3, <1>4 DEF High, Part, Below
<1> QED BY <1>5, <1>6 DEF C

LEMMA PartsOfLower ==
    ASSUME zdd \in BOOLEAN, NEW l \in Level, NEW S, Confined(S, l + 1)
    PROVE  /\ Low(Part(S, l), l) = Part(S, l + 1)
           /\ High(Part(S, l), l) = IF zdd THEN {} ELSE Part(S, l + 1)
<1>1. l \in Nat /\ l + 1 \in Nat
  BY DiagramAssumption DEF Level
<1>2. /\ Below(l) = Below(l + 1) \cup {l} /\ l \notin Below(l + 1)
      /\ Below(l) \subseteq Level
  BY <1>1, BelowIs
<1>3. ASSUME NEW x \in SUBSET Below(l + 1)
      PROVE  (x \cup {l}) \in S <=> ~zdd /\ x \in S
  <2>1. l \notin x /\ (x \cup {l}) \cap Below(l + 1) = x /\ x \cup {l} \in SUBSET Level
    BY <1>2
  <2> QED BY <1>2, <2>1 DEF Confined
<1>4. \A x \in SUBSET Below(l + 1) : x \in SUBSET Below(l) /\ x \cup {l} \in SUBSET Below(l)
  BY <1>2
<1>5. Low(Part(S, l), l) = Part(S, l + 1)
  BY <1>4 DEF Low, Part, Below
<1>6. High(Part(S, l), l) = IF zdd THEN {} ELSE Part(S, l + 1)
  BY <1>3, <1>4 DEF High, Part, Below
<1> QED BY <1>5, <1>6

-----------------------------------------------------------------------------
(* The cofactors of a diagram are what its pointers denote                 *)

Cofactor(f, l, a) == {x \in SUBSET Below(l) : (a \cup x) \in f}

LEMMA CofactorsAre ==
    ASSUME NEW f, NEW l
    PROVE  Cofactors(f, l) = {Cofactor(f, l, a) : a \in SUBSET (0 .. l - 1)}
BY DEF Cofactors, Cofactor, Below

LEMMA NothingIsAbove ==
    ASSUME NEW f
    PROVE  Cofactors(f, 0) = {Part(f, 0)}
<1>1. 0 .. 0 - 1 = {}
  OBVIOUS
<1>2. SUBSET (0 .. 0 - 1) = {{}}
  BY <1>1
<1>3. Cofactor(f, 0, {}) = Part(f, 0)
  BY DEF Cofactor, Part
<1> QED BY <1>2, <1>3, CofactorsAre

LEMMA CofactorsBelow ==
    ASSUME NEW f, NEW l \in Level
    PROVE  Cofactors(f, l + 1) = {Low(g, l) : g \in Cofactors(f, l)} \cup {High(g, l) : g \in Cofactors(f, l)}
<1>1. l \in Nat /\ l + 1 \in Nat
  BY DiagramAssumption DEF Level
<1>2. Below(l) = Below(l + 1) \cup {l} /\ l \notin Below(l + 1)
  BY <1>1, BelowIs
<1>3. ASSUME NEW a
      PROVE  /\ Low(Cofactor(f, l, a), l) = Cofactor(f, l + 1, a)
             /\ High(Cofactor(f, l, a), l) = Cofactor(f, l + 1, a \cup {l})
  <2>1. \A x \in SUBSET Below(l + 1) : /\ x \in SUBSET Below(l) /\ x \cup {l} \in SUBSET Below(l)
                                       /\ a \cup (x \cup {l}) = (a \cup {l}) \cup x
    BY <1>2
  <2> QED BY <2>1 DEF Low, High, Cofactor, Below
<1>4. 0 .. (l + 1) - 1 = (0 .. l - 1) \cup {l}
  BY <1>1
<1>5. ASSUME NEW a \in SUBSET (0 .. (l + 1) - 1)
      PROVE  \E c \in SUBSET (0 .. l - 1) : a = c \/ a = c \cup {l}
  <2>1. a \ {l} \in SUBSET (0 .. l - 1) /\ (a = a \ {l} \/ a = (a \ {l}) \cup {l})
    BY <1>4
  <2> QED BY <2>1
<1>6. \A a \in SUBSET (0 .. l - 1) : /\ a \in SUBSET (0 .. (l + 1) - 1)
                                     /\ a \cup {l} \in SUBSET (0 .. (l + 1) - 1)
  BY <1>4
<1>7. ASSUME NEW g \in Cofactors(f, l + 1)
      PROVE  \E h \in Cofactors(f, l) : g = Low(h, l) \/ g = High(h, l)
  <2>1. PICK a \in SUBSET (0 .. (l + 1) - 1) : g = Cofactor(f, l + 1, a)
    BY CofactorsAre
  <2>2. PICK c \in SUBSET (0 .. l - 1) : a = c \/ a = c \cup {l}
    BY <1>5
  <2>3. Cofactor(f, l, c) \in Cofactors(f, l)
    BY CofactorsAre
  <2> QED BY <1>3, <2>1, <2>2, <2>3
<1>8. ASSUME NEW h \in Cofactors(f, l)
      PROVE  Low(h, l) \in Cofactors(f, l + 1) /\ High(h, l) \in Cofactors(f, l + 1)
  <2>1. PICK c \in SUBSET (0 .. l - 1) : h = Cofactor(f, l, c)
    BY CofactorsAre
  <2>2. Low(h, l) = Cofactor(f, l + 1, c) /\ High(h, l) = Cofactor(f, l + 1, c \cup {l})
    BY <1>3, <2>1
  <2> QED BY <1>6, <2>2, CofactorsAre
<1> QED BY <1>7, <1>8

(* The pointers that cross to level l: the root, until it is above, and    *)
(* the children of the nodes above.                                        *)
Reached(N, r, l) ==
    {p \in PointersAt(N, l) : p = r.uid \/ \E n \in Above(N, l) : p \in Targets(n)}

LEMMA ReachedAre ==
    ASSUME NEW N, PlainDiagram(N), NEW r, HasRoot(N, r), NEW l \in Level
    PROVE  /\ \A n \in OnLevel(N, l) : /\ n.uid \in Reached(N, r, l)
                                       /\ n.low \in Reached(N, r, l + 1)
                                       /\ n.high \in Reached(N, r, l + 1)
           /\ \A p \in Reached(N, r, l) : p \in PointersAt(N, l + 1) => p \in Reached(N, r, l + 1)
           /\ \A p \in Reached(N, r, l + 1) :
                 p \in Reached(N, r, l) \/ \E n \in OnLevel(N, l) : p \in {n.low, n.high}
<1>1. l \in Nat /\ \A n \in N : LevelOf(n.uid) \in Nat
  <2>1. \A n \in N : LevelOf(n.uid) \in Nat
    BY PlainNodes, Zenon
  <2> QED BY <2>1, DiagramAssumption DEF Level
<1>2. \A n \in N : n \in Above(N, l + 1) <=> n \in Above(N, l) \/ n \in OnLevel(N, l)
  BY <1>1 DEF Above, OnLevel
<1>3. PointersAt(N, l + 1) \subseteq PointersAt(N, l)
  BY <1>1, PointersFall
<1>4. ASSUME NEW n \in OnLevel(N, l)
      PROVE  /\ n.uid \in Reached(N, r, l)
             /\ n.low \in Reached(N, r, l + 1) /\ n.high \in Reached(N, r, l + 1)
  <2>1. n \in N /\ LevelOf(n.uid) = l /\ n \in Above(N, l + 1)
    BY <1>2 DEF OnLevel
  <2>2. n.low \in PointersAt(N, l + 1) /\ n.high \in PointersAt(N, l + 1)
    BY <2>1, PlainChildren DEF Sides
  <2>3. n.uid \in PointersAt(N, l)
    BY <1>1, PointersFall
  <2>4. ASSUME n # r
        PROVE  \E m \in Above(N, l) : n.uid \in Targets(m)
    <3>1. PICK a \in SidesIn(N) : EndOf(a) = n.uid
      BY <2>1, <2>4 DEF HasRoot
    <3>2. LevelOf(a[1].uid) < LevelOf(n.uid)
      BY <2>1, <3>1, ParentsAreAbove DEF PlainDiagram
    <3>3. a[1] \in Above(N, l) /\ n.uid \in Targets(a[1])
      BY <2>1, <3>1, <3>2 DEF SidesIn, EndOf, Sides, Above, Targets
    <3> QED BY <3>3
  <2> QED BY <2>1, <2>2, <2>3, <2>4 DEF Reached, Targets
<1>5. ASSUME NEW p \in Reached(N, r, l), p \in PointersAt(N, l + 1)
      PROVE  p \in Reached(N, r, l + 1)
  <2>1. \A m \in Above(N, l) : m \in Above(N, l + 1)
    BY <1>2 DEF Above
  <2> QED BY <1>5, <2>1 DEF Reached
<1>6. ASSUME NEW p \in Reached(N, r, l + 1)
      PROVE  p \in Reached(N, r, l) \/ \E n \in OnLevel(N, l) : p \in {n.low, n.high}
  <2>1. p \in PointersAt(N, l)
    BY <1>3 DEF Reached
  <2>2. p = r.uid \/ \E n \in Above(N, l + 1) : p \in Targets(n)
    BY DEF Reached
  <2>3. Above(N, l + 1) \subseteq N
    BY DEF Above
  <2> QED BY <1>2, <2>1, <2>2, <2>3 DEF Reached, Targets
<1> QED BY <1>4, <1>5, <1>6

LEMMA NodesByChoice ==
    ASSUME zdd \in BOOLEAN, NEW N, PlainDiagram(N), NEW l \in Level, NEW n \in OnLevel(N, l)
    PROVE  /\ Low(Part(Denotes(N, n.uid), l), l) = Part(Denotes(N, n.low), l + 1)
           /\ High(Part(Denotes(N, n.uid), l), l) = Part(Denotes(N, n.high), l + 1)
<1>1. n \in N /\ LevelOf(n.uid) = l /\ l \in Nat /\ l + 1 \in Nat
  BY DiagramAssumption DEF OnLevel, Level
<1>2. ChildrenFollow(N) /\ \A m, k \in N : m.uid = k.uid => m = k
  BY PlainFollows
<1>3. IsNode(n.uid) /\ n.uid % 4 = 0
  BY <1>1, PlainNodes
<1>4. n.low \in PointersAt(N, l + 1) /\ n.high \in PointersAt(N, l + 1)
  BY <1>1, PlainChildren DEF Sides
<1>5. Confined(Denotes(N, n.low), l + 1) /\ Confined(Denotes(N, n.high), l + 1)
  BY <1>1, <1>4, PointersAreConfined
<1>6. Denotes(N, n.uid) = Choice(zdd, l, Denotes(N, n.low), Denotes(N, n.high))
  BY <1>1, <1>2, <1>3, NodeDenotes DEF Denotes
<1> QED BY <1>5, <1>6, PartsOfChoice

LEMMA FalseDenotes ==
    ASSUME NEW N, PlainDiagram(N), NEW l
    PROVE  Part(Denotes(N, Terminal(FALSE)), l) = {}
BY PlainFollows, TerminalDenotes DEF Denotes, Part

(* The cofactors of level k are those of the pointers that reach it.       *)
ReachesCofactors(N, r, k) ==
    LET C == Cofactors(Denotes(N, r.uid), k)
    IN  /\ \A p \in Reached(N, r, k) : Part(Denotes(N, p), k) \in C
        /\ \A g \in C : \E p \in Reached(N, r, k) \cup {Terminal(FALSE)} :
              g = Part(Denotes(N, p), k)

LEMMA CofactorsAreReached ==
    ASSUME zdd \in BOOLEAN, NEW N, PlainDiagram(N), NEW r, HasRoot(N, r), NEW k \in 0 .. Levels
    PROVE  ReachesCofactors(N, r, k)
<1> DEFINE f == Denotes(N, r.uid)
           Good(l) == /\ \A p \in Reached(N, r, l) : Part(Denotes(N, p), l) \in Cofactors(f, l)
                      /\ \A g \in Cofactors(f, l) : \E p \in Reached(N, r, l) \cup {Terminal(FALSE)} :
                            g = Part(Denotes(N, p), l)
           Bad == {l \in 0 .. Levels : ~Good(l)}
<1>1. Good(0)
  <2>1. r \in N /\ r.uid \in PointersAt(N, 0)
    <3>1. LevelOf(r.uid) \in Nat /\ r \in N
      BY PlainNodes DEF HasRoot
    <3> QED BY <3>1 DEF PointersAt
  <2>2. Above(N, 0) = {}
    <3>1. \A n \in N : LevelOf(n.uid) \in Nat
      BY PlainNodes, Zenon
    <3>2. \A n \in N : ~(LevelOf(n.uid) < 0)
      BY <3>1
    <3> QED BY <3>2 DEF Above
  <2>3. Reached(N, r, 0) = {r.uid}
    BY <2>1, <2>2 DEF Reached
  <2>4. Cofactors(f, 0) = {Part(f, 0)}
    BY NothingIsAbove
  <2>5. \A p \in Reached(N, r, 0) : Part(Denotes(N, p), 0) = Part(f, 0)
    BY <2>3
  <2>6. r.uid \in Reached(N, r, 0)
    BY <2>3
  <2> HIDE DEF f
  <2> QED BY <2>4, <2>5, <2>6
<1>2. ASSUME NEW l \in Level, Good(l)
      PROVE  Good(l + 1)
  <2>1. l \in Nat /\ l + 1 \in Nat
    BY DiagramAssumption DEF Level
  <2>2. Cofactors(f, l + 1) = {Low(g, l) : g \in Cofactors(f, l)} \cup {High(g, l) : g \in Cofactors(f, l)}
    BY CofactorsBelow
  <2>3. \A p \in PointersAt(N, l + 1) : Confined(Denotes(N, p), l + 1)
    BY <2>1, PointersAreConfined
  <2>4. \A p \in PointersAt(N, l + 1) :
            /\ Low(Part(Denotes(N, p), l), l) = Part(Denotes(N, p), l + 1)
            /\ High(Part(Denotes(N, p), l), l) = IF zdd THEN {} ELSE Part(Denotes(N, p), l + 1)
    BY <2>3, PartsOfLower
  <2>5. \A n \in OnLevel(N, l) :
            /\ Low(Part(Denotes(N, n.uid), l), l) = Part(Denotes(N, n.low), l + 1)
            /\ High(Part(Denotes(N, n.uid), l), l) = Part(Denotes(N, n.high), l + 1)
    BY NodesByChoice
  <2> HIDE DEF f
  <2>6. ASSUME NEW p \in Reached(N, r, l + 1)
        PROVE  Part(Denotes(N, p), l + 1) \in Cofactors(f, l + 1)
    <3>1. CASE p \in Reached(N, r, l)
      <4>1. p \in PointersAt(N, l + 1) /\ Part(Denotes(N, p), l) \in Cofactors(f, l)
        BY <1>2, <3>1 DEF Reached
      <4> QED BY <2>2, <2>4, <4>1
    <3>2. CASE \E n \in OnLevel(N, l) : p \in {n.low, n.high}
      <4>1. PICK n \in OnLevel(N, l) : p \in {n.low, n.high}
        BY <3>2
      <4>2. Part(Denotes(N, n.uid), l) \in Cofactors(f, l)
        BY <1>2, ReachedAre
      <4> QED BY <2>2, <2>5, <4>1, <4>2
    <3> QED BY <3>1, <3>2, ReachedAre
  <2>7. ASSUME NEW g \in Cofactors(f, l + 1)
        PROVE  \E p \in Reached(N, r, l + 1) \cup {Terminal(FALSE)} : g = Part(Denotes(N, p), l + 1)
    <3>1. PICK h \in Cofactors(f, l) : g = Low(h, l) \/ g = High(h, l)
      BY <2>2
    <3>2. PICK p \in Reached(N, r, l) \cup {Terminal(FALSE)} : h = Part(Denotes(N, p), l)
      BY <1>2
    <3>3. p \in PointersAt(N, l)
      BY <3>2, Zenon DEF Reached, PointersAt
    <3>4. CASE p \in PointersAt(N, l + 1)
      <4>1. p \in Reached(N, r, l + 1) \cup {Terminal(FALSE)}
        BY <3>2, <3>4, ReachedAre
      <4>2. g = Part(Denotes(N, p), l + 1) \/ g = {}
        BY <2>4, <3>1, <3>2, <3>4
      <4> QED BY <4>1, <4>2, FalseDenotes
    <3>5. CASE p \notin PointersAt(N, l + 1)
      <4>1. PICK n \in OnLevel(N, l) : p = n.uid
        BY <2>1, <3>3, <3>5, PointersFall
      <4>2. n.low \in Reached(N, r, l + 1) /\ n.high \in Reached(N, r, l + 1)
        BY ReachedAre
      <4> QED BY <2>5, <3>1, <3>2, <4>1, <4>2
    <3> QED BY <3>4, <3>5
  <2> QED BY <2>6, <2>7
<1>3. Bad = {}
  <2> SUFFICES ASSUME Bad # {} PROVE FALSE
    OBVIOUS
  <2> HIDE DEF Good
  <2>1. Levels \in Nat /\ Bad \subseteq Nat
    BY DiagramAssumption
  <2>2. PICK m \in Bad : \A x \in Bad : m <= x
    <3> HIDE DEF Bad
    <3> QED BY <2>1, LeastExists
  <2>3. m # 0 /\ m \in 0 .. Levels
    BY <1>1, <2>2
  <2>4. m - 1 \in Level /\ m - 1 \in 0 .. Levels /\ (m - 1) + 1 = m /\ ~(m <= m - 1)
    BY <2>1, <2>3 DEF Level
  <2>5. Good(m - 1)
    BY <2>2, <2>4
  <2>6. Good((m - 1) + 1)
    BY <1>2, <2>4, <2>5
  <2> QED BY <2>2, <2>4, <2>6
<1>4. Good(k)
  <2> HIDE DEF Good
  <2> QED BY <1>3
<1> QED BY <1>4 DEF ReachesCofactors

-----------------------------------------------------------------------------
(* Reduced diagrams                                                        *)

(* The pointers that may cross to l are told apart by what they denote.    *)
AreTold(N, l) ==
    \A p, q \in PointersAt(N, l) :
        Part(Denotes(N, p), l) = Part(Denotes(N, q), l) => p = q

LEMMA TrueDenotes ==
    ASSUME zdd \in BOOLEAN, NEW N, PlainDiagram(N), NEW l
    PROVE  {} \in Part(Denotes(N, Terminal(TRUE)), l)
BY PlainFollows, TerminalDenotes DEF Denotes, Part

LEMMA LowerAreRedundant ==
    ASSUME zdd \in BOOLEAN, NEW N, PlainDiagram(N), NEW l \in Level, NEW p \in PointersAt(N, l + 1)
    PROVE  /\ Redundant(zdd, Part(Denotes(N, p), l), l)
           /\ Low(Part(Denotes(N, p), l), l) = Part(Denotes(N, p), l + 1)
<1>1. l + 1 \in Nat
  BY DiagramAssumption DEF Level
<1>2. Confined(Denotes(N, p), l + 1)
  BY <1>1, PointersAreConfined
<1> QED BY <1>2, PartsOfLower DEF Redundant

LEMMA NodesAreKept ==
    ASSUME zdd \in BOOLEAN, NEW N, PlainDiagram(N), NEW l \in Level, AreTold(N, l + 1),
           NEW n \in OnLevel(N, l), ReductionRule(n) = n.uid
    PROVE  ~Redundant(zdd, Part(Denotes(N, n.uid), l), l)
<1>1. n \in N /\ LevelOf(n.uid) = l /\ l + 1 \in Nat
  BY DiagramAssumption DEF OnLevel, Level
<1>2. n.low \in PointersAt(N, l + 1) /\ n.high \in PointersAt(N, l + 1) /\ n.uid + 3 < n.low
      /\ n.uid \in Nat /\ n.low \in 0 .. Nil /\ Terminal(FALSE) \in PointersAt(N, l + 1)
  BY <1>1, PlainChildren, PlainNodes, PointersFall DEF Sides
<1>3. n.low # n.uid
  BY <1>2
<1>4. SUFFICES ASSUME Redundant(zdd, Part(Denotes(N, n.uid), l), l) PROVE FALSE
  OBVIOUS
<1>5. CASE zdd = TRUE
  <2>1. Part(Denotes(N, n.high), l + 1) = {}
    BY <1>4, <1>5, NodesByChoice DEF Redundant
  <2>2. n.high = Terminal(FALSE)
    BY <1>2, <2>1, FalseDenotes DEF AreTold
  <2>3. IsFalse(n.high)
    BY <2>2, TerminalsAre DEF IsFalse
  <2> QED BY <1>3, <1>5, <2>3 DEF ReductionRule
<1>6. CASE zdd = FALSE
  <2>1. Part(Denotes(N, n.high), l + 1) = Part(Denotes(N, n.low), l + 1)
    BY <1>4, <1>6, NodesByChoice DEF Redundant
  <2>2. n.high = n.low
    BY <1>2, <2>1 DEF AreTold
  <2> QED BY <1>3, <1>6, <2>2 DEF ReductionRule
<1> QED BY <1>5, <1>6

LEMMA ReducedAreTold ==
    ASSUME zdd \in BOOLEAN, NEW N, PlainDiagram(N), Reduced(N), NEW k \in 0 .. Levels
    PROVE  AreTold(N, k)
<1> DEFINE Bad == {l \in 0 .. Levels : ~AreTold(N, l)}
<1>1. AreTold(N, Levels)
  <2>1. ASSUME NEW p \in PointersAt(N, Levels)
        PROVE  p = Terminal(FALSE) \/ p = Terminal(TRUE)
    <3>1. \A n \in N : ~(LevelOf(n.uid) >= Levels)
      <4>1. \A n \in N : LevelOf(n.uid) \in Nat /\ LevelOf(n.uid) < Levels
        BY PlainNodes, Zenon
      <4> QED BY <4>1, DiagramAssumption
    <3> QED BY <3>1 DEF PointersAt
  <2>2. Part(Denotes(N, Terminal(FALSE)), Levels) # Part(Denotes(N, Terminal(TRUE)), Levels)
    BY FalseDenotes, TrueDenotes
  <2>4. ASSUME NEW p \in PointersAt(N, Levels), NEW q \in PointersAt(N, Levels),
               Part(Denotes(N, p), Levels) = Part(Denotes(N, q), Levels)
        PROVE  p = q
    BY <2>1, <2>2, <2>4, Zenon
  <2> QED BY <2>4 DEF AreTold
<1>2. ASSUME NEW l \in Level, AreTold(N, l + 1)
      PROVE  AreTold(N, l)
  <2>1. l \in Nat
    BY DiagramAssumption DEF Level
  <2> DEFINE Cof(p) == Part(Denotes(N, p), l)
  <2>2. \A p \in PointersAt(N, l) :
            p \in PointersAt(N, l + 1) \/ \E n \in OnLevel(N, l) : p = n.uid
    BY <2>1, PointersFall
  <2>3. \A n \in OnLevel(N, l) : ~Redundant(zdd, Cof(n.uid), l)
    <3>1. \A n \in OnLevel(N, l) : ReductionRule(n) = n.uid
      BY DEF Reduced, OnLevel
    <3> QED BY <1>2, <3>1, NodesAreKept
  <2>4. \A p \in PointersAt(N, l + 1) :
            Redundant(zdd, Cof(p), l) /\ Low(Cof(p), l) = Part(Denotes(N, p), l + 1)
    BY LowerAreRedundant
  <2>5. ASSUME NEW m \in OnLevel(N, l), NEW n \in OnLevel(N, l), Cof(m.uid) = Cof(n.uid)
        PROVE  m = n
    <3>1. /\ Part(Denotes(N, m.low), l + 1) = Part(Denotes(N, n.low), l + 1)
          /\ Part(Denotes(N, m.high), l + 1) = Part(Denotes(N, n.high), l + 1)
      <4>1. /\ Low(Cof(m.uid), l) = Part(Denotes(N, m.low), l + 1)
            /\ High(Cof(m.uid), l) = Part(Denotes(N, m.high), l + 1)
        BY NodesByChoice
      <4>2. /\ Low(Cof(n.uid), l) = Part(Denotes(N, n.low), l + 1)
            /\ High(Cof(n.uid), l) = Part(Denotes(N, n.high), l + 1)
        BY NodesByChoice
      <4> QED BY <2>5, <4>1, <4>2
    <3>2. \A x \in {m, n} : /\ x \in N /\ LevelOf(x.uid) = l
                          /\ x.low \in PointersAt(N, l + 1) /\ x.high \in PointersAt(N, l + 1)
      BY PlainChildren DEF Sides, OnLevel
    <3>3. m.low = n.low /\ m.high = n.high
      BY <1>2, <3>1, <3>2 DEF AreTold
    <3> QED BY <3>2, <3>3 DEF Reduced
  <2> HIDE DEF Cof
  <2>6. ASSUME NEW p \in PointersAt(N, l), NEW q \in PointersAt(N, l), Cof(p) = Cof(q)
        PROVE  p = q
    <3>1. CASE p \in PointersAt(N, l + 1) /\ q \in PointersAt(N, l + 1)
      BY <1>2, <2>4, <2>6, <3>1 DEF AreTold
    <3>2. CASE \E m, n \in OnLevel(N, l) : p = m.uid /\ q = n.uid
      BY <2>5, <2>6, <3>2
    <3> QED BY <2>2, <2>3, <2>4, <2>6, <3>1, <3>2, Zenon
  <2> QED BY <2>6 DEF AreTold, Cof
<1>3. Bad = {}
  <2> SUFFICES ASSUME Bad # {} PROVE FALSE
    OBVIOUS
  <2>1. Levels \in Nat /\ Bad \subseteq Nat /\ \A x \in Bad : x <= Levels
    BY DiagramAssumption
  <2>2. PICK m \in Bad : \A x \in Bad : x <= m
    <3> HIDE DEF Bad
    <3> QED BY <2>1, GreatestExists
  <2>3. m # Levels /\ m \in 0 .. Levels
    BY <1>1, <2>2
  <2>4. m \in Level /\ m + 1 \in 0 .. Levels /\ ~(m + 1 <= m)
    BY <2>1, <2>3 DEF Level
  <2>5. AreTold(N, m + 1)
    BY <2>2, <2>4
  <2>6. AreTold(N, m)
    BY <1>2, <2>4, <2>5
  <2> QED BY <2>2, <2>6
<1> QED BY <1>3

-----------------------------------------------------------------------------
(* The numbers of the canonical nodes                                      *)

LEMMA EagerIs == \A f : Eager(f) = f
BY DEF Eager

(* The pointers P to the cofactors of f, level by level.                   *)
IsNumbering(P, kind, f) ==
    /\ P[Levels] = [g \in Cofactors(f, Levels) |-> Terminal(g # {})]
    /\ \A l \in Level : P[l] = Numbered(kind, Cofactors(f, l), l, P[l + 1])

NumberedNodes(P, kind, f) ==
    UNION {{Node(P[l][g], P[l + 1][Low(g, l)], P[l + 1][High(g, l)]) :
               g \in Irredundant(kind, Cofactors(f, l), l)} : l \in Level}

NumbersAt(P, kind, f, l) ==
    IF l = Levels THEN [g \in Cofactors(f, l) |-> Terminal(g # {})]
                  ELSE Numbered(kind, Cofactors(f, l), l, P[l + 1])

(* Each level of P is what the numbering makes of the level below it.       *)
NumbersAll(P, kind, f) == P = [l \in 0 .. Levels |-> NumbersAt(P, kind, f, l)]

LEMMA NumberingExists ==
    ASSUME NEW kind, NEW f
    PROVE  \E P : NumbersAll(P, kind, f)
<1> DEFINE Solves(P, k) == /\ P = [l \in 0 .. Levels |-> P[l]]
                           /\ \A l \in k .. Levels : P[l] = NumbersAt(P, kind, f, l)
           Bad == {k \in 0 .. Levels + 1 : ~ \E P : Solves(P, k)}
<1>1. Levels \in Nat
  BY DiagramAssumption
<1>2. \E P : Solves(P, Levels + 1)
  <2>1. Solves([l \in 0 .. Levels |-> {}], Levels + 1)
    BY <1>1
  <2> QED BY <2>1
<1>3. ASSUME NEW k \in 0 .. Levels, \E P : Solves(P, k + 1)
      PROVE  \E P : Solves(P, k)
  <2>1. PICK P : Solves(P, k + 1)
    BY <1>3
  <2> DEFINE Q == [l \in 0 .. Levels |-> IF l = k THEN NumbersAt(P, kind, f, k) ELSE P[l]]
  <2>2. \A l \in k .. Levels : l = Levels \/ Q[l + 1] = P[l + 1]
    BY <1>1
  <2>3. Q = [l \in 0 .. Levels |-> Q[l]] /\ Q[k] = NumbersAt(P, kind, f, k)
    BY <1>1
  <2>4. \A l \in k .. Levels : l = k \/ (l \in k + 1 .. Levels /\ Q[l] = P[l])
    BY <1>1
  <2> HIDE DEF Q
  <2>5. \A l \in k .. Levels : NumbersAt(Q, kind, f, l) = NumbersAt(P, kind, f, l)
    BY <2>2 DEF NumbersAt
  <2>6. \A l \in k + 1 .. Levels : P[l] = NumbersAt(P, kind, f, l)
    BY <2>1
  <2>7. \A l \in k .. Levels : Q[l] = NumbersAt(Q, kind, f, l)
    BY <2>3, <2>4, <2>5, <2>6
  <2>8. Solves(Q, k)
    BY <2>3, <2>7
  <2> QED BY <2>8
<1>4. Bad = {}
  <2> SUFFICES ASSUME Bad # {} PROVE FALSE
    OBVIOUS
  <2> HIDE DEF Solves
  <2>1. Bad \subseteq Nat /\ (\A x \in Bad : x <= Levels + 1) /\ Levels + 1 \in Nat
    BY <1>1
  <2>2. PICK m \in Bad : \A x \in Bad : x <= m
    <3> HIDE DEF Bad
    <3> QED BY <2>1, GreatestExists
  <2>3. m \in 0 .. Levels
    BY <1>1, <1>2
  <2>4. m + 1 \notin Bad /\ m + 1 \in 0 .. Levels + 1
    BY <1>1, <2>2, <2>3
  <2>5. \E P : Solves(P, m + 1)
    BY <2>4
  <2> QED BY <1>3, <2>2, <2>3, <2>5
<1>5. PICK P : Solves(P, 0)
  <2> HIDE DEF Solves
  <2> QED BY <1>1, <1>4
<1>6. P = [l \in 0 .. Levels |-> NumbersAt(P, kind, f, l)]
  BY <1>5
<1> QED BY <1>6 DEF NumbersAll

LEMMA CanonicalNodesAre ==
    ASSUME NEW kind, NEW f
    PROVE  \E P : /\ IsNumbering(P, kind, f)
                  /\ CanonicalNodesOf(kind, f) =
                         IF NumberedNodes(P, kind, f) = {} THEN {TerminalNode(f # {})}
                                                           ELSE NumberedNodes(P, kind, f)
<1>0. \E g : NumbersAll(g, kind, f)
  BY NumberingExists, Zenon
<1> DEFINE cofactors == Eager([l \in 0 .. Levels |-> Cofactors(f, l)])
           P == CHOOSE g : g = [l \in 0 .. Levels |->
                    IF l = Levels THEN [h \in cofactors[l] |-> Terminal(h # {})]
                                  ELSE Numbered(kind, cofactors[l], l, Eager(g[l + 1]))]
           ptr == Eager([l \in 0 .. Levels |-> P[l]])
           inner == UNION {{Node(ptr[l][g], ptr[l + 1][Low(g, l)], ptr[l + 1][High(g, l)]) :
                               g \in Irredundant(kind, cofactors[l], l)} : l \in Level}
<1>1. CanonicalNodesOf(kind, f) = IF inner = {} THEN {TerminalNode(f # {})} ELSE inner
  BY DEF CanonicalNodesOf
<1>2. cofactors = [l \in 0 .. Levels |-> Cofactors(f, l)] /\ ptr = [l \in 0 .. Levels |-> P[l]]
  BY EagerIs, Zenon
<1> HIDE DEF cofactors
<1>3. \A g, l : l \in 0 .. Levels =>
          (IF l = Levels THEN [h \in cofactors[l] |-> Terminal(h # {})]
                         ELSE Numbered(kind, cofactors[l], l, Eager(g[l + 1])))
              = NumbersAt(g, kind, f, l)
  BY <1>2, EagerIs DEF NumbersAt
<1>4. \A g : [l \in 0 .. Levels |->
                  IF l = Levels THEN [h \in cofactors[l] |-> Terminal(h # {})]
                                ELSE Numbered(kind, cofactors[l], l, Eager(g[l + 1]))]
             = [l \in 0 .. Levels |-> NumbersAt(g, kind, f, l)]
  BY <1>3
<1>5. P = [l \in 0 .. Levels |-> NumbersAt(P, kind, f, l)]
  <2>2. \E g : g = [l \in 0 .. Levels |->
                  IF l = Levels THEN [h \in cofactors[l] |-> Terminal(h # {})]
                                ELSE Numbered(kind, cofactors[l], l, Eager(g[l + 1]))]
    <3>1. PICK g : g = [l \in 0 .. Levels |-> NumbersAt(g, kind, f, l)]
      BY <1>0, Zenon DEF NumbersAll
    <3>2. g = [l \in 0 .. Levels |->
                  IF l = Levels THEN [h \in cofactors[l] |-> Terminal(h # {})]
                                ELSE Numbered(kind, cofactors[l], l, Eager(g[l + 1]))]
      BY <1>4, <3>1
    <3> QED BY <3>2
  <2>3. P = [l \in 0 .. Levels |->
                  IF l = Levels THEN [h \in cofactors[l] |-> Terminal(h # {})]
                                ELSE Numbered(kind, cofactors[l], l, Eager(P[l + 1]))]
    BY <2>2, Zenon
  <2> HIDE DEF P
  <2> QED BY <1>4, <2>3
<1> HIDE DEF P, ptr
<1>6. IsNumbering(P, kind, f)
  <2>1. \A l \in 0 .. Levels : P[l] = NumbersAt(P, kind, f, l)
    BY <1>5, Zenon
  <2>2. Levels \in 0 .. Levels /\ \A l \in Level : l \in 0 .. Levels /\ l # Levels
    BY DiagramAssumption DEF Level
  <2> QED BY <2>1, <2>2 DEF IsNumbering, NumbersAt
<1>7. inner = NumberedNodes(P, kind, f)
  <2>1. \A l \in Level : cofactors[l] = Cofactors(f, l) /\ ptr[l] = P[l] /\ ptr[l + 1] = P[l + 1]
    BY <1>2, DiagramAssumption DEF Level
  <2> QED BY <2>1 DEF NumberedNodes
<1> QED BY <1>1, <1>6, <1>7

-----------------------------------------------------------------------------
(* A reduced diagram with its nodes in order is the canonical one          *)

(* On a level, larger uids come with larger children.                      *)
Precedes(m, n) == m.high > n.high \/ (m.high = n.high /\ m.low > n.low)
IsOrdered(N) ==
    \A m, n \in N : LevelOf(m.uid) = LevelOf(n.uid) /\ m.uid > n.uid => Precedes(m, n)

(* The identifiers on a level go down from the largest without a gap.      *)
Larger(N, n) == {m \in OnLevel(N, LevelOf(n.uid)) : m.uid > n.uid}
IsContiguous(N) ==
    \A n \in N : n.uid = Uid(LevelOf(n.uid), MaxId - Cardinality(Larger(N, n)))

Preceding(kind, C, l, below, g) ==
    {h \in Irredundant(kind, C, l) :
        \/ below[High(h, l)] > below[High(g, l)]
        \/ below[High(h, l)] = below[High(g, l)] /\ below[Low(h, l)] > below[Low(g, l)]}

LEMMA NumberedIs ==
    ASSUME NEW kind, NEW C, NEW l, NEW below, NEW g \in C
    PROVE  Numbered(kind, C, l, below)[g] =
               IF g \in Irredundant(kind, C, l)
               THEN Uid(l, MaxId - Cardinality(Preceding(kind, C, l, below, g)))
               ELSE below[Low(g, l)]
<1> DEFINE kept == Irredundant(kind, C, l)
           hi == Eager([h \in C |-> below[High(h, l)]])
           lo == Eager([h \in C |-> below[Low(h, l)]])
           before(h) == {i \in kept : hi[i] > hi[h] \/ (hi[i] = hi[h] /\ lo[i] > lo[h])}
<1>1. Numbered(kind, C, l, below) =
          [h \in C |-> IF h \in kept THEN Uid(l, MaxId - Cardinality(before(h))) ELSE lo[h]]
  BY DEF Numbered
<1>2. hi = [h \in C |-> below[High(h, l)]] /\ lo = [h \in C |-> below[Low(h, l)]]
  BY EagerIs, Zenon
<1>3. kept \subseteq C
  BY DEF Irredundant
<1> HIDE DEF hi, lo
<1>4. before(g) = Preceding(kind, C, l, below, g)
  BY <1>2, <1>3 DEF Preceding
<1>5. lo[g] = below[Low(g, l)]
  BY <1>2
<1> HIDE DEF before, kept
<1>6. Numbered(kind, C, l, below)[g] =
          IF g \in kept THEN Uid(l, MaxId - Cardinality(before(g))) ELSE lo[g]
  BY <1>1
<1> QED BY <1>4, <1>5, <1>6 DEF kept

(* The numbering finds the pointer to each cofactor.                       *)
Finds(P, N, r, l) ==
    \A p \in Reached(N, r, l) \cup {Terminal(FALSE)} :
        Part(Denotes(N, p), l) \in Cofactors(Denotes(N, r.uid), l) => P[l][Part(Denotes(N, p), l)] = p

(* A cofactor that is not redundant is what a node of the level denotes.   *)
LEMMA KeptComeFromNodes ==
    ASSUME zdd \in BOOLEAN, NEW N, PlainDiagram(N), NEW r, HasRoot(N, r), NEW l \in Level
    PROVE  \A g \in Irredundant(zdd, Cofactors(Denotes(N, r.uid), l), l) :
              \E n \in OnLevel(N, l) : g = Part(Denotes(N, n.uid), l)
<1> DEFINE C == Cofactors(Denotes(N, r.uid), l)
           Cof(p) == Part(Denotes(N, p), l)
<1>1. l \in Nat /\ l \in 0 .. Levels
  BY DiagramAssumption DEF Level
<1>2. SUFFICES ASSUME NEW g \in C, ~Redundant(zdd, g, l)
               PROVE  \E n \in OnLevel(N, l) : g = Cof(n.uid)
  BY DEF Irredundant
<1>3. \A h \in C : \E p \in Reached(N, r, l) \cup {Terminal(FALSE)} : h = Cof(p)
  <2>1. ReachesCofactors(N, r, l)
    BY <1>1, CofactorsAreReached
  <2> QED BY <2>1 DEF ReachesCofactors
<1>4. PICK p \in Reached(N, r, l) \cup {Terminal(FALSE)} : g = Cof(p)
  <2> HIDE DEF C, Cof
  <2> QED BY <1>2, <1>3
<1>5. p \in PointersAt(N, l)
  BY <1>4, Zenon DEF Reached, PointersAt
<1>6. p \notin PointersAt(N, l + 1)
  BY <1>2, <1>4, LowerAreRedundant
<1>7. PICK n \in OnLevel(N, l) : p = n.uid
  BY <1>1, <1>5, <1>6, PointersFall
<1> QED BY <1>4, <1>7

LEMMA KeptAreNodes ==
    ASSUME zdd \in BOOLEAN, NEW N, PlainDiagram(N), Reduced(N), NEW r, HasRoot(N, r), NEW l \in Level
    PROVE  LET K == Irredundant(zdd, Cofactors(Denotes(N, r.uid), l), l)
           IN  /\ K = {Part(Denotes(N, n.uid), l) : n \in OnLevel(N, l)}
               /\ \A m, n \in OnLevel(N, l) : Part(Denotes(N, m.uid), l) = Part(Denotes(N, n.uid), l) => m = n
<1> DEFINE C == Cofactors(Denotes(N, r.uid), l)
           K == Irredundant(zdd, C, l)
           Cof(p) == Part(Denotes(N, p), l)
<1>1. l \in Nat /\ l \in 0 .. Levels /\ l + 1 \in 0 .. Levels
  BY DiagramAssumption DEF Level
<1>2. AreTold(N, l) /\ AreTold(N, l + 1)
  BY <1>1, ReducedAreTold
<1>3. /\ \A p \in Reached(N, r, l) : Cof(p) \in C
      /\ \A g \in C : \E p \in Reached(N, r, l) \cup {Terminal(FALSE)} : g = Cof(p)
  <2>1. ReachesCofactors(N, r, l)
    BY <1>1, CofactorsAreReached
  <2> QED BY <2>1 DEF ReachesCofactors
<1>4. ASSUME NEW n \in OnLevel(N, l)
      PROVE  Cof(n.uid) \in C /\ ~Redundant(zdd, Cof(n.uid), l)
  <2>1. n \in N /\ ReductionRule(n) = n.uid
    BY DEF OnLevel, Reduced
  <2>2. n.uid \in Reached(N, r, l)
    BY ReachedAre
  <2>3. ~Redundant(zdd, Cof(n.uid), l)
    BY <1>2, <2>1, NodesAreKept
  <2> HIDE DEF C, Cof
  <2> QED BY <1>3, <2>2, <2>3
<1>5. \A g \in K : \E n \in OnLevel(N, l) : g = Cof(n.uid)
  BY KeptComeFromNodes
<1>6. K = {Cof(n.uid) : n \in OnLevel(N, l)}
  <2>1. \A g : g \in K <=> g \in C /\ ~Redundant(zdd, g, l)
    BY DEF Irredundant
  <2> HIDE DEF C, Cof, K
  <2> QED BY <1>4, <1>5, <2>1
<1>7. ASSUME NEW m \in OnLevel(N, l), NEW n \in OnLevel(N, l), Cof(m.uid) = Cof(n.uid)
      PROVE  m = n
  <2>1. m.uid \in PointersAt(N, l) /\ n.uid \in PointersAt(N, l)
    BY <1>1, PointersFall
  <2>2. m.uid = n.uid
    BY <1>2, <1>7, <2>1 DEF AreTold
  <2>3. m \in N /\ n \in N
    BY DEF OnLevel
  <2> QED BY <2>2, <2>3, PlainFollows
<1> QED BY <1>6, <1>7

LEMMA NumberingFinds ==
    ASSUME zdd \in BOOLEAN, NEW N, PlainDiagram(N), Reduced(N), NEW r, HasRoot(N, r),
           IsOrdered(N), IsContiguous(N),
           NEW P, IsNumbering(P, zdd, Denotes(N, r.uid)), NEW l \in Level, Finds(P, N, r, l + 1)
    PROVE  /\ Finds(P, N, r, l)
           /\ \A n \in OnLevel(N, l) :
                 LET g == Part(Denotes(N, n.uid), l)
                 IN  /\ P[l][g] = n.uid /\ P[l + 1][Low(g, l)] = n.low
                     /\ P[l + 1][High(g, l)] = n.high
<1> DEFINE C == Cofactors(Denotes(N, r.uid), l)
           D == Cofactors(Denotes(N, r.uid), l + 1)
           K == Irredundant(zdd, C, l)
           Cof(p) == Part(Denotes(N, p), l)
           Next1(p) == Part(Denotes(N, p), l + 1)
<1>1. l \in Nat /\ l \in 0 .. Levels /\ l + 1 \in 0 .. Levels
  BY DiagramAssumption DEF Level
<1>2. K = {Cof(n.uid) : n \in OnLevel(N, l)}
      /\ \A m, n \in OnLevel(N, l) : Cof(m.uid) = Cof(n.uid) => m = n
  BY KeptAreNodes
<1>3. \A g \in C : Low(g, l) \in D /\ High(g, l) \in D
  BY CofactorsBelow
<1>4. \A g \in C : P[l][g] = IF g \in K
                             THEN Uid(l, MaxId - Cardinality(Preceding(zdd, C, l, P[l + 1], g)))
                             ELSE P[l + 1][Low(g, l)]
  <2>1. P[l] = Numbered(zdd, C, l, P[l + 1])
    BY DEF IsNumbering
  <2> QED BY <2>1, NumberedIs
<1>5. ASSUME NEW n \in OnLevel(N, l)
      PROVE  /\ Cof(n.uid) \in K /\ Cof(n.uid) \in C
             /\ P[l + 1][Low(Cof(n.uid), l)] = n.low /\ P[l + 1][High(Cof(n.uid), l)] = n.high
  <2>1. n.low \in Reached(N, r, l + 1) /\ n.high \in Reached(N, r, l + 1)
    BY ReachedAre
  <2>2. Low(Cof(n.uid), l) = Next1(n.low) /\ High(Cof(n.uid), l) = Next1(n.high)
    BY NodesByChoice
  <2>3. Next1(n.low) \in D /\ Next1(n.high) \in D
    <3>1. ReachesCofactors(N, r, l + 1)
      BY <1>1, CofactorsAreReached
    <3> QED BY <2>1, <3>1 DEF ReachesCofactors
  <2>4. P[l + 1][Next1(n.low)] = n.low /\ P[l + 1][Next1(n.high)] = n.high
    BY <2>1, <2>3 DEF Finds
  <2>5. Cof(n.uid) \in K /\ K \subseteq C
    <3> HIDE DEF Cof, C
    <3> QED BY <1>2 DEF Irredundant
  <2> HIDE DEF Cof, Next1, C, D
  <2> QED BY <2>2, <2>4, <2>5
<1>6. ASSUME NEW n \in OnLevel(N, l)
      PROVE  P[l][Cof(n.uid)] = n.uid
  <2> DEFINE B == Preceding(zdd, C, l, P[l + 1], Cof(n.uid))
             F == [m \in Larger(N, n) |-> Cof(m.uid)]
  <2>1. n \in N /\ LevelOf(n.uid) = l /\ Larger(N, n) \subseteq OnLevel(N, l)
    BY DEF OnLevel, Larger
  <2>2. \A m \in OnLevel(N, l) : m.uid > n.uid <=> Precedes(m, n)
    <3> SUFFICES ASSUME NEW m \in OnLevel(N, l) PROVE m.uid > n.uid <=> Precedes(m, n)
      OBVIOUS
    <3>1. /\ m \in N /\ m.uid \in Nat /\ n.uid \in Nat /\ LevelOf(m.uid) = l
          /\ m.low \in Nat /\ m.high \in Nat /\ n.low \in Nat /\ n.high \in Nat
      <4>1. m \in N /\ LevelOf(m.uid) = l /\ m \in NodeRecord /\ n \in NodeRecord
        BY <2>1, PlainNodes DEF OnLevel
      <4> QED BY <4>1 DEF NodeRecord
    <3>2. m.uid > n.uid => Precedes(m, n)
      BY <2>1, <3>1 DEF IsOrdered
    <3>3. n.uid > m.uid => Precedes(n, m)
      BY <2>1, <3>1 DEF IsOrdered
    <3>4. m.uid = n.uid => m = n
      BY <2>1, <3>1, PlainFollows
    <3> QED BY <3>1, <3>2, <3>3, <3>4 DEF Precedes
  <2>3. \A m \in OnLevel(N, l) : Cof(m.uid) \in B <=> m \in Larger(N, n)
    <3>1. \A m \in OnLevel(N, l) : Cof(m.uid) \in B <=> Precedes(m, n)
      <4> HIDE DEF Cof, C
      <4> QED BY <1>5 DEF Preceding, Precedes
    <3> QED BY <2>1, <2>2, <3>1 DEF Larger
  <2>4. B \subseteq K
    BY DEF Preceding
  <2>5. IsFiniteSet(Larger(N, n))
    <3>1. Larger(N, n) \subseteq N /\ IsFiniteSet(N)
      BY <2>1 DEF OnLevel, PlainDiagram, HoldsDiagram, HoldsNodes
    <3> QED BY <3>1, FS_Subset, Zenon
  <2> HIDE DEF Cof, B, C, K
  <2>6. F \in Bijection(Larger(N, n), B)
    <3>1. \A m \in Larger(N, n) : F[m] \in B
      BY <2>1, <2>3
    <3>2. \A b \in B : \E m \in Larger(N, n) : F[m] = b
      <4> SUFFICES ASSUME NEW b \in B PROVE \E m \in Larger(N, n) : F[m] = b
        OBVIOUS
      <4>1. PICK m \in OnLevel(N, l) : b = Cof(m.uid)
        BY <1>2, <2>4
      <4> QED BY <2>3, <4>1
    <3>3. \A m, k \in Larger(N, n) : F[m] = F[k] => m = k
      BY <1>2, <2>1
    <3>4. F \in [Larger(N, n) -> B]
      BY <3>1
    <3> HIDE DEF F
    <3> QED BY <3>2, <3>3, <3>4, Zenon DEF Bijection, Injection, Surjection, IsInjective
  <2>7. Cardinality(B) = Cardinality(Larger(N, n))
    <3>1. ExistsBijection(Larger(N, n), B)
      BY <2>6, Zenon DEF ExistsBijection
    <3> QED BY <2>5, <3>1, FS_Bijection, Zenon
  <2>8. n.uid = Uid(l, MaxId - Cardinality(Larger(N, n)))
    BY <2>1 DEF IsContiguous
  <2>9. P[l][Cof(n.uid)] = Uid(l, MaxId - Cardinality(B))
    BY <1>4, <1>5 DEF B
  <2> QED BY <2>7, <2>8, <2>9
<1>7. ASSUME NEW p \in Reached(N, r, l) \cup {Terminal(FALSE)}, Cof(p) \in C
      PROVE  P[l][Cof(p)] = p
  <2>1. p \in PointersAt(N, l)
    BY <1>7, Zenon DEF Reached, PointersAt
  <2>2. CASE p \in PointersAt(N, l + 1)
    <3>1. Redundant(zdd, Cof(p), l) /\ Low(Cof(p), l) = Next1(p)
      BY <2>2, LowerAreRedundant
    <3>2. p \in Reached(N, r, l + 1) \cup {Terminal(FALSE)}
      BY <1>7, <2>2, ReachedAre
    <3>3. Next1(p) \in D
      <4> HIDE DEF Cof, C, D, Next1
      <4> QED BY <1>3, <1>7, <3>1
    <3>4. P[l + 1][Next1(p)] = p
      BY <3>2, <3>3 DEF Finds
    <3> HIDE DEF Cof, C, D, Next1
    <3>5. Cof(p) \notin K
      BY <3>1 DEF Irredundant
    <3> QED BY <1>4, <1>7, <3>1, <3>4, <3>5
  <2>3. CASE p \notin PointersAt(N, l + 1)
    <3>1. PICK n \in OnLevel(N, l) : p = n.uid
      BY <1>1, <2>1, <2>3, PointersFall
    <3> QED BY <1>6, <3>1
  <2> QED BY <2>2, <2>3
<1>8. Finds(P, N, r, l)
  BY <1>7 DEF Finds
<1> QED BY <1>5, <1>6, <1>8

(* What is numbered at the bottom are the terminals.                       *)
LEMMA TerminalsAreFound ==
    ASSUME zdd \in BOOLEAN, NEW N, PlainDiagram(N), NEW r,
           NEW P, IsNumbering(P, zdd, Denotes(N, r.uid))
    PROVE  Finds(P, N, r, Levels)
<1> DEFINE C == Cofactors(Denotes(N, r.uid), Levels)
           Cof(p) == Part(Denotes(N, p), Levels)
<1>1. SUFFICES ASSUME NEW p \in Reached(N, r, Levels) \cup {Terminal(FALSE)}, Cof(p) \in C
               PROVE  P[Levels][Cof(p)] = p
  BY DEF Finds
<1>2. PICK v \in BOOLEAN : p = Terminal(v)
  <2>1. \A n \in N : LevelOf(n.uid) \in Nat /\ LevelOf(n.uid) < Levels /\ Levels \in Nat
    BY PlainNodes, DiagramAssumption, Zenon
  <2>2. ~\E n \in N : LevelOf(n.uid) >= Levels
    BY <2>1
  <2> QED BY <2>2 DEF Reached, PointersAt
<1>3. (Cof(p) # {}) = v
  <2>1. CASE v = TRUE
    BY <1>2, <2>1, TrueDenotes
  <2>2. CASE v = FALSE
    BY <1>2, <2>2, FalseDenotes
  <2> QED BY <2>1, <2>2
<1>4. P[Levels][Cof(p)] = Terminal(Cof(p) # {})
  <2> HIDE DEF Cof
  <2> QED BY <1>1 DEF IsNumbering
<1> QED BY <1>2, <1>3, <1>4

LEMMA AllAreFound ==
    ASSUME zdd \in BOOLEAN, NEW N, PlainDiagram(N), Reduced(N), NEW r, HasRoot(N, r),
           IsOrdered(N), IsContiguous(N), NEW P, IsNumbering(P, zdd, Denotes(N, r.uid))
    PROVE  \A l \in 0 .. Levels : Finds(P, N, r, l)
<1> DEFINE Bad == {l \in 0 .. Levels : ~Finds(P, N, r, l)}
<1>1. Levels \in Nat /\ Level = 0 .. Levels - 1
  BY DiagramAssumption DEF Level
<1>2. SUFFICES ASSUME Bad # {} PROVE FALSE
  OBVIOUS
<1>3. PICK m \in Bad : \A x \in Bad : x <= m
  <2>1. Bad \subseteq Nat /\ \A x \in Bad : x <= Levels
    BY <1>1
  <2> HIDE DEF Bad
  <2> QED BY <1>1, <1>2, <2>1, GreatestExists
<1>4. m # Levels
  BY <1>3, TerminalsAreFound
<1>5. m \in Level /\ m + 1 \in 0 .. Levels /\ m + 1 \notin Bad
  BY <1>1, <1>3, <1>4
<1>6. Finds(P, N, r, m + 1)
  BY <1>5
<1>7. Finds(P, N, r, m)
  BY <1>5, <1>6, NumberingFinds
<1> QED BY <1>3, <1>7

(* The one canonical diagram of its function: reduced, in order and        *)
(* without a gap is all that a diagram with one root need be.  These are   *)
(* the two flags of a file (node_file.h:50-81), which is_equal takes to    *)
(* mean that files can be compared node by node (pred.cpp).                *)
THEOREM NumberedDiagramIsCanonical ==
    ASSUME zdd \in BOOLEAN, NEW N, PlainDiagram(N), Reduced(N), NEW r, HasRoot(N, r),
           IsOrdered(N), IsContiguous(N)
    PROVE  N = CanonicalNodes(Denotes(N, r.uid))
<1> DEFINE f == Denotes(N, r.uid)
           K(l) == Irredundant(zdd, Cofactors(f, l), l)
           Cof(p, l) == Part(Denotes(N, p), l)
           NodeOf(P, g, l) == Node(P[l][g], P[l + 1][Low(g, l)], P[l + 1][High(g, l)])
<1>1. PICK P : /\ IsNumbering(P, zdd, f)
               /\ CanonicalNodesOf(zdd, f) =
                      IF NumberedNodes(P, zdd, f) = {} THEN {TerminalNode(f # {})}
                                                       ELSE NumberedNodes(P, zdd, f)
  BY CanonicalNodesAre
<1>2. \A l \in 0 .. Levels : Finds(P, N, r, l)
  BY <1>1, AllAreFound
<1>3. ASSUME NEW l \in Level
      PROVE  /\ K(l) = {Cof(n.uid, l) : n \in OnLevel(N, l)}
             /\ \A n \in OnLevel(N, l) : NodeOf(P, Cof(n.uid, l), l) = n
  <2>1. K(l) = {Cof(n.uid, l) : n \in OnLevel(N, l)}
    BY KeptAreNodes
  <2>2. ASSUME NEW n \in OnLevel(N, l)
        PROVE  NodeOf(P, Cof(n.uid, l), l) = n
    <3>1. Finds(P, N, r, l + 1)
      BY <1>2, DiagramAssumption DEF Level
    <3>2. /\ P[l][Cof(n.uid, l)] = n.uid /\ P[l + 1][Low(Cof(n.uid, l), l)] = n.low
          /\ P[l + 1][High(Cof(n.uid, l), l)] = n.high
      BY <1>1, <3>1, NumberingFinds
    <3>3. n \in NodeRecord
      BY PlainNodes DEF OnLevel
    <3> HIDE DEF Cof
    <3> QED BY <3>2, <3>3 DEF NodeRecord, Node
  <2> QED BY <2>1, <2>2
<1>4. NumberedNodes(P, zdd, f) = UNION {{NodeOf(P, g, l) : g \in K(l)} : l \in Level}
  BY DEF NumberedNodes
<1> HIDE DEF K, Cof, NodeOf, f
<1>5. \A l \in Level : {NodeOf(P, g, l) : g \in K(l)} = OnLevel(N, l)
  BY <1>3
<1>6. \A n \in N : LevelOf(n.uid) \in Level
  BY PlainNodes, Zenon
<1>7. NumberedNodes(P, zdd, f) = N
  BY <1>4, <1>5, <1>6 DEF OnLevel
<1>8. N # {}
  BY DEF HasRoot
<1> QED BY <1>1, <1>7, <1>8 DEF CanonicalNodes, f

-----------------------------------------------------------------------------
(* The canonical diagram has its nodes in order                            *)

LEMMA LevelsHaveRoom ==
    ASSUME NEW N, PlainDiagram(N), NEW l \in Level
    PROVE  /\ IsFiniteSet(OnLevel(N, l)) /\ Cardinality(OnLevel(N, l)) \in Nat
           /\ Cardinality(OnLevel(N, l)) <= MaxId + 1
<1> DEFINE S == OnLevel(N, l)
           F == [n \in S |-> IdOf(n.uid)]
<1>1. IsFiniteSet(N) /\ HoldsNodes(N) /\ \A m, n \in N : m.uid = n.uid => m = n
  BY DEF PlainDiagram, HoldsDiagram, HoldsNodes
<1>2. IsFiniteSet(S)
  <2>1. S \subseteq N
    BY DEF OnLevel
  <2> QED BY <1>1, <2>1, FS_Subset, Zenon
<1>3. Cardinality(S) \in Nat
  BY <1>2, FS_CardinalityType, Zenon
<1>4. ASSUME NEW n \in S
      PROVE  n \in N /\ IdOf(n.uid) \in 0 .. MaxId /\ n.uid = Uid(l, IdOf(n.uid))
  <2>1. n \in N /\ LevelOf(n.uid) = l
    BY DEF OnLevel
  <2>2. PICK k \in Level, i \in 0 .. MaxId : n.uid = Uid(k, i)
    BY <1>1, <2>1 DEF HoldsNodes, IsInner
  <2>3. k \in Nat
    BY DiagramAssumption DEF Level
  <2>4. LevelOf(Uid(k, i)) = k /\ IdOf(Uid(k, i)) = i
    BY <2>3, UidIs
  <2> QED BY <2>1, <2>2, <2>4
<1> HIDE DEF S
<1>5. F \in Injection(S, 0 .. MaxId)
  <2>1. F \in [S -> 0 .. MaxId]
    BY <1>4
  <2>2. \A m, n \in S : F[m] = F[n] => m = n
    BY <1>1, <1>4
  <2> HIDE DEF F
  <2> QED BY <2>1, <2>2, Zenon DEF Injection, IsInjective
<1>6. IsFiniteSet(0 .. MaxId) /\ Cardinality(0 .. MaxId) = MaxId + 1
  BY DiagramAssumption, FS_Interval
<1>7. Cardinality(S) <= Cardinality(0 .. MaxId)
  <2> HIDE DEF F
  <2> QED BY <1>5, <1>6, FS_Injection, Zenon
<1> QED BY <1>2, <1>3, <1>6, <1>7 DEF S

(* Counting those before a cofactor ranks the cofactors of a level.        *)
LEMMA RanksAre ==
    ASSUME NEW kind, NEW C, NEW l, NEW below, IsFiniteSet(Irredundant(kind, C, l)),
           \A h \in Irredundant(kind, C, l) : below[High(h, l)] \in Nat /\ below[Low(h, l)] \in Nat,
           NEW g \in Irredundant(kind, C, l), NEW h \in Irredundant(kind, C, l)
    PROVE  LET Rank(x) == Cardinality(Preceding(kind, C, l, below, x))
           IN  /\ Rank(g) \in Nat /\ Rank(g) < Cardinality(Irredundant(kind, C, l))
               /\ IsFiniteSet(Preceding(kind, C, l, below, g))
               /\ g \in Preceding(kind, C, l, below, h) <=> Rank(g) < Rank(h)
<1> DEFINE K == Irredundant(kind, C, l)
           B(x) == Preceding(kind, C, l, below, x)
<1>1. \A x \in K : \A y : y \in B(x) <=>
          /\ y \in K
          /\ \/ below[High(y, l)] > below[High(x, l)]
             \/ below[High(y, l)] = below[High(x, l)] /\ below[Low(y, l)] > below[Low(x, l)]
  BY DEF Preceding
<1> HIDE DEF B, K
<1>2. \A x \in K : B(x) \subseteq K /\ x \notin B(x)
  BY <1>1 DEF K
<1>3. \A x, y \in K : x \in B(y) => B(x) \subseteq B(y)
  BY <1>1 DEF K
<1>4. \A x, y \in K : x \notin B(y) => B(y) \subseteq B(x)
  BY <1>1 DEF K
<1>5. ASSUME NEW x \in K
      PROVE  IsFiniteSet(B(x)) /\ Cardinality(B(x)) \in Nat
  <2>1. IsFiniteSet(B(x))
    BY <1>2, FS_Subset, Zenon DEF K
  <2> QED BY <2>1, FS_CardinalityType, Zenon
<1>6. ASSUME NEW x \in K, NEW S, IsFiniteSet(S), x \in S, B(x) \subseteq S
      PROVE  Cardinality(B(x)) < Cardinality(S)
  <2>1. Cardinality(B(x)) <= Cardinality(S) /\ (Cardinality(S) = Cardinality(B(x)) => S = B(x))
    BY <1>6, FS_Subset, Zenon
  <2>2. Cardinality(S) \in Nat
    BY <1>6, FS_CardinalityType, Zenon
  <2>3. S # B(x)
    BY <1>2, <1>6
  <2> QED BY <1>5, <2>1, <2>2, <2>3
<1>7. Cardinality(B(g)) < Cardinality(K)
  BY <1>2, <1>6 DEF K
<1>8. g \in B(h) => Cardinality(B(g)) < Cardinality(B(h))
  BY <1>3, <1>5, <1>6 DEF K
<1>9. g \notin B(h) => Cardinality(B(h)) <= Cardinality(B(g))
  <2> SUFFICES ASSUME g \notin B(h) PROVE Cardinality(B(h)) <= Cardinality(B(g))
    OBVIOUS
  <2>1. IsFiniteSet(B(g)) /\ B(h) \subseteq B(g)
    BY <1>4, <1>5 DEF K
  <2> QED BY <2>1, FS_Subset, Zenon
<1>10. /\ Cardinality(B(g)) \in Nat /\ Cardinality(B(h)) \in Nat /\ IsFiniteSet(B(g))
  BY <1>5 DEF K
<1>11. g \in B(h) <=> Cardinality(B(g)) < Cardinality(B(h))
  BY <1>8, <1>9, <1>10
<1> QED BY <1>7, <1>10, <1>11 DEF B, K

(* The nodes of the canonical diagram, one for each cofactor it keeps.     *)
NodeFor(P, g, l) == Node(P[l][g], P[l + 1][Low(g, l)], P[l + 1][High(g, l)])
KeptAt(N, r, l) == Irredundant(zdd, Cofactors(Denotes(N, r.uid), l), l)
RankOf(P, N, r, l, g) ==
    Cardinality(Preceding(zdd, Cofactors(Denotes(N, r.uid), l), l, P[l + 1], g))

LEMMA NodesForCofactors ==
    ASSUME zdd \in BOOLEAN, NEW N, PlainDiagram(N), NEW r, HasRoot(N, r),
           NEW P, IsNumbering(P, zdd, Denotes(N, r.uid)), N = NumberedNodes(P, zdd, Denotes(N, r.uid)),
           NEW l \in Level
    PROVE  /\ IsFiniteSet(KeptAt(N, r, l))
           /\ Cardinality(KeptAt(N, r, l)) \in Nat /\ Cardinality(KeptAt(N, r, l)) <= Cardinality(OnLevel(N, l))
           /\ \A g \in KeptAt(N, r, l) :
                 /\ NodeFor(P, g, l) \in OnLevel(N, l)
                 /\ P[l][g] = Uid(l, MaxId - RankOf(P, N, r, l, g))
                 /\ RankOf(P, N, r, l, g) \in 0 .. MaxId
           /\ \A g, h \in KeptAt(N, r, l) :
                 g \in Preceding(zdd, Cofactors(Denotes(N, r.uid), l), l, P[l + 1], h)
                     <=> RankOf(P, N, r, l, g) < RankOf(P, N, r, l, h)
<1> DEFINE C == Cofactors(Denotes(N, r.uid), l)
           K == KeptAt(N, r, l)
           Cof(n) == Part(Denotes(N, n.uid), l)
           S == OnLevel(N, l)
           F == [n \in S |-> Cof(n)]
           T == {Cof(n) : n \in S}
<1>1. IsFiniteSet(S) /\ Cardinality(S) \in Nat /\ Cardinality(S) <= MaxId + 1
  BY LevelsHaveRoom
<1>2. K \subseteq T
  <2>1. \A g \in K : \E n \in S : g = Cof(n)
    BY KeptComeFromNodes DEF KeptAt
  <2> HIDE DEF K, Cof, S
  <2> QED BY <2>1
<1>3. IsFiniteSet(T) /\ Cardinality(T) <= Cardinality(S)
  <2> HIDE DEF Cof, S
  <2>1. F \in Surjection(S, T)
    <3>1. F \in [S -> T] /\ \A t \in T : \E n \in S : F[n] = t
      OBVIOUS
    <3> HIDE DEF F, T
    <3> QED BY <3>1, Zenon DEF Surjection
  <2> HIDE DEF F, T
  <2> QED BY <1>1, <2>1, FS_Surjection, Zenon
<1>4. /\ IsFiniteSet(K) /\ Cardinality(K) <= Cardinality(T)
      /\ Cardinality(K) \in Nat /\ Cardinality(T) \in Nat
  <2> HIDE DEF K, T
  <2>1. IsFiniteSet(K) /\ Cardinality(K) <= Cardinality(T)
    BY <1>2, <1>3, FS_Subset, Zenon
  <2> QED BY <1>3, <2>1, FS_CardinalityType, Zenon
<1>5. Cardinality(K) <= Cardinality(S)
  BY <1>1, <1>3, <1>4
<1>6. \A g \in K : NodeFor(P, g, l) \in N
  <2>1. N = UNION {{NodeFor(P, g, k) : g \in KeptAt(N, r, k)} : k \in Level}
    BY Zenon DEF NumberedNodes, NodeFor, KeptAt
  <2> QED BY <2>1
<1>7. \A g \in K : P[l + 1][High(g, l)] \in Nat /\ P[l + 1][Low(g, l)] \in Nat
  <2> SUFFICES ASSUME NEW g \in K
               PROVE  P[l + 1][High(g, l)] \in Nat /\ P[l + 1][Low(g, l)] \in Nat
    OBVIOUS
  <2>1. NodeFor(P, g, l) \in NodeRecord
    BY <1>6, PlainNodes, Zenon
  <2> QED BY <2>1 DEF NodeFor, Node, NodeRecord
<1>8. K = Irredundant(zdd, C, l)
  BY DEF KeptAt
<1>9. \A g, h \in K :
          /\ RankOf(P, N, r, l, g) \in Nat /\ RankOf(P, N, r, l, g) < Cardinality(K)
          /\ g \in Preceding(zdd, C, l, P[l + 1], h) <=> RankOf(P, N, r, l, g) < RankOf(P, N, r, l, h)
  <2> HIDE DEF K, C
  <2>1. IsFiniteSet(Irredundant(zdd, C, l))
        /\ \A h \in Irredundant(zdd, C, l) : P[l + 1][High(h, l)] \in Nat /\ P[l + 1][Low(h, l)] \in Nat
    BY <1>4, <1>7, <1>8
  <2>2. \A g : RankOf(P, N, r, l, g) = Cardinality(Preceding(zdd, C, l, P[l + 1], g))
    BY DEF RankOf, C
  <2> QED BY <1>8, <2>1, <2>2, RanksAre
<1>10. ASSUME NEW g \in K
       PROVE  /\ NodeFor(P, g, l) \in S
              /\ P[l][g] = Uid(l, MaxId - RankOf(P, N, r, l, g))
              /\ RankOf(P, N, r, l, g) \in 0 .. MaxId
  <2>1. RankOf(P, N, r, l, g) \in 0 .. MaxId
    <3> HIDE DEF K, S
    <3> QED BY <1>1, <1>4, <1>5, <1>9, DiagramAssumption
  <2>2. P[l][g] = Uid(l, MaxId - RankOf(P, N, r, l, g))
    <3>1. P[l] = Numbered(zdd, C, l, P[l + 1])
      BY DEF IsNumbering
    <3>2. g \in C /\ g \in Irredundant(zdd, C, l)
      BY DEF KeptAt, Irredundant
    <3> QED BY <3>1, <3>2, NumberedIs DEF RankOf
  <2>3. LevelOf(P[l][g]) = l
    <3>1. l \in Nat /\ MaxId - RankOf(P, N, r, l, g) \in 0 .. MaxId
      BY <2>1, DiagramAssumption DEF Level
    <3> QED BY <2>2, <3>1, UidIs
  <2>4. NodeFor(P, g, l).uid = P[l][g]
    BY DEF NodeFor, Node
  <2>5. NodeFor(P, g, l) \in N
    BY <1>6
  <2>6. NodeFor(P, g, l) \in S
    BY <2>3, <2>4, <2>5 DEF OnLevel
  <2> QED BY <2>1, <2>2, <2>6
<1> HIDE DEF K, S
<1>11. /\ \A g \in K : /\ NodeFor(P, g, l) \in S
                       /\ P[l][g] = Uid(l, MaxId - RankOf(P, N, r, l, g))
                       /\ RankOf(P, N, r, l, g) \in 0 .. MaxId
  BY <1>10
<1> QED BY <1>4, <1>5, <1>9, <1>11, Zenon DEF K, S

(* And no other: the canonical diagram of a function is in order and       *)
(* without a gap, so a writer that clears either flag (node_ofstream.h,    *)
(* 215-227) has been given nodes of another one.                           *)
THEOREM CanonicalIsNumbered ==
    ASSUME zdd \in BOOLEAN, NEW N, PlainDiagram(N), NEW r, HasRoot(N, r),
           N = CanonicalNodes(Denotes(N, r.uid))
    PROVE  IsOrdered(N) /\ IsContiguous(N)
<1> DEFINE f == Denotes(N, r.uid)
<1>1. PICK P : /\ IsNumbering(P, zdd, f)
               /\ CanonicalNodesOf(zdd, f) =
                      IF NumberedNodes(P, zdd, f) = {} THEN {TerminalNode(f # {})}
                                                       ELSE NumberedNodes(P, zdd, f)
  BY CanonicalNodesAre
<1>2. N = NumberedNodes(P, zdd, f)
  <2>1. N # {TerminalNode(f # {})}
    <3>1. r \in N /\ IsNode(r.uid)
      BY PlainNodes DEF HasRoot
    <3>2. \A v \in BOOLEAN : ~IsNode(TerminalNode(v).uid)
      BY TerminalIs
    <3> QED BY <3>1, <3>2
  <2> QED BY <1>1, <2>1 DEF CanonicalNodes
<1>3. ASSUME NEW n \in N
      PROVE  /\ LevelOf(n.uid) \in Level
             /\ \E g \in KeptAt(N, r, LevelOf(n.uid)) : n = NodeFor(P, g, LevelOf(n.uid))
  <2>1. n \in UNION {{NodeFor(P, g, k) : g \in KeptAt(N, r, k)} : k \in Level}
    <3>1. N = UNION {{NodeFor(P, g, k) : g \in KeptAt(N, r, k)} : k \in Level}
      BY <1>2, Zenon DEF NumberedNodes, NodeFor, KeptAt
    <3> QED BY <3>1
  <2>2. PICK k \in Level : \E g \in KeptAt(N, r, k) : n = NodeFor(P, g, k)
    BY <2>1
  <2>4. PICK g \in KeptAt(N, r, k) : n = NodeFor(P, g, k)
    BY <2>2
  <2>3. LevelOf(n.uid) = k
    <3>1. NodeFor(P, g, k) \in OnLevel(N, k)
      BY <1>1, <1>2, NodesForCofactors
    <3> QED BY <2>4, <3>1 DEF OnLevel
  <2> QED BY <2>3, <2>4
<1>4. ASSUME NEW l \in Level, NEW g \in KeptAt(N, r, l), NEW h \in KeptAt(N, r, l)
      PROVE  /\ NodeFor(P, g, l).uid > NodeFor(P, h, l).uid
                    <=> RankOf(P, N, r, l, g) < RankOf(P, N, r, l, h)
             /\ RankOf(P, N, r, l, g) < RankOf(P, N, r, l, h)
                    => Precedes(NodeFor(P, g, l), NodeFor(P, h, l))
  <2>1. PICK i \in 0 .. MaxId, j \in 0 .. MaxId :
            /\ i = RankOf(P, N, r, l, g) /\ j = RankOf(P, N, r, l, h)
            /\ P[l][g] = Uid(l, MaxId - i) /\ P[l][h] = Uid(l, MaxId - j)
    BY <1>1, <1>2, NodesForCofactors
  <2>2. PICK q \in Nat : q = l * (MaxId + 1)
    BY DiagramAssumption DEF Level
  <2>3. Uid(l, MaxId - i) = 4 * (q + (MaxId - i)) /\ Uid(l, MaxId - j) = 4 * (q + (MaxId - j))
    BY <2>2 DEF Uid
  <2>4. P[l][g] > P[l][h] <=> i < j
    BY <2>1, <2>2, <2>3, DiagramAssumption
  <2>5. NodeFor(P, g, l).uid = P[l][g] /\ NodeFor(P, h, l).uid = P[l][h]
    BY DEF NodeFor, Node
  <2>6. RankOf(P, N, r, l, g) < RankOf(P, N, r, l, h)
            => g \in Preceding(zdd, Cofactors(f, l), l, P[l + 1], h)
    BY <1>1, <1>2, NodesForCofactors
  <2>7. g \in Preceding(zdd, Cofactors(f, l), l, P[l + 1], h)
            => Precedes(NodeFor(P, g, l), NodeFor(P, h, l))
    BY DEF Preceding, Precedes, NodeFor, Node
  <2> QED BY <2>1, <2>4, <2>5, <2>6, <2>7
<1>5. IsOrdered(N)
  <2> SUFFICES ASSUME NEW m \in N, NEW n \in N, LevelOf(m.uid) = LevelOf(n.uid), m.uid > n.uid
               PROVE  Precedes(m, n)
    BY DEF IsOrdered
  <2>1. PICK l \in Level : l = LevelOf(m.uid)
    BY <1>3
  <2>2. PICK g \in KeptAt(N, r, l) : m = NodeFor(P, g, l)
    BY <1>3, <2>1
  <2>3. PICK h \in KeptAt(N, r, l) : n = NodeFor(P, h, l)
    BY <1>3, <2>1
  <2> QED BY <1>4, <2>2, <2>3
<1>6. ASSUME NEW n \in N
      PROVE  n.uid = Uid(LevelOf(n.uid), MaxId - Cardinality(Larger(N, n)))
  <2>1. PICK l \in Level : l = LevelOf(n.uid)
    BY <1>3
  <2>2. PICK h \in KeptAt(N, r, l) : n = NodeFor(P, h, l)
    BY <1>3, <2>1
  <2> DEFINE K == KeptAt(N, r, l)
             S == OnLevel(N, l)
             G == [g \in K |-> NodeFor(P, g, l)]
             B == Preceding(zdd, Cofactors(f, l), l, P[l + 1], h)
             H == [g \in B |-> NodeFor(P, g, l)]
  <2>3. /\ IsFiniteSet(K) /\ Cardinality(K) \in Nat /\ Cardinality(K) <= Cardinality(S)
        /\ \A g \in K : NodeFor(P, g, l) \in S
        /\ P[l][h] = Uid(l, MaxId - RankOf(P, N, r, l, h))
        /\ \A g \in K : g \in B <=> RankOf(P, N, r, l, g) < RankOf(P, N, r, l, h)
    BY <1>1, <1>2, NodesForCofactors
  <2>4. \A m \in S : \E g \in K : m = NodeFor(P, g, l)
    BY <1>3 DEF OnLevel
  <2>5. B \subseteq K /\ RankOf(P, N, r, l, h) = Cardinality(B)
    BY DEF Preceding, KeptAt, RankOf
  <2>6. n.uid = Uid(l, MaxId - Cardinality(B))
    BY <2>2, <2>3, <2>5 DEF NodeFor, Node
  <2>7. IsFiniteSet(S) /\ Cardinality(S) \in Nat
    BY LevelsHaveRoom
  <2>8. \A m : m \in Larger(N, n) <=> m \in S /\ m.uid > n.uid
    BY <2>1 DEF Larger
  <2>9. \A g \in K : NodeFor(P, g, l).uid > n.uid <=> g \in B
    BY <1>4, <2>2, <2>3
  <2> HIDE DEF K, S, B
  <2>10. G \in Surjection(K, S)
    <3>1. G \in [K -> S] /\ \A m \in S : \E g \in K : G[g] = m
      BY <2>3, <2>4
    <3> HIDE DEF G
    <3> QED BY <3>1, Zenon DEF Surjection
  <2>11. \A g, k \in K : G[g] = G[k] => g = k
    <3> HIDE DEF G
    <3>1. Cardinality(S) <= Cardinality(K) /\ (Cardinality(S) = Cardinality(K) => G \in Injection(K, S))
      BY <2>3, <2>10, FS_Surjection, Zenon
    <3>2. G \in Injection(K, S)
      BY <2>3, <2>7, <3>1
    <3> QED BY <3>2, Zenon DEF Injection, IsInjective
  <2>12. H \in Bijection(B, Larger(N, n))
    <3>1. H \in [B -> Larger(N, n)]
      BY <2>3, <2>5, <2>8, <2>9
    <3>2. \A m \in Larger(N, n) : \E g \in B : H[g] = m
      BY <2>4, <2>5, <2>8, <2>9
    <3>3. \A g, k \in B : H[g] = H[k] => g = k
      BY <2>5, <2>11
    <3> HIDE DEF H
    <3> QED BY <3>1, <3>2, <3>3, Zenon DEF Bijection, Injection, Surjection, IsInjective
  <2>13. Cardinality(Larger(N, n)) = Cardinality(B)
    <3>1. IsFiniteSet(B)
      BY <2>3, <2>5, FS_Subset, Zenon
    <3>2. ExistsBijection(B, Larger(N, n))
      BY <2>12, Zenon DEF ExistsBijection
    <3> QED BY <3>1, <3>2, FS_Bijection, Zenon
  <2> QED BY <2>1, <2>6, <2>13
<1> QED BY <1>5, <1>6 DEF IsContiguous

-----------------------------------------------------------------------------
(* One more node at the top                                                *)

(* The order and the numbering of a diagram are those of what was there    *)
(* and of the new node against the last one.                               *)
LEMMA OrderGrows ==
    ASSUME NEW N, HoldsNodes(N), NEW t \in N, \A m \in N : m = t \/ m.uid > t.uid,
           NEW n, IsInner(n), n.uid < t.uid
    PROVE  /\ IsOrdered(N \cup {n}) <=>
                 IsOrdered(N) /\ (LevelOf(t.uid) # LevelOf(n.uid) \/ Precedes(t, n))
           /\ IsContiguous(N \cup {n}) <=>
                 /\ IsContiguous(N)
                 /\ IF LevelOf(t.uid) # LevelOf(n.uid) THEN IdOf(n.uid) = MaxId
                                                       ELSE IdOf(n.uid) = IdOf(t.uid) - 1
<1> DEFINE M == N \cup {n}
           l == LevelOf(n.uid)
           S == OnLevel(N, l)
<1>1. ASSUME NEW m, IsInner(m)
      PROVE  /\ LevelOf(m.uid) \in Nat /\ IdOf(m.uid) \in 0 .. MaxId
             /\ m.uid = Uid(LevelOf(m.uid), IdOf(m.uid)) /\ m \in NodeRecord
  <2>1. PICK k \in Level, i \in 0 .. MaxId : m.uid = Uid(k, i)
    BY <1>1 DEF IsInner
  <2>2. k \in Nat
    BY DiagramAssumption DEF Level
  <2>3. LevelOf(Uid(k, i)) = k /\ IdOf(Uid(k, i)) = i
    BY <2>2, UidIs
  <2> QED BY <1>1, <2>1, <2>2, <2>3 DEF IsInner
<1>2. ASSUME NEW m \in N
      PROVE  /\ m \in NodeRecord /\ m.uid \in Nat /\ LevelOf(m.uid) \in Nat
             /\ n \in NodeRecord /\ n.uid \in Nat /\ l \in Nat /\ t.uid \in Nat
             /\ n.uid < m.uid /\ m # n
             /\ LevelOf(t.uid) # l => LevelOf(m.uid) # l
  <2>1. IsInner(m) /\ IsInner(t)
    BY DEF HoldsNodes
  <2>2. m \in NodeRecord /\ n \in NodeRecord /\ t \in NodeRecord
    BY <1>1, <2>1
  <2>3. m.uid \in Nat /\ n.uid \in Nat /\ t.uid \in Nat
    BY <2>2 DEF NodeRecord
  <2>4. n.uid < m.uid
    BY <2>3
  <2>5. \A a, b : IsInner(a) /\ IsInner(b) /\ a.uid < b.uid => LevelOf(a.uid) <= LevelOf(b.uid)
    <3> SUFFICES ASSUME NEW a, NEW b, IsInner(a), IsInner(b), a.uid < b.uid
                 PROVE  LevelOf(a.uid) <= LevelOf(b.uid)
      OBVIOUS
    <3> QED BY <1>1, UidsAreOrdered
  <2>6. l <= LevelOf(t.uid) /\ LevelOf(t.uid) <= LevelOf(m.uid)
    BY <1>1, <2>1, <2>5
  <2> QED BY <1>1, <2>1, <2>2, <2>3, <2>4, <2>6
<1>3. \A m \in N : m.uid \in Nat /\ n.uid \in Nat /\ n.uid < m.uid
  BY <1>2
<1>4. IsOrdered(M) <=> IsOrdered(N) /\ (LevelOf(t.uid) # l \/ Precedes(t, n))
  <2>1. IsOrdered(M) => IsOrdered(N) /\ (LevelOf(t.uid) # l \/ Precedes(t, n))
    BY <1>3 DEF IsOrdered
  <2>2. ASSUME IsOrdered(N), LevelOf(t.uid) # l \/ Precedes(t, n),
               NEW a \in M, NEW b \in M, LevelOf(a.uid) = LevelOf(b.uid), a.uid > b.uid
        PROVE  Precedes(a, b)
    <3>1. CASE a \in N /\ b \in N
      BY <2>2, <3>1 DEF IsOrdered
    <3>2. CASE a = n
      BY <1>3, <2>2, <3>2
    <3>3. CASE a \in N /\ b = n
      <4>1. Precedes(t, n)
        BY <1>2, <2>2, <3>3
      <4>2. CASE a = t
        BY <3>3, <4>1, <4>2
      <4>3. CASE a # t
        <5>1. LevelOf(t.uid) = l
          BY <1>2, <2>2, <3>3
        <5>2. Precedes(a, t)
          BY <2>2, <3>3, <4>3, <5>1 DEF IsOrdered
        <5>3. a \in NodeRecord /\ t \in NodeRecord /\ n \in NodeRecord
          BY <1>2, <3>3
        <5> QED BY <3>3, <4>1, <5>2, <5>3 DEF Precedes, NodeRecord
      <4> QED BY <4>2, <4>3
    <3> QED BY <3>1, <3>2, <3>3
  <2> QED BY <2>1, <2>2 DEF IsOrdered
<1>5. \A m \in N : Larger(M, m) = Larger(N, m)
  BY <1>3 DEF Larger, OnLevel
<1>6. Larger(M, n) = S
  BY <1>3 DEF Larger, OnLevel
<1>7. IsContiguous(M) <=> IsContiguous(N) /\ n.uid = Uid(l, MaxId - Cardinality(S))
  BY <1>5, <1>6 DEF IsContiguous
<1>8. PICK q \in Nat : q = l * (MaxId + 1)
  BY <1>2, DiagramAssumption
<1>9. \A k \in Int : Uid(l, k) = 4 * (q + k)
  BY <1>8 DEF Uid
<1>10. PICK i \in 0 .. MaxId : i = IdOf(n.uid) /\ n.uid = Uid(l, i)
  BY <1>1
<1>11. CASE LevelOf(t.uid) # l
  <2>1. Cardinality(S) = 0
    <3>1. S = {}
      BY <1>2, <1>11 DEF OnLevel
    <3> QED BY <3>1, FS_EmptySet
  <2>2. n.uid = Uid(l, MaxId - Cardinality(S)) <=> i = MaxId
    BY <1>9, <1>10, <2>1, DiagramAssumption
  <2> QED BY <1>4, <1>7, <1>10, <1>11, <2>2
<1>12. CASE LevelOf(t.uid) = l
  <2>1. S = Larger(N, t) \cup {t} /\ t \notin Larger(N, t)
    BY <1>2, <1>12 DEF Larger, OnLevel
  <2>2. IsFiniteSet(Larger(N, t)) /\ Cardinality(Larger(N, t)) \in Nat
    <3>1. Larger(N, t) \subseteq N /\ IsFiniteSet(N)
      BY DEF Larger, OnLevel, HoldsNodes
    <3>2. IsFiniteSet(Larger(N, t))
      BY <3>1, FS_Subset, Zenon
    <3> QED BY <3>2, FS_CardinalityType, Zenon
  <2>3. Cardinality(S) = Cardinality(Larger(N, t)) + 1
    BY <2>1, <2>2, FS_AddElement, Zenon
  <2>4. PICK j \in 0 .. MaxId : j = IdOf(t.uid) /\ t.uid = Uid(l, j)
    BY <1>1, <1>12 DEF HoldsNodes
  <2>5. IsContiguous(N) => t.uid = Uid(l, MaxId - Cardinality(Larger(N, t)))
    BY <1>12 DEF IsContiguous
  <2>6. IsContiguous(N) => (n.uid = Uid(l, MaxId - Cardinality(S)) <=> i = j - 1)
    <3> SUFFICES ASSUME IsContiguous(N) PROVE n.uid = Uid(l, MaxId - Cardinality(S)) <=> i = j - 1
      OBVIOUS
    <3>1. PICK c \in Nat : c = Cardinality(Larger(N, t))
      BY <2>2
    <3>2. Uid(l, j) = Uid(l, MaxId - c)
      BY <2>4, <2>5, <3>1
    <3>3. MaxId - c \in Int /\ MaxId - (c + 1) \in Int /\ MaxId \in Nat
      BY DiagramAssumption
    <3>4. j = MaxId - c
      BY <1>9, <3>2, <3>3
    <3>5. Uid(l, i) = Uid(l, MaxId - (c + 1)) <=> i = MaxId - (c + 1)
      BY <1>9, <3>3
    <3> QED BY <1>10, <2>3, <3>1, <3>3, <3>4, <3>5
  <2> QED BY <1>4, <1>7, <1>10, <1>12, <2>4, <2>6
<1> QED BY <1>11, <1>12

LEMMA OrderOfOne ==
    ASSUME NEW n, IsInner(n)
    PROVE  IsOrdered({n}) /\ (IsContiguous({n}) <=> IdOf(n.uid) = MaxId)
<1>1. n.uid \in Nat
  BY DEF IsInner, NodeRecord
<1>2. Larger({n}, n) = {}
  BY <1>1 DEF Larger, OnLevel
<1>3. Cardinality(Larger({n}, n)) = 0
  BY <1>2, FS_EmptySet
<1>4. PICK l \in Level, i \in 0 .. MaxId : n.uid = Uid(l, i)
  BY DEF IsInner
<1>5. l \in Nat
  BY DiagramAssumption DEF Level
<1>6. LevelOf(n.uid) = l /\ IdOf(n.uid) = i
  BY <1>4, <1>5, UidIs
<1>7. PICK q \in Nat : q = l * (MaxId + 1)
  BY <1>5, DiagramAssumption
<1>8. Uid(l, i) = 4 * (q + i) /\ Uid(l, MaxId - 0) = 4 * (q + MaxId)
  BY <1>7, DiagramAssumption DEF Uid
<1>9. n.uid = Uid(l, MaxId - 0) <=> i = MaxId
  BY <1>4, <1>7, <1>8, DiagramAssumption
<1>10. IsContiguous({n}) <=> n.uid = Uid(l, MaxId - 0)
  BY <1>3, <1>6 DEF IsContiguous
<1> QED BY <1>1, <1>6, <1>9, <1>10 DEF IsOrdered

LEMMA OrderOfNone == IsOrdered({}) /\ IsContiguous({})
BY DEF IsOrdered, IsContiguous

(* A node on top of a plain diagram, with children in it, keeps it plain.  *)
LEMMA PlainGrows ==
    ASSUME NEW N, PlainDiagram(N) \/ N = {}, NEW n, IsTopNode(n, N),
           \A s \in Sides : (\E v \in BOOLEAN : n[s] = Terminal(v)) \/ \E m \in N : m.uid = n[s]
    PROVE  PlainDiagram(N \cup {n})
<1>1. HoldsDiagram(N)
  <2>1. CASE N = {}
    BY <2>1, FS_EmptySet DEF HoldsDiagram, HoldsNodes
  <2> QED BY <2>1 DEF PlainDiagram
<1>2. HoldsDiagram(N \cup {n})
  BY <1>1, DiagramGrows
<1> QED BY <1>2 DEF PlainDiagram

(* The one root of a diagram is the root it has.                           *)
LEMMA TheChosenRoot ==
    ASSUME NEW N, Cardinality(Roots(N)) = 1, IsFiniteSet(N)
    PROVE  HasRoot(N, CHOOSE n \in Roots(N) : TRUE)
<1>1. PICK r : HasRoot(N, r)
  BY TheRoot
<1>2. PICK q : Roots(N) = {q}
  <2>1. IsFiniteSet(Roots(N))
    BY PartsAreFewer, Roots(N) \subseteq N, Zenon DEF Roots
  <2> QED BY <2>1, FS_Singleton, Zenon
<1>3. \A n \in Roots(N) : n = r
  BY <1>1 DEF Roots, HasRoot, SidesIn, EndOf, Sides, Targets
<1>4. (CHOOSE n \in Roots(N) : TRUE) = r
  BY <1>2, <1>3
<1> QED BY <1>1, <1>4
=============================================================================
