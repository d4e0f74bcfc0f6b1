----------------------- MODULE ReduceMetaData_proofs -----------------------
(***************************************************************************)
(* Theorems about the meta data of Reduce's output: in the canonical       *)
(* diagram it ends with, the counts are exact and the cuts are sound.      *)
(***************************************************************************)
EXTENDS Reduce_proofs

-----------------------------------------------------------------------------
(* The meta data of the output                                             *)

(* Whether an arc to p from above or on level l crosses below that level,  *)
(* and is of a kind the cut counts.                                        *)
Reaches(p, l, k) == IF IsNode(p) THEN l < LevelOf(p) ELSE Includes(k, Value(p))

UpTo(N, l) == {n \in N : LevelOf(n.uid) <= l}
AcrossLevel(N, l, k) == {x \in SidesIn(UpTo(N, l)) : Reaches(EndOf(x), l, k)}

(* Arcs of the output to come; those rule 1 reroutes are not among them.   *)
Passing(A, l, k) == {a \in A : ~IsFlagged(a.target) /\ Reaches(a.target, l, k)}

LEMMA OneIs ==
    ASSUME NEW b
    PROVE  One(b) \in {0, 1} /\ (b => One(b) = 1) /\ (~b => One(b) = 0)
BY DEF One

(* Sets that cover a set, and parts of one that are disjoint.              *)
LEMMA OneOrNone ==
    ASSUME NEW x, NEW p \in {0, 1}, NEW X, X = {z \in {x} : p = 1}
    PROVE  IsFiniteSet(X) /\ Cardinality(X) = p
<1>1. CASE p = 1
  <2>1. X = {x}
    BY <1>1
  <2> QED BY <1>1, <2>1, FS_Singleton, Zenon
<1>2. CASE p = 0
  <2>1. X = {}
    BY <1>2
  <2> QED BY <1>2, <2>1, FS_EmptySet, Zenon
<1> QED BY <1>1, <1>2

LEMMA UnionsAreWithin ==
    ASSUME NEW T, IsFiniteSet(T), NEW X, IsFiniteSet(X)
    PROVE  /\ IsFiniteSet(T \cup X) /\ Cardinality(T \cup X) \in Nat
           /\ Cardinality(T) \in Nat /\ Cardinality(X) \in Nat
           /\ Cardinality(T \cup X) <= Cardinality(T) + Cardinality(X)
<1>1. /\ IsFiniteSet(T \cup X)
      /\ Cardinality(T \cup X) = Cardinality(T) + Cardinality(X) - Cardinality(T \cap X)
  BY FS_Union
<1>2. T \cap X \subseteq T
  OBVIOUS
<1>3. Cardinality(T \cap X) \in Nat /\ Cardinality(T) \in Nat /\ Cardinality(X) \in Nat
  BY <1>2, PartsAreFewer, FS_CardinalityType, Zenon
<1>4. Cardinality(T \cup X) \in Nat
  BY <1>1, FS_CardinalityType
<1> QED BY <1>1, <1>3, <1>4

LEMMA ThreeCover ==
    ASSUME NEW T, IsFiniteSet(T), NEW X, IsFiniteSet(X), NEW Y, IsFiniteSet(Y),
           NEW S, S \subseteq (T \cup X) \cup Y
    PROVE  /\ IsFiniteSet(S) /\ Cardinality(S) \in Nat
           /\ Cardinality(T) \in Nat /\ Cardinality(X) \in Nat /\ Cardinality(Y) \in Nat
           /\ Cardinality(S) <= Cardinality(T) + Cardinality(X) + Cardinality(Y)
<1>1. PICK Z : Z = T \cup X
  OBVIOUS
<1>2. /\ IsFiniteSet(Z) /\ Cardinality(Z) \in Nat
      /\ Cardinality(T) \in Nat /\ Cardinality(X) \in Nat
      /\ Cardinality(Z) <= Cardinality(T) + Cardinality(X)
  BY <1>1, UnionsAreWithin, Zenon
<1>3. /\ IsFiniteSet(Z \cup Y) /\ Cardinality(Z \cup Y) \in Nat /\ Cardinality(Y) \in Nat
      /\ Cardinality(Z \cup Y) <= Cardinality(Z) + Cardinality(Y)
  BY <1>2, UnionsAreWithin, Zenon
<1>4. IsFiniteSet(S) /\ Cardinality(S) \in Nat /\ Cardinality(S) <= Cardinality(Z \cup Y)
  BY <1>1, <1>3, PartsAreFewer, Zenon
<1> QED BY <1>2, <1>3, <1>4

LEMMA ThreeFit ==
    ASSUME NEW S, IsFiniteSet(S), NEW T, NEW X, NEW Y, T \subseteq S, X \subseteq S, Y \subseteq S,
           T \cap X = {}, (T \cup X) \cap Y = {}
    PROVE  /\ Cardinality(S) \in Nat
           /\ Cardinality(T) \in Nat /\ Cardinality(X) \in Nat /\ Cardinality(Y) \in Nat
           /\ Cardinality(T) + Cardinality(X) + Cardinality(Y) <= Cardinality(S)
<1>1. IsFiniteSet(T) /\ IsFiniteSet(X) /\ IsFiniteSet(Y)
  BY PartsAreFewer, Zenon
<1>2. PICK Z : Z = T \cup X
  OBVIOUS
<1>3. /\ IsFiniteSet(Z) /\ Cardinality(T) \in Nat /\ Cardinality(X) \in Nat
      /\ Cardinality(Z) = Cardinality(T) + Cardinality(X)
  BY <1>1, <1>2, PartsAdd, Zenon
<1>4. Z \subseteq S /\ Z \cap Y = {}
  BY <1>2
<1>5. /\ Cardinality(Z) \in Nat /\ Cardinality(Y) \in Nat /\ Cardinality(S) \in Nat
      /\ Cardinality(Z) + Cardinality(Y) <= Cardinality(S)
  BY <1>4, PartsFit, Zenon
<1> QED BY <1>3, <1>5

(* Every arc counts in the cut of its node, with or without a taint.       *)
LEMMA CutIs ==
    ASSUME NEW i \in Nat, NEW f \in Nat, NEW t \in Nat
    PROVE  /\ Cut(i, f, t) \in [CutKinds -> Nat]
           /\ \A k \in CutKinds :
                /\ Cut(i, f, t)[k] = i + OfKind(k, f, t)
                /\ Cut(i, f, t)[k] \in Nat /\ Cut(i, f, t)[k] >= i
                /\ Includes(k, FALSE) => Cut(i, f, t)[k] >= i + f
                /\ Includes(k, TRUE) => Cut(i, f, t)[k] >= i + t
<1>1. ASSUME NEW k \in CutKinds
      PROVE  \E x, y \in Nat :
                /\ x \in {0, f} /\ y \in {0, t}
                /\ OfKind(k, f, t) = x + y
                /\ Cut(i, f, t)[k] = i + x + y
                /\ Includes(k, FALSE) => x = f
                /\ Includes(k, TRUE) => y = t
  <2>1. PICK x : x = IF Includes(k, FALSE) THEN f ELSE 0
    OBVIOUS
  <2>2. PICK y : y = IF Includes(k, TRUE) THEN t ELSE 0
    OBVIOUS
  <2>3. /\ x \in {0, f} /\ y \in {0, t}
        /\ Includes(k, FALSE) => x = f
        /\ Includes(k, TRUE) => y = t
    BY <2>1, <2>2, Zenon
  <2>4. OfKind(k, f, t) = x + y /\ Cut(i, f, t)[k] = i + x + y
    BY <2>1, <2>2, Zenon DEF OfKind, Cut
  <2>5. x \in Nat /\ y \in Nat
    BY <2>3
  <2> QED BY <2>3, <2>4, <2>5
<1>2. ASSUME NEW k \in CutKinds
      PROVE  /\ Cut(i, f, t)[k] = i + OfKind(k, f, t)
             /\ Cut(i, f, t)[k] \in Nat /\ Cut(i, f, t)[k] >= i
             /\ Includes(k, FALSE) => Cut(i, f, t)[k] >= i + f
             /\ Includes(k, TRUE) => Cut(i, f, t)[k] >= i + t
  <2>1. PICK x \in Nat, y \in Nat :
                /\ OfKind(k, f, t) = x + y
                /\ Cut(i, f, t)[k] = i + x + y
                /\ Includes(k, FALSE) => x = f
                /\ Includes(k, TRUE) => y = t
    BY <1>1, <1>2, Zenon
  <2>2. /\ Cut(i, f, t)[k] = i + OfKind(k, f, t)
        /\ Cut(i, f, t)[k] \in Nat /\ Cut(i, f, t)[k] >= i
    BY <2>1
  <2>3. ASSUME Includes(k, FALSE)
        PROVE  Cut(i, f, t)[k] >= i + f
    BY <2>1, <2>3
  <2>4. ASSUME Includes(k, TRUE)
        PROVE  Cut(i, f, t)[k] >= i + t
    BY <2>1, <2>4
  <2> QED BY <2>2, <2>3, <2>4, Zenon
<1>3. \E g : Cut(i, f, t) = [k \in CutKinds |-> g[k]]
  <2>1. Cut(i, f, t) = [k \in CutKinds |-> Cut(i, f, t)[k]]
    BY DEF Cut
  <2> QED BY <2>1
<1> QED BY <1>2, <1>3

LEMMA CutOfKindIs ==
    ASSUME NEW i \in Nat, NEW f \in Nat, NEW t \in Nat, NEW k \in CutKinds
    PROVE  Cut(i, f, t)[k] = i + OfKind(k, f, t)
BY CutIs, ZenonT(40)

LEMMA NotBelow == \A x \in Int, y \in Nat : ~(x < y) => y <= x
OBVIOUS

LEMMA ArcCutIs ==
    ASSUME NEW p \in Int, p < Nil
    PROVE  /\ CutOfArc(p) \in [CutKinds -> Nat]
           /\ \A k \in CutKinds : \A l : CutOfArc(p)[k] >= One(Reaches(p, l, k))
<1>1. PICK i, f, t : i = One(IsNode(p)) /\ f = One(IsFalse(p)) /\ t = One(IsTrue(p))
  OBVIOUS
<1>2. i \in {0, 1} /\ f \in {0, 1} /\ t \in {0, 1}
  BY <1>1, OneIs
<1>3. CutOfArc(p) = Cut(i, f, t)
  BY <1>1 DEF CutOfArc
<1>4. CutOfArc(p) \in [CutKinds -> Nat]
  <2>1. i \in Nat /\ f \in Nat /\ t \in Nat
    BY <1>2
  <2>2. Cut(i, f, t) \in [CutKinds -> Nat]
    BY <2>1, CutIs, Zenon
  <2> QED BY <1>3, <2>2, Zenon
<1>5. ASSUME NEW k \in CutKinds, NEW l
      PROVE  CutOfArc(p)[k] >= One(Reaches(p, l, k))
  <2>0. i \in Nat /\ f \in Nat /\ t \in Nat
    BY <1>2
  <2>1. CASE ~Reaches(p, l, k)
    <3>1. One(Reaches(p, l, k)) = 0
      BY <2>1 DEF One
    <3>2. CutOfArc(p)[k] \in Nat
      BY <1>4
    <3> QED BY <3>1, <3>2
  <2>2. CASE Reaches(p, l, k)
    <3>1. One(Reaches(p, l, k)) = 1
      BY <2>2, OneIs
    <3>2. CASE IsNode(p)
      <4>1. i = 1
        BY <1>1, <3>2, OneIs
      <4>2. Cut(i, f, t)[k] >= i /\ Cut(i, f, t)[k] \in Nat
        BY <2>0, CutIs
      <4> QED BY <1>3, <3>1, <4>1, <4>2
    <3>3. CASE ~IsNode(p)
      <4>1. IsTerminal(p) /\ Includes(k, Value(p))
        <5>1. PICK b \in Nat : b = Terminal(FALSE)
          BY TerminalNumbers
        <5>2. ~(p < b)
          BY <3>3, <5>1 DEF IsNode
        <5>3. b <= p
          BY <5>1, <5>2, NotBelow, Zenon
        <5>4. IsTerminal(p)
          BY <5>1, <5>3 DEF IsTerminal
        <5> QED BY <2>2, <3>3, <5>4 DEF Reaches
      <4>2. CASE Value(p)
        <5>1. Includes(k, TRUE) /\ t = 1
          BY <1>1, <4>1, <4>2, OneIs, KindOfArc DEF IsTrue
        <5>2. Cut(i, f, t)[k] >= i + t
          BY <2>0, <5>1, CutIs
        <5>3. Cut(i, f, t)[k] \in Nat
          BY <2>0, CutIs
        <5> QED BY <1>2, <1>3, <3>1, <5>1, <5>2, <5>3
      <4>3. CASE ~Value(p)
        <5>1. Includes(k, FALSE) /\ f = 1
          BY <1>1, <4>1, <4>3, OneIs, KindOfArc DEF IsFalse
        <5>2. Cut(i, f, t)[k] >= i + f
          BY <2>0, <5>1, CutIs
        <5>3. Cut(i, f, t)[k] \in Nat
          BY <2>0, CutIs
        <5> QED BY <1>2, <1>3, <3>1, <5>1, <5>2, <5>3
      <4> QED BY <4>2, <4>3
    <3> QED BY <3>2, <3>3
  <2> QED BY <2>1, <2>2
<1> QED BY <1>4, <1>5

(* Finite parts of the two sets of arcs.                                   *)
LEMMA AcrossIs ==
    ASSUME NEW N, IsFiniteSet(N), NEW l, NEW k
    PROVE  IsFiniteSet(AcrossLevel(N, l, k)) /\ Cardinality(AcrossLevel(N, l, k)) \in Nat
<1>1. AcrossLevel(N, l, k) \subseteq SidesIn(N)
  BY DEF AcrossLevel, SidesIn, UpTo
<1> QED BY <1>1, ArcsOfIs, PartsAreFewer, Zenon

LEMMA PassingIs ==
    ASSUME NEW A, IsFiniteSet(A), NEW l, NEW k, NEW B,
           \A a \in B : ~IsFlagged(a.target) /\ Reaches(a.target, l, k) => a \in A
    PROVE  /\ IsFiniteSet(Passing(A, l, k))
           /\ Cardinality(Passing(A, l, k)) \in Nat /\ Cardinality(Passing(B, l, k)) \in Nat
           /\ Cardinality(Passing(B, l, k)) <= Cardinality(Passing(A, l, k))
<1>1. Passing(A, l, k) \subseteq A /\ Passing(B, l, k) \subseteq Passing(A, l, k)
  BY Zenon DEF Passing
<1> QED BY <1>1, PartsAreFewer, Zenon

LEMMA AcrossGrows ==
    ASSUME NEW N, IsFiniteSet(N), NEW n, NEW l, NEW k
    PROVE  /\ Cardinality(AcrossLevel(N, l, k)) \in Nat
           /\ Cardinality(AcrossLevel(N \cup {n}, l, k)) \in Nat
           /\ Cardinality(AcrossLevel(N \cup {n}, l, k))
                <= Cardinality(AcrossLevel(N, l, k))
                     + One(Reaches(n.low, l, k)) + One(Reaches(n.high, l, k))
<1>1. PICK p, q : p = One(Reaches(n.low, l, k)) /\ q = One(Reaches(n.high, l, k))
  OBVIOUS
<1>2. /\ p \in {0, 1} /\ (Reaches(n.low, l, k) <=> p = 1)
      /\ q \in {0, 1} /\ (Reaches(n.high, l, k) <=> q = 1)
  BY <1>1 DEF One
<1>3. PICK X, Y : X = {z \in {<<n, "low">>} : p = 1} /\ Y = {z \in {<<n, "high">>} : q = 1}
  OBVIOUS
<1>4. AcrossLevel(N \cup {n}, l, k) \subseteq (AcrossLevel(N, l, k) \cup X) \cup Y
  <2> SUFFICES ASSUME NEW z \in AcrossLevel(N \cup {n}, l, k), z \notin AcrossLevel(N, l, k)
               PROVE  z \in X \/ z \in Y
    OBVIOUS
  <2>1. PICK m \in UpTo(N \cup {n}, l), s \in Sides : z = <<m, s>> /\ Reaches(m[s], l, k)
    BY DEF AcrossLevel, SidesIn, EndOf
  <2>2. m = n
    BY <2>1 DEF AcrossLevel, SidesIn, EndOf, UpTo
  <2> QED BY <1>2, <1>3, <2>1, <2>2 DEF Sides
<1>5. /\ IsFiniteSet(X) /\ Cardinality(X) = p
      /\ IsFiniteSet(Y) /\ Cardinality(Y) = q
  BY <1>2, <1>3, OneOrNone, Zenon
<1>6. IsFiniteSet(AcrossLevel(N, l, k))
  BY AcrossIs, Zenon
<1>7. PICK T, S : T = AcrossLevel(N, l, k) /\ S = AcrossLevel(N \cup {n}, l, k)
  OBVIOUS
<1>8. IsFiniteSet(T) /\ S \subseteq (T \cup X) \cup Y
  BY <1>4, <1>6, <1>7, Zenon
<1>9. /\ Cardinality(S) \in Nat /\ Cardinality(T) \in Nat
      /\ Cardinality(S) <= Cardinality(T) + Cardinality(X) + Cardinality(Y)
  BY <1>5, <1>8, ThreeCover, Zenon
<1> QED BY <1>1, <1>5, <1>7, <1>9, Zenon
(* The cuts a node adds to: the local one for the arcs that stay, the      *)
(* tainted one for those of rule 1.                                        *)
SideCut(p, b) == IF IsTainted(p) = b THEN CutOfArc(Unflag(p)) ELSE NoCut

LEMMA NoCutIs == NoCut \in [CutKinds -> Nat] /\ \A k \in CutKinds : NoCut[k] = 0
BY DEF NoCut

LEMMA SideCutIs ==
    ASSUME NEW p \in Nat, FlagsAside(Unflag(p))
    PROVE  /\ SideCut(p, FALSE) \in [CutKinds -> Nat] /\ SideCut(p, TRUE) \in [CutKinds -> Nat]
           /\ \A k \in CutKinds : \A l :
                /\ SideCut(p, FALSE)[k] + SideCut(p, TRUE)[k] >= One(Reaches(Unflag(p), l, k))
                /\ SideCut(p, TRUE)[k] + One(~IsFlagged(p) /\ Reaches(p, l, k))
                        >= One(Reaches(Unflag(p), l, k))
<1>1. PICK q \in Nat : q = Unflag(p) /\ q < Nil
  BY Zenon DEF FlagsAside
<1>2. /\ CutOfArc(q) \in [CutKinds -> Nat]
      /\ \A k \in CutKinds : \A l : CutOfArc(q)[k] >= One(Reaches(q, l, k))
  <2>1. q \in Int
    OBVIOUS
  <2> QED BY <1>1, <2>1, ArcCutIs, Zenon
<1>3. CASE IsFlagged(p)
  <2>1. SideCut(p, FALSE) = NoCut /\ SideCut(p, TRUE) = CutOfArc(q)
    BY <1>1, <1>3 DEF SideCut, IsTainted, IsFlagged
  <2>2. ASSUME NEW k \in CutKinds, NEW l
        PROVE  /\ SideCut(p, FALSE)[k] + SideCut(p, TRUE)[k] >= One(Reaches(q, l, k))
               /\ SideCut(p, TRUE)[k] + One(~IsFlagged(p) /\ Reaches(p, l, k))
                       >= One(Reaches(q, l, k))
    <3>1. PICK x : x = One(Reaches(q, l, k))
      OBVIOUS
    <3>2. PICK y : y = One(~IsFlagged(p) /\ Reaches(p, l, k))
      OBVIOUS
    <3>3. x \in {0, 1} /\ y \in {0, 1}
      BY <3>1, <3>2 DEF One
    <3>4. PICK a \in Nat : a = CutOfArc(q)[k] /\ a >= x
      BY <1>2, <3>1
    <3>5. SideCut(p, FALSE)[k] = 0 /\ SideCut(p, TRUE)[k] = a
      BY <2>1, <3>4, NoCutIs, Zenon
    <3>6. 0 + a >= x /\ a + y >= x
      BY <3>3, <3>4
    <3> QED BY <3>1, <3>2, <3>5, <3>6, Zenon
  <2> QED BY <1>1, <1>2, <2>1, <2>2, NoCutIs, Zenon
<1>4. CASE ~IsFlagged(p)
  <2>1. SideCut(p, FALSE) = CutOfArc(q) /\ SideCut(p, TRUE) = NoCut
    BY <1>1, <1>4 DEF SideCut, IsTainted, IsFlagged
  <2>2. q = p
    BY <1>1, <1>4 DEF Unflag, IsFlagged
  <2>3. ASSUME NEW k \in CutKinds, NEW l
        PROVE  /\ SideCut(p, FALSE)[k] + SideCut(p, TRUE)[k] >= One(Reaches(q, l, k))
               /\ SideCut(p, TRUE)[k] + One(~IsFlagged(p) /\ Reaches(p, l, k))
                       >= One(Reaches(q, l, k))
    <3>1. PICK x : x = One(Reaches(q, l, k))
      OBVIOUS
    <3>2. PICK y : y = One(~IsFlagged(p) /\ Reaches(p, l, k))
      OBVIOUS
    <3>3. x \in {0, 1} /\ y = x
      BY <1>4, <2>2, <3>1, <3>2 DEF One
    <3>4. PICK a \in Nat : a = CutOfArc(q)[k] /\ a >= x
      BY <1>2, <3>1
    <3>5. SideCut(p, FALSE)[k] = a /\ SideCut(p, TRUE)[k] = 0
      BY <2>1, <3>4, NoCutIs, Zenon
    <3>6. a + 0 >= x /\ 0 + y >= x
      BY <3>3, <3>4
    <3> QED BY <3>1, <3>2, <3>5, <3>6, Zenon
  <2> QED BY <1>1, <1>2, <2>1, <2>3, NoCutIs, Zenon
<1> QED BY <1>3, <1>4

LEMMA CutAddIs ==
    ASSUME NEW c \in [CutKinds -> Nat], NEW d \in [CutKinds -> Nat]
    PROVE  /\ CutAdd(c, d) \in [CutKinds -> Nat]
           /\ \A k \in CutKinds : CutAdd(c, d)[k] = c[k] + d[k]
BY DEF CutAdd

LEMMA CutsOfIs ==
    ASSUME NEW n, n.low \in Nat, n.high \in Nat, NEW low, NEW high,
           low = Unflag(n.low), high = Unflag(n.high), FlagsAside(low), FlagsAside(high)
    PROVE  /\ CutsOf(n, FALSE) \in [CutKinds -> Nat] /\ CutsOf(n, TRUE) \in [CutKinds -> Nat]
           /\ \A k \in CutKinds : \A l :
                /\ CutsOf(n, FALSE)[k] + CutsOf(n, TRUE)[k]
                        >= One(Reaches(low, l, k)) + One(Reaches(high, l, k))
                /\ CutsOf(n, TRUE)[k] + One(~IsFlagged(n.low) /\ Reaches(n.low, l, k))
                                      + One(~IsFlagged(n.high) /\ Reaches(n.high, l, k))
                        >= One(Reaches(low, l, k)) + One(Reaches(high, l, k))
<1>1. \A b : CutsOf(n, b) = CutAdd(SideCut(n.low, b), SideCut(n.high, b))
  BY Zenon DEF CutsOf, SideCut
<1>2. PICK c, d, e, f : /\ c = SideCut(n.low, FALSE) /\ d = SideCut(n.high, FALSE)
                        /\ e = SideCut(n.low, TRUE) /\ f = SideCut(n.high, TRUE)
  OBVIOUS
<1>3. /\ c \in [CutKinds -> Nat] /\ d \in [CutKinds -> Nat]
      /\ e \in [CutKinds -> Nat] /\ f \in [CutKinds -> Nat]
  BY <1>2, SideCutIs, Zenon
<1>4. /\ CutsOf(n, FALSE) = CutAdd(c, d) /\ CutsOf(n, TRUE) = CutAdd(e, f)
  BY <1>1, <1>2, Zenon
<1>5. /\ CutAdd(c, d) \in [CutKinds -> Nat] /\ CutAdd(e, f) \in [CutKinds -> Nat]
      /\ \A k \in CutKinds : CutAdd(c, d)[k] = c[k] + d[k] /\ CutAdd(e, f)[k] = e[k] + f[k]
  BY <1>3, CutAddIs, ZenonT(40)
<1>6. ASSUME NEW k \in CutKinds, NEW l
      PROVE  /\ CutsOf(n, FALSE)[k] + CutsOf(n, TRUE)[k]
                     >= One(Reaches(low, l, k)) + One(Reaches(high, l, k))
             /\ CutsOf(n, TRUE)[k] + One(~IsFlagged(n.low) /\ Reaches(n.low, l, k))
                                   + One(~IsFlagged(n.high) /\ Reaches(n.high, l, k))
                     >= One(Reaches(low, l, k)) + One(Reaches(high, l, k))
  <2>1. PICK x, y, u, v :
            /\ x = One(Reaches(low, l, k)) /\ y = One(Reaches(high, l, k))
            /\ u = One(~IsFlagged(n.low) /\ Reaches(n.low, l, k))
            /\ v = One(~IsFlagged(n.high) /\ Reaches(n.high, l, k))
    OBVIOUS
  <2>2. x \in {0, 1} /\ y \in {0, 1} /\ u \in {0, 1} /\ v \in {0, 1}
    BY <2>1 DEF One
  <2>3. c[k] + e[k] >= x /\ e[k] + u >= x
    BY <1>2, <2>1, SideCutIs, Zenon
  <2>4. d[k] + f[k] >= y /\ f[k] + v >= y
    BY <1>2, <2>1, SideCutIs, Zenon
  <2>5. c[k] \in Nat /\ d[k] \in Nat /\ e[k] \in Nat /\ f[k] \in Nat
    BY <1>3
  <2>6. CutsOf(n, FALSE)[k] = c[k] + d[k] /\ CutsOf(n, TRUE)[k] = e[k] + f[k]
    BY <1>4, <1>5, Zenon
  <2>7. (c[k] + d[k]) + (e[k] + f[k]) >= x + y /\ (e[k] + f[k]) + u + v >= x + y
    BY <2>2, <2>3, <2>4, <2>5
  <2> QED BY <2>1, <2>6, <2>7, Zenon
<1> QED BY <1>4, <1>5, <1>6, Zenon
(* The arcs in the queue and in the file of terminals are all counted.     *)
TerminalsIn(A, v) == {a \in A : IsTerminal(a.target) /\ Value(a.target) = v}
OthersIn(A) == {a \in A : ~IsTerminal(a.target)}

LEMMA ValueIs == \A p : Value(p) \in BOOLEAN
BY DEF Value

LEMMA CrossingIsCounted ==
    ASSUME IsFiniteSet(pq), IsFiniteSet(terminal),
           \A a \in pq \cup terminal : a.target \in Int /\ a.target < Nil,
           \A a \in terminal : IsTerminal(a.target) /\ ~IsNode(a.target)
    PROVE  /\ Crossing \in [CutKinds -> Nat]
           /\ \A k \in CutKinds : \A l : /\ Cardinality(Passing(pq \cup terminal, l, k)) \in Nat
                                     /\ Cardinality(Passing(pq \cup terminal, l, k)) <= Crossing[k]
<1>1. PICK O, Of, Ot, Uf, Ut :
          /\ O = OthersIn(pq) /\ Of = TerminalsIn(pq, FALSE) /\ Ot = TerminalsIn(pq, TRUE)
          /\ Uf = TerminalsIn(terminal, FALSE) /\ Ut = TerminalsIn(terminal, TRUE)
  OBVIOUS
<1>2. /\ Cardinality(pq) \in Nat /\ Cardinality(O) \in Nat
      /\ Cardinality(Of) \in Nat /\ Cardinality(Ot) \in Nat
      /\ Cardinality(O) + Cardinality(Of) + Cardinality(Ot) <= Cardinality(pq)
  <2>1. O \subseteq pq /\ Of \subseteq pq /\ Ot \subseteq pq
    BY <1>1 DEF OthersIn, TerminalsIn
  <2>2. O \cap Of = {} /\ (O \cup Of) \cap Ot = {}
    BY <1>1, Zenon DEF OthersIn, TerminalsIn
  <2> QED BY <2>1, <2>2, ThreeFit, Zenon
<1>3. /\ IsFiniteSet(O) /\ IsFiniteSet(Of) /\ IsFiniteSet(Ot) /\ IsFiniteSet(Uf) /\ IsFiniteSet(Ut)
      /\ Cardinality(Uf) \in Nat /\ Cardinality(Ut) \in Nat
  <2>1. O \subseteq pq /\ Of \subseteq pq /\ Ot \subseteq pq /\ Uf \subseteq terminal /\ Ut \subseteq terminal
    BY <1>1 DEF OthersIn, TerminalsIn
  <2> QED BY <2>1, PartsAreFewer, Zenon
<1>4. /\ TerminalsQueued(FALSE) = Cardinality(Of) /\ TerminalsQueued(TRUE) = Cardinality(Ot)
      /\ UnreadTerminals(FALSE) = Cardinality(Uf) /\ UnreadTerminals(TRUE) = Cardinality(Ut)
  <2>1. /\ {a \in terminal : Value(a.target) = FALSE} = Uf
        /\ {a \in terminal : Value(a.target) = TRUE} = Ut
    BY <1>1, Zenon DEF TerminalsIn
  <2> QED BY <1>1, <2>1, Zenon DEF TerminalsQueued, UnreadTerminals, TerminalsIn
<1>5. PICK i, f, t : /\ i = Cardinality(pq) - Cardinality(Of) - Cardinality(Ot)
                     /\ f = Cardinality(Of) + Cardinality(Uf)
                     /\ t = Cardinality(Ot) + Cardinality(Ut)
  OBVIOUS
<1>6. i \in Nat /\ f \in Nat /\ t \in Nat /\ Cardinality(O) <= i
  BY <1>2, <1>3, <1>5
<1>7. Crossing = Cut(i, f, t)
  BY <1>4, <1>5, Zenon DEF Crossing
<1>8. /\ Cut(i, f, t) \in [CutKinds -> Nat]
      /\ \A k \in CutKinds : Cut(i, f, t)[k] = i + OfKind(k, f, t)
  <2>1. i \in Nat /\ f \in Nat /\ t \in Nat
    BY <1>6
  <2>2. Cut(i, f, t) \in [CutKinds -> Nat]
    BY <2>1, CutIs, Zenon
  <2>3. ASSUME NEW k \in CutKinds PROVE Cut(i, f, t)[k] = i + OfKind(k, f, t)
    BY <2>1, CutOfKindIs, Zenon
  <2> QED BY <2>2, <2>3
<1>9. ASSUME NEW k \in CutKinds, NEW l
      PROVE  /\ Cardinality(Passing(pq \cup terminal, l, k)) \in Nat
             /\ Cardinality(Passing(pq \cup terminal, l, k)) <= Crossing[k]
  <2>1. PICK F : F = IF Includes(k, FALSE) THEN Of \cup Uf ELSE {}
    OBVIOUS
  <2>2. PICK T : T = IF Includes(k, TRUE) THEN Ot \cup Ut ELSE {}
    OBVIOUS
  <2>3. PICK x, y : /\ x = IF Includes(k, FALSE) THEN f ELSE 0
                    /\ y = IF Includes(k, TRUE) THEN t ELSE 0
    OBVIOUS
  <2>4. IsFiniteSet(F) /\ Cardinality(F) \in Nat /\ Cardinality(F) <= x /\ x \in Nat
    <3>1. CASE Includes(k, FALSE)
      <4>1. F = Of \cup Uf /\ x = f
        BY <2>1, <2>3, <3>1, Zenon
      <4>2. /\ IsFiniteSet(Of \cup Uf) /\ Cardinality(Of \cup Uf) \in Nat
            /\ Cardinality(Of \cup Uf) <= Cardinality(Of) + Cardinality(Uf)
        BY <1>3, UnionsAreWithin, Zenon
      <4> QED BY <1>5, <1>6, <4>1, <4>2, Zenon
    <3>2. CASE ~Includes(k, FALSE)
      <4>1. F = {} /\ x = 0
        BY <2>1, <2>3, <3>2, Zenon
      <4> QED BY <4>1, FS_EmptySet
    <3> QED BY <3>1, <3>2
  <2>5. IsFiniteSet(T) /\ Cardinality(T) \in Nat /\ Cardinality(T) <= y /\ y \in Nat
    <3>1. CASE Includes(k, TRUE)
      <4>1. T = Ot \cup Ut /\ y = t
        BY <2>2, <2>3, <3>1, Zenon
      <4>2. /\ IsFiniteSet(Ot \cup Ut) /\ Cardinality(Ot \cup Ut) \in Nat
            /\ Cardinality(Ot \cup Ut) <= Cardinality(Ot) + Cardinality(Ut)
        BY <1>3, UnionsAreWithin, Zenon
      <4> QED BY <1>5, <1>6, <4>1, <4>2, Zenon
    <3>2. CASE ~Includes(k, TRUE)
      <4>1. T = {} /\ y = 0
        BY <2>2, <2>3, <3>2, Zenon
      <4> QED BY <4>1, FS_EmptySet
    <3> QED BY <3>1, <3>2
  <2>6. Passing(pq \cup terminal, l, k) \subseteq (O \cup F) \cup T
    <3> SUFFICES ASSUME NEW a \in Passing(pq \cup terminal, l, k), a \notin O
                 PROVE  a \in F \/ a \in T
      OBVIOUS
    <3>1. a \in pq \cup terminal /\ Reaches(a.target, l, k)
      BY Zenon DEF Passing
    <3>2. IsTerminal(a.target)
      BY <1>1, <3>1, Zenon DEF OthersIn
    <3>3. ~IsNode(a.target)
      BY <3>1, <3>2, NodesAreNoTerminals, Zenon
    <3>4. Includes(k, Value(a.target))
      BY <3>1, <3>3, Zenon DEF Reaches
    <3>5. CASE Value(a.target)
      <4>1. Includes(k, TRUE) /\ Value(a.target) = TRUE
        BY <3>4, <3>5, ValueIs, KindOfArc, Zenon
      <4>2. a \in Ot \cup Ut
        BY <1>1, <3>1, <3>2, <4>1, Zenon DEF TerminalsIn
      <4> QED BY <2>2, <4>1, <4>2, Zenon
    <3>6. CASE ~Value(a.target)
      <4>1. Includes(k, FALSE) /\ Value(a.target) = FALSE
        BY <3>4, <3>6, ValueIs, KindOfArc, Zenon
      <4>2. a \in Of \cup Uf
        BY <1>1, <3>1, <3>2, <4>1, Zenon DEF TerminalsIn
      <4> QED BY <2>1, <4>1, <4>2, Zenon
    <3> QED BY <3>5, <3>6
  <2>7. PICK P : P = Passing(pq \cup terminal, l, k)
    OBVIOUS
  <2>8. P \subseteq (O \cup F) \cup T
    BY <2>6, <2>7, Zenon
  <2>9. /\ Cardinality(P) \in Nat
        /\ Cardinality(P) <= Cardinality(O) + Cardinality(F) + Cardinality(T)
    BY <1>3, <2>4, <2>5, <2>8, ThreeCover, Zenon
  <2>10. PICK z : z = Crossing[k] /\ z = i + (x + y)
    BY <1>7, <1>8, <2>3, Zenon DEF OfKind
  <2>11. Cardinality(P) <= i + (x + y)
    BY <1>2, <1>6, <2>4, <2>5, <2>9
  <2> QED BY <2>7, <2>9, <2>10, <2>11, Zenon
<1> QED BY <1>7, <1>8, <1>9, Zenon
-----------------------------------------------------------------------------
(* The invariant: the levels that are done                                 *)

(* The arcs held on to: of the output to come, and of nodes put together.  *)
Held ==
    (pq \cup terminal)
        \cup ((IF phase = "pull" /\ eHigh # NoArc THEN {eHigh} ELSE {})
        \cup (IF phase \in {"pull", "output"} THEN ArcsOf(grouping) ELSE {}))

(* Below a level of the output, what is written and what is held crosses.  *)
CutAt(N, A, l, k) == Cardinality(AcrossLevel(N, l, k)) + Cardinality(Passing(A, l, k))

AtALevel == phase \in {"pull", "output", "forward"}
IsSwept(l) == l \notin levels /\ (AtALevel => l # label)
Increment(k) == IF AtALevel THEN tainted[k] ELSE 0

WriterIsTyped ==
    /\ phase # "done" => w \in WriterType
    /\ local \in [CutKinds -> Nat] /\ tainted \in [CutKinds -> Nat]

HeldAreArcs ==
    /\ IsFiniteSet(Held)
    /\ \A a \in Held : /\ a = Arc(a.source, a.target)
                       /\ a.target \in Nat /\ a.target < Nil

(* Every level done is within the cut so far; the level being written is   *)
(* within the two cuts it will be replaced by.                             *)
CutsHold ==
    \A l \in InputLevels, k \in CutKinds :
        IsSwept(l) => CutAt(Out, Held, mapLevel[l], k) <= w.file.cut1[k] + Increment(k)

LabelCutHolds ==
    phase \in {"output", "forward"} =>
        \A k \in CutKinds :
            CutAt(Out, pq \cup terminal, mapLevel[label], k) <= local[k] + tainted[k]

(* The levels of the output that are in its level information.             *)
Finished == LevelsIn(Out) \ (IF phase = "output" THEN {mapLevel[label]} ELSE {})

CountsHold ==
    /\ LevelsMatch(w.file.levels, Out, Finished)
    /\ WidthIs(w.file.width, Out, Finished)
    /\ \A v \in BOOLEAN : w.file.terminals[v] = ArcsTo(Out, v)
    /\ \A k \in CutKinds : w.file.cut2[k] = CutMax
    /\ phase = "output" => Width(Out, mapLevel[label]) = MaxId - outId

(* Rule 2 maps to nodes of the level being written.                        *)
MappedAreHere ==
    AtALevel => \A x \in red2 : IsNode(x.new) /\ LevelOf(x.new) = mapLevel[label]

MetaInv ==
    /\ WriterIsTyped
    /\ Sweeping => HeldAreArcs /\ CutsHold /\ LabelCutHolds /\ CountsHold /\ MappedAreHere
    /\ phase = "close" => CountsAreExact(w.file) /\ CutsAreBounds(Fixup(w.file))
    /\ phase = "done" => CountsAreExact(w.file) /\ CutsAreBounds(w.file)

-----------------------------------------------------------------------------
(* Steps that leave the output                                             *)

LEMMA CutAtIs ==
    ASSUME NEW N, IsFiniteSet(N), NEW A, IsFiniteSet(A), NEW l, NEW k, NEW B,
           \A a \in B : ~IsFlagged(a.target) /\ Reaches(a.target, l, k) => a \in A
    PROVE  /\ CutAt(N, A, l, k) \in Nat /\ CutAt(N, B, l, k) \in Nat
           /\ CutAt(N, B, l, k) <= CutAt(N, A, l, k)
<1>1. PICK x : x = Cardinality(AcrossLevel(N, l, k))
  OBVIOUS
<1>2. x \in Nat
  BY <1>1, AcrossIs, Zenon
<1>3. PICK y, z : y = Cardinality(Passing(A, l, k)) /\ z = Cardinality(Passing(B, l, k))
  OBVIOUS
<1>4. y \in Nat /\ z \in Nat /\ z <= y
  BY <1>3, PassingIs, Zenon
<1>5. x + y \in Nat /\ x + z \in Nat /\ x + z <= x + y
  BY <1>2, <1>4
<1> QED BY <1>1, <1>3, <1>5, Zenon DEF CutAt

LEMMA OutIsFinite ==
    ASSUME CanonInv, Sweeping
    PROVE  HoldsDiagram(Out) /\ HoldsNodes(Out) /\ IsFiniteSet(Out)
BY DEF CanonInv, OutIsTidy, Tidy, PlainDiagram, HoldsDiagram, HoldsNodes

(* A level stays within its cut when no arc below it is new.               *)
LEMMA CutsStay ==
    ASSUME CanonInv, MetaInv, Sweeping, UNCHANGED <<input, mapLevel>>, Out' = Out,
           \A k \in CutKinds : w'.file.cut1[k] + Increment(k)' = w.file.cut1[k] + Increment(k),
           \A l \in InputLevels : IsSwept(l)' =>
               /\ IsSwept(l)
               /\ \A k \in CutKinds : \A a \in Held' :
                      ~IsFlagged(a.target) /\ Reaches(a.target, mapLevel[l], k) => a \in Held
    PROVE  CutsHold'
<1>1. InputLevels' = InputLevels /\ mapLevel' = mapLevel
  BY DEF InputLevels, Uids
<1>2. IsFiniteSet(Out) /\ IsFiniteSet(Held) /\ CutsHold
  BY OutIsFinite DEF MetaInv, HeldAreArcs
<1>3. ASSUME NEW l \in InputLevels, NEW k \in CutKinds, IsSwept(l)'
      PROVE  CutAt(Out, Held', mapLevel[l], k) <= w'.file.cut1[k] + Increment(k)'
  <2>1. PICK x, y : x = CutAt(Out, Held, mapLevel[l], k) /\ y = CutAt(Out, Held', mapLevel[l], k)
    OBVIOUS
  <2>2. PICK A, B, h : A = Held /\ B = Held' /\ h = mapLevel[l]
    OBVIOUS
  <2>3. \A a \in B : ~IsFlagged(a.target) /\ Reaches(a.target, h, k) => a \in A
    BY <1>3, <2>2, Zenon
  <2>4. x \in Nat /\ y \in Nat /\ y <= x
    BY <1>2, <2>1, <2>2, <2>3, CutAtIs, Zenon
  <2>5. PICK b : b = w.file.cut1[k] + Increment(k) /\ x <= b
    BY <1>2, <1>3, <2>1, Zenon DEF CutsHold
  <2>6. b \in Int
    <3>1. w.file.cut1[k] \in Nat /\ tainted[k] \in Nat
      BY DEF MetaInv, WriterIsTyped, WriterType, FileType, Sweeping
    <3>2. Increment(k) \in Nat
      BY <3>1 DEF Increment
    <3> QED BY <2>5, <3>1, <3>2
  <2>7. y <= b
    BY <2>4, <2>5, <2>6
  <2> QED BY <2>1, <2>5, <2>7, Zenon
<1> QED BY <1>1, <1>3 DEF CutsHold

LEMMA LabelCutStays ==
    ASSUME CanonInv, MetaInv, phase \in {"output", "forward"},
           UNCHANGED <<mapLevel, label, local, tainted>>, Out' = Out,
           \A k \in CutKinds : \A a \in (pq \cup terminal)' :
               ~IsFlagged(a.target) /\ Reaches(a.target, mapLevel[label], k) => a \in pq \cup terminal
    PROVE  LabelCutHolds'
<1>1. Sweeping
  BY DEF Sweeping
<1>2. IsFiniteSet(Out) /\ IsFiniteSet(Held) /\ LabelCutHolds
  BY <1>1, OutIsFinite DEF MetaInv, HeldAreArcs
<1>3. IsFiniteSet(pq \cup terminal)
  <2>1. pq \cup terminal \subseteq Held
    BY DEF Held
  <2> QED BY <1>2, <2>1, PartsAreFewer, Zenon
<1>4. ASSUME NEW k \in CutKinds
      PROVE  CutAt(Out, (pq \cup terminal)', mapLevel[label], k) <= local[k] + tainted[k]
  <2>1. PICK x, y : /\ x = CutAt(Out, pq \cup terminal, mapLevel[label], k)
                    /\ y = CutAt(Out, (pq \cup terminal)', mapLevel[label], k)
    OBVIOUS
  <2>2. PICK A, B, h : A = pq \cup terminal /\ B = (pq \cup terminal)' /\ h = mapLevel[label]
    OBVIOUS
  <2>3. \A a \in B : ~IsFlagged(a.target) /\ Reaches(a.target, h, k) => a \in A
    BY <2>2, Zenon
  <2>4. x \in Nat /\ y \in Nat /\ y <= x
    BY <1>2, <1>3, <2>1, <2>2, <2>3, CutAtIs, Zenon
  <2>5. PICK b : b = local[k] + tainted[k] /\ x <= b
    BY <1>2, <2>1, Zenon DEF LabelCutHolds
  <2>6. b \in Int
    BY <2>5 DEF MetaInv, WriterIsTyped
  <2>7. y <= b
    BY <2>4, <2>5, <2>6
  <2> QED BY <2>1, <2>5, <2>7, Zenon
<1> QED BY <1>4 DEF LabelCutHolds

LEMMA CountsStay ==
    ASSUME CountsHold, Out' = Out, Finished' = Finished, w' = w,
           phase' = "output" => Width(Out, mapLevel'[label']) = MaxId - outId'
    PROVE  CountsHold'
BY DEF CountsHold
LEMMA ArcsAreRecords ==
    ASSUME NEW S, NEW a \in ArcsOf(S)
    PROVE  a = Arc(a.source, a.target)
BY DEF ArcsOf, Arc

LEMMA ArcsOfFinite ==
    ASSUME NEW S, IsFiniteSet(S)
    PROVE  IsFiniteSet(ArcsOf(S))
<1>1. PICK f : f = [n \in S |-> Arc(n.uid, n.low)]
  OBVIOUS
<1>2. PICK g : g = [n \in S |-> Arc(n.uid + OutBit, n.high)]
  OBVIOUS
<1>3. PICK F, G : F = {Arc(n.uid, n.low) : n \in S} /\ G = {Arc(n.uid + OutBit, n.high) : n \in S}
  OBVIOUS
<1>4. f \in Surjection(S, F) /\ g \in Surjection(S, G)
  BY <1>1, <1>2, <1>3 DEF Surjection
<1>5. IsFiniteSet(F) /\ IsFiniteSet(G)
  BY <1>4, FS_Surjection, Zenon
<1>6. IsFiniteSet(F \cup G)
  BY <1>5, UnionsAreWithin, Zenon
<1> QED BY <1>3, <1>6, Zenon DEF ArcsOf

LEMMA TargetsOfTerminals ==
    ASSUME IsDiagram(input), NEW a \in ArcsOf(input), IsTerminal(a.target)
    PROVE  a.target \in Nat /\ a.target < Nil /\ ~IsNode(a.target)
<1>1. ~IsNode(a.target)
  BY ArcsOfDiagram DEF ArcIsProper
<1>2. \E v \in BOOLEAN : a.target = Terminal(v)
  <2>1. PICK n \in input : a.target \in {n.low, n.high}
    <3>1. PICK n \in input : a = Arc(n.uid, n.low) \/ a = Arc(n.uid + OutBit, n.high)
      BY ArcsAre
    <3> QED BY <3>1 DEF Arc
  <2>2. ASSUME a.target \in Uids PROVE FALSE
    <3>1. IsNode(a.target + 0)
      BY <2>2, UidsOfDiagram DEF UidsAreProper
    <3>2. a.target \in Nat
      BY <2>2, UidsOfDiagram DEF UidsAreProper
    <3> QED BY <1>1, <3>1, <3>2
  <2> QED BY <2>1, <2>2, NodesAreProper, Zenon
<1>3. PICK v \in BOOLEAN : a.target = Terminal(v)
  BY <1>2
<1>4. FlagsAside(Terminal(v))
  BY TerminalFlags, Zenon
<1> QED BY <1>1, <1>3, <1>4 DEF FlagsAside

LEMMA EmptyOutputIs ==
    LET x == Constructed(EmptyOutput)
    IN  /\ x \in WriterType /\ x.file.nodes = <<>> /\ x.file.levels = <<>> /\ x.file.width = 0
        /\ \A v \in BOOLEAN : x.file.terminals[v] = 0
        /\ \A k \in CutKinds : x.file.cut2[k] = CutMax
<1>1. CutMax \in Nat
  BY CutAssumption
<1>2. /\ EmptyOutput \in FileType /\ EmptyOutput.nodes = <<>> /\ EmptyOutput.levels = <<>>
      /\ EmptyOutput.width = 0
      /\ \A v \in BOOLEAN : EmptyOutput.terminals[v] = 0
      /\ \A k \in CutKinds : EmptyOutput.cut2[k] = CutMax
  <2>1. PICK e : e = EmptyFile
    OBVIOUS
  <2>2. /\ e \in FileType /\ e.nodes = <<>> /\ e.levels = <<>> /\ e.width = 0
        /\ e.terminals = [v \in BOOLEAN |-> 0] /\ e.cut2 = [k \in CutKinds |-> CutMax]
    BY <1>1, <2>1 DEF EmptyFile, FileType
  <2>3. PICK c \in [CutKinds -> Nat] : c = NoCut
    BY NoCutIs
  <2>4. PICK o : o = [e EXCEPT !.sorted = TRUE, !.indexable = TRUE, !.cut1 = c]
    OBVIOUS
  <2>5. /\ o \in FileType /\ o.nodes = e.nodes /\ o.levels = e.levels /\ o.width = e.width
        /\ o.terminals = e.terminals /\ o.cut2 = e.cut2
    BY <2>2, <2>4 DEF FileType
  <2>6. EmptyOutput = o
    BY <2>1, <2>3, <2>4, Zenon DEF EmptyOutput
  <2>7. /\ \A v \in BOOLEAN : o.terminals[v] = 0
        /\ \A k \in CutKinds : o.cut2[k] = CutMax
    BY <2>2, <2>5
  <2> QED BY <2>2, <2>5, <2>6, <2>7, Zenon
<1>3. PICK f \in FileType : f = EmptyOutput
  BY <1>2
<1>4. /\ Opened(f) \in WriterType /\ Opened(f).file = f
  <2>1. Nil \in Nat
    BY PointersAre
  <2>2. Dummy \in NodeRecord
    BY DummyIs
  <2> QED BY <2>1, <2>2 DEF Opened, WriterType
<1>5. PICK x \in WriterType : x = Opened(f) /\ x.file = f
  BY <1>4
<1>6. PICK b \in BOOLEAN : b = ~HasPushed(x)
  BY DEF HasPushed
<1>7. Constructed(f) = [x EXCEPT !.file.sorted = b, !.file.indexable = b]
  BY <1>5, <1>6, Zenon DEF Constructed
<1>8. PICK y : y = [x EXCEPT !.file.sorted = b, !.file.indexable = b]
  OBVIOUS
<1>9. /\ y \in WriterType /\ y.file.nodes = f.nodes /\ y.file.levels = f.levels
      /\ y.file.width = f.width /\ y.file.terminals = f.terminals /\ y.file.cut2 = f.cut2
  <2>1. PICK g : g = [x.file EXCEPT !.sorted = b, !.indexable = b]
    OBVIOUS
  <2>2. g \in FileType
    BY <1>5, <2>1 DEF WriterType, FileType
  <2>3. /\ g.nodes = f.nodes /\ g.levels = f.levels /\ g.width = f.width
        /\ g.terminals = f.terminals /\ g.cut2 = f.cut2
    BY <1>5, <2>1 DEF WriterType, FileType
  <2>4. y = [x EXCEPT !.file = g]
    BY <1>5, <1>8, <2>1 DEF WriterType, FileType
  <2>5. y \in WriterType /\ y.file = g
    BY <1>5, <2>2, <2>4 DEF WriterType
  <2> QED BY <2>3, <2>5
<1>10. Constructed(EmptyOutput) = y
  BY <1>3, <1>7, <1>8
<1>11. /\ f.nodes = <<>> /\ f.levels = <<>> /\ f.width = 0
       /\ \A v \in BOOLEAN : f.terminals[v] = 0
       /\ \A k \in CutKinds : f.cut2[k] = CutMax
  BY <1>2, <1>3
<1>12. /\ y \in WriterType /\ y.file.nodes = <<>> /\ y.file.levels = <<>> /\ y.file.width = 0
       /\ \A v \in BOOLEAN : y.file.terminals[v] = 0
       /\ \A k \in CutKinds : y.file.cut2[k] = CutMax
  BY <1>9, <1>11
<1> QED BY <1>10, <1>12

LEMMA InitMeta == ASSUME Init PROVE MetaInv
<1>1. /\ phase = "begin" /\ w = Constructed(EmptyOutput) /\ pq = {} /\ grouping = {}
      /\ local = NoCut /\ tainted = NoCut
      /\ levels = {LevelOf(n.uid) : n \in input}
      /\ terminal = {a \in ArcsOf(input) : IsTerminal(a.target)}
  BY DEF Init
<1>2. IsDiagram(input)
  BY InitInv DEF ReduceInv
<1>3. /\ w \in WriterType /\ w.file.nodes = <<>> /\ w.file.levels = <<>> /\ w.file.width = 0
      /\ \A v \in BOOLEAN : w.file.terminals[v] = 0
      /\ \A k \in CutKinds : w.file.cut2[k] = CutMax
  BY <1>1, EmptyOutputIs, Zenon
<1>4. Out = {} /\ Finished = {}
  BY <1>3, NothingIsOut DEF Finished, LevelsIn
<1>5. WriterIsTyped
  BY <1>1, <1>3, NoCutIs DEF WriterIsTyped
<1>6. Held = terminal
  BY <1>1 DEF Held
<1>7. HeldAreArcs
  <2>1. IsFiniteSet(terminal)
    <3>1. IsFiniteSet(input)
      BY <1>2, UidsOfDiagram DEF UidsAreProper
    <3>2. terminal \subseteq ArcsOf(input)
      BY <1>1
    <3> QED BY <3>1, <3>2, ArcsOfFinite, PartsAreFewer, Zenon
  <2>2. ASSUME NEW a \in terminal
        PROVE  a = Arc(a.source, a.target) /\ a.target \in Nat /\ a.target < Nil
    <3>1. a \in ArcsOf(input) /\ IsTerminal(a.target)
      BY <1>1
    <3> QED BY <1>2, <3>1, ArcsAreRecords, TargetsOfTerminals, Zenon
  <2> QED BY <1>6, <2>1, <2>2 DEF HeldAreArcs
<1>8. CutsHold
  BY <1>1 DEF CutsHold, IsSwept, InputLevels, Uids
<1>9. LabelCutHolds /\ MappedAreHere
  BY <1>1 DEF LabelCutHolds, MappedAreHere, AtALevel
<1>10. CountsHold
  <2>1. LevelsMatch(w.file.levels, Out, Finished) /\ WidthIs(w.file.width, Out, Finished)
    BY <1>3, <1>4 DEF LevelsMatch, WidthIs
  <2>2. \A v \in BOOLEAN : w.file.terminals[v] = ArcsTo(Out, v)
    BY <1>3, <1>4, ArcsOfNone, Zenon
  <2> QED BY <1>1, <1>3, <2>1, <2>2 DEF CountsHold
<1>11. phase # "close" /\ phase # "done"
  BY <1>1
<1> QED BY <1>5, <1>7, <1>8, <1>9, <1>10, <1>11 DEF MetaInv
LEMMA HeldShrink ==
    ASSUME HeldAreArcs, Held' \subseteq Held
    PROVE  HeldAreArcs'
<1>1. IsFiniteSet(Held')
  BY PartsAreFewer, Zenon DEF HeldAreArcs
<1> QED BY <1>1 DEF HeldAreArcs

LEMMA ArcsOfNoNodes == ArcsOf({}) = {}
BY DEF ArcsOf

LEMMA InSweep ==
    ASSUME MetaInv, Sweeping
    PROVE  WriterIsTyped /\ HeldAreArcs /\ CutsHold /\ LabelCutHolds /\ CountsHold /\ MappedAreHere
BY DEF MetaInv

LEMMA StillInSweep ==
    ASSUME WriterIsTyped', HeldAreArcs', CutsHold', LabelCutHolds', CountsHold', MappedAreHere', Sweeping'
    PROVE  MetaInv'
BY DEF MetaInv, Sweeping

(* Nothing is written, and the arcs held on to are the same or fewer.      *)
LEMMA NothingWritten ==
    ASSUME CanonInv, MetaInv, Sweeping, Sweeping', UNCHANGED <<input, mapLevel, w>>, Held' \subseteq Held,
           \A l \in InputLevels : IsSwept(l)' => IsSwept(l),
           \A k \in CutKinds : Increment(k)' = Increment(k),
           local' \in [CutKinds -> Nat], tainted' \in [CutKinds -> Nat], phase' # "done",
           LabelCutHolds', MappedAreHere', Finished' = Finished,
           phase' = "output" => Width(Out, mapLevel'[label']) = MaxId - outId'
    PROVE  MetaInv'
<1>1. Out' = Out
  BY DEF Out
<1>2. HeldAreArcs'
  BY InSweep, HeldShrink
<1>3. WriterIsTyped'
  BY InSweep DEF WriterIsTyped, Sweeping
<1>4. CutsHold'
  BY <1>1, CutsStay
<1>5. CountsHold'
  BY <1>1, InSweep, CountsStay
<1> QED BY <1>2, <1>3, <1>4, <1>5, StillInSweep

LEMMA BeginLevelMeta ==
    ASSUME ReduceInv, CanonInv, MetaInv, BeginLevel, UNCHANGED <<zdd, input, mapLevel>>
    PROVE  MetaInv'
<1>1. /\ phase = "begin" /\ phase' = "pull" /\ w' = w /\ pq' = pq /\ terminal' = terminal
      /\ eHigh' = NoArc /\ grouping' = {} /\ red2' = {} /\ local' = NoCut /\ tainted' = NoCut
      /\ levels' = levels \ {label'}
  BY DEF BeginLevel
<1>2. Sweeping /\ Sweeping' /\ phase' # "done" /\ phase' # "output"
  BY <1>1 DEF Sweeping
<1>3. Held' = Held
  <2>1. ArcsOf(grouping') = {}
    BY <1>1, ArcsOfNoNodes
  <2> QED BY <1>1, <2>1 DEF Held
<1>4. \A l \in InputLevels : IsSwept(l)' => IsSwept(l)
  BY <1>1 DEF IsSwept, AtALevel
<1>5. \A k \in CutKinds : Increment(k)' = Increment(k)
  <2>1. \A k \in CutKinds : Increment(k)' = 0 /\ Increment(k) = 0
    BY <1>1, NoCutIs DEF Increment, AtALevel
  <2> QED BY <2>1
<1>6. local' \in [CutKinds -> Nat] /\ tainted' \in [CutKinds -> Nat]
  BY <1>1, NoCutIs
<1>7. LabelCutHolds' /\ MappedAreHere' /\ Finished' = Finished
  BY <1>1 DEF LabelCutHolds, MappedAreHere, Finished, Out
<1> QED BY <1>1, <1>2, <1>3, <1>4, <1>5, <1>6, <1>7, NothingWritten

LEMMA NextIsHeld ==
    ASSUME ReduceInv, phase = "pull", NEW b \in ArcsOf(input), IsHere(b.source), TakeNextArc
    PROVE  /\ NextArc \in pq \cup terminal
           /\ pq' \subseteq pq /\ terminal' \subseteq terminal
<1>1. /\ TakesTerminal => NextArc \in terminal
      /\ ~TakesTerminal => NextArc \in pq
  BY NextIsLargest
<1> QED BY <1>1 DEF TakeNextArc

LEMMA PullHighMeta ==
    ASSUME ReduceInv, CanonInv, MetaInv, PullHigh, UNCHANGED <<zdd, input, mapLevel>>
    PROVE  MetaInv'
<1>1. /\ phase = "pull" /\ phase' = "pull" /\ eHigh = NoArc /\ MorePulls /\ eHigh' = NextArc
      /\ TakeNextArc
      /\ UNCHANGED <<levels, label, grouping, red2, outId, local, tainted, w>>
  BY DEF PullHigh
<1>2. Sweeping /\ Sweeping' /\ phase' # "done" /\ phase' # "output"
  BY <1>1 DEF Sweeping
<1>3. Held' \subseteq Held
  <2>1. NextArc \in pq \cup terminal /\ pq' \subseteq pq /\ terminal' \subseteq terminal
    BY <1>1, NoneIsHere, NextIsHeld
  <2> QED BY <1>1, <2>1 DEF Held
<1>4. \A l \in InputLevels : IsSwept(l)' => IsSwept(l)
  BY <1>1 DEF IsSwept, AtALevel
<1>5. \A k \in CutKinds : Increment(k)' = Increment(k)
  BY <1>1 DEF Increment, AtALevel
<1>6. local' \in [CutKinds -> Nat] /\ tainted' \in [CutKinds -> Nat]
  BY <1>1, <1>2, InSweep DEF WriterIsTyped
<1>7. LabelCutHolds' /\ Finished' = Finished
  BY <1>1 DEF LabelCutHolds, Finished, Out
<1>8. MappedAreHere'
  BY <1>1, <1>2, InSweep DEF MappedAreHere, AtALevel
<1> QED BY <1>1, <1>2, <1>3, <1>4, <1>5, <1>6, <1>7, <1>8, NothingWritten

LEMMA PullLowMeta ==
    ASSUME ReduceInv, CanonInv, MetaInv, PullLow, UNCHANGED <<zdd, input, mapLevel>>
    PROVE  MetaInv'
<1>1. /\ phase = "pull" /\ phase' = "pull" /\ eHigh # NoArc /\ eHigh' = NoArc
      /\ TakeNextArc
      /\ UNCHANGED <<levels, label, red2, outId, local, tainted, w>>
  BY DEF PullLow
<1>2. Sweeping /\ Sweeping' /\ phase' # "done" /\ phase' # "output"
  BY <1>1 DEF Sweeping
<1>3. PICK n : n = Node(Essential(NextArc.source), NextArc.target, eHigh.target)
  OBVIOUS
<1>4. grouping' \subseteq grouping \cup {n}
  BY <1>3 DEF PullLow
<1>5. PICK u \in UidsHere : /\ u \notin Got /\ eHigh.source = u + OutBit /\ NextArc.source = u
                            /\ \E a \in ArcsOf(input) : IsHere(a.source)
  BY <1>1, LowIs
<1>6. NextArc \in pq \cup terminal /\ pq' \subseteq pq /\ terminal' \subseteq terminal
  BY <1>1, <1>5, NextIsHeld
<1>7. NextArc \in Held /\ eHigh \in Held
  BY <1>1, <1>6 DEF Held
<1>8. Arc(n.uid, n.low) = NextArc /\ Arc(n.uid + OutBit, n.high) = eHigh
  <2>1. Essential(u) = u
    <3>1. Proper
      BY Setting DEF CanonInv
    <3> QED BY <3>1, UidsAre DEF UidsHere
  <2>2. n.uid = u /\ n.low = NextArc.target /\ n.high = eHigh.target
    BY <1>3, <1>5, <2>1 DEF Node
  <2>3. NextArc = Arc(NextArc.source, NextArc.target) /\ eHigh = Arc(eHigh.source, eHigh.target)
    BY <1>2, <1>7, InSweep DEF HeldAreArcs
  <2> QED BY <1>5, <2>2, <2>3
<1>9. Held' \subseteq Held
  <2>1. ArcsOf(grouping') \subseteq ArcsOf(grouping) \cup {NextArc, eHigh}
    BY <1>4, <1>8 DEF ArcsOf
  <2> QED BY <1>1, <1>6, <1>7, <2>1 DEF Held
<1>10. \A l \in InputLevels : IsSwept(l)' => IsSwept(l)
  BY <1>1 DEF IsSwept, AtALevel
<1>11. \A k \in CutKinds : Increment(k)' = Increment(k)
  BY <1>1 DEF Increment, AtALevel
<1>12. local' \in [CutKinds -> Nat] /\ tainted' \in [CutKinds -> Nat]
  BY <1>1, <1>2, InSweep DEF WriterIsTyped
<1>13. LabelCutHolds' /\ Finished' = Finished
  BY <1>1 DEF LabelCutHolds, Finished, Out
<1>14. MappedAreHere'
  BY <1>1, <1>2, InSweep DEF MappedAreHere, AtALevel
<1> QED BY <1>1, <1>2, <1>9, <1>10, <1>11, <1>12, <1>13, <1>14, NothingWritten

LEMMA NextMappingMeta ==
    ASSUME ReduceInv, CanonInv, MetaInv, NextMapping, UNCHANGED <<zdd, input, mapLevel>>
    PROVE  MetaInv'
<1>1. /\ phase = "forward" /\ phase' = "forward" /\ red2' \subseteq red2
      /\ UNCHANGED <<levels, terminal, pq, label, eHigh, grouping, outId, local, tainted, w>>
  BY DEF NextMapping
<1>2. Sweeping /\ Sweeping' /\ phase' # "done" /\ phase' # "output"
  BY <1>1 DEF Sweeping
<1>3. Held' \subseteq Held
  BY <1>1 DEF Held
<1>4. \A l \in InputLevels : IsSwept(l)' => IsSwept(l)
  BY <1>1 DEF IsSwept, AtALevel
<1>5. \A k \in CutKinds : Increment(k)' = Increment(k)
  BY <1>1 DEF Increment, AtALevel
<1>6. local' \in [CutKinds -> Nat] /\ tainted' \in [CutKinds -> Nat]
  BY <1>1, <1>2, InSweep DEF WriterIsTyped
<1>7. LabelCutHolds' /\ Finished' = Finished
  BY <1>1, <1>2, InSweep DEF LabelCutHolds, Finished, Out
<1>8. MappedAreHere'
  BY <1>1, <1>2, InSweep DEF MappedAreHere, AtALevel
<1> QED BY <1>1, <1>2, <1>3, <1>4, <1>5, <1>6, <1>7, <1>8, NothingWritten
-----------------------------------------------------------------------------
(* The level that is written                                               *)

LEMMA HereInOutput ==
    ASSUME ReduceInv, CanonInv, AtALevel
    PROVE  /\ mapLevel[label] \in Level /\ mapLevel[label] \in Nat
           /\ \A l \in InputLevels : IsSwept(l) => /\ mapLevel[l] \in Nat
                                                   /\ mapLevel[label] < mapLevel[l]
<1>1. Proper /\ Renames(mapLevel)
      /\ \A m \in input : LevelOf(m.uid) \in DOMAIN mapLevel
  BY Setting DEF CanonInv
<1>2. /\ label \in InputLevels /\ \A l \in InputLevels : l \in levels <=> l < label
      /\ InputLevels \subseteq Level /\ Level \subseteq Nat
  BY <1>1, LevelsAreNumbers DEF ReduceInv, LevelsAreLeft, AtALevel
<1>3. \A l \in InputLevels : l \in DOMAIN mapLevel
  BY <1>1 DEF InputLevels, Uids
<1>4. \A l \in InputLevels : mapLevel[l] \in Level /\ mapLevel[l] \in Nat
  BY <1>1, <1>2, <1>3 DEF Renames
<1>5. ASSUME NEW l \in InputLevels, IsSwept(l)
      PROVE  mapLevel[label] < mapLevel[l]
  <2>1. ~(l < label) /\ l # label
    BY <1>2, <1>5 DEF IsSwept, AtALevel
  <2>2. l \in Nat /\ label \in Nat
    BY <1>2
  <2>3. label < l
    BY <2>1, <2>2
  <2> QED BY <1>2, <1>3, <2>3 DEF CanonInv, TheJob
<1> QED BY <1>2, <1>4, <1>5

LEMMA AtHandIsFinite ==
    ASSUME HeldAreArcs
    PROVE  /\ IsFiniteSet(pq) /\ IsFiniteSet(terminal) /\ IsFiniteSet(pq \cup terminal)
           /\ \A a \in pq \cup terminal : a.target \in Nat /\ a.target < Nil
<1>1. pq \cup terminal \subseteq Held
  BY DEF Held
<1>2. IsFiniteSet(pq \cup terminal)
  BY <1>1, PartsAreFewer, Zenon DEF HeldAreArcs
<1>3. pq \subseteq pq \cup terminal /\ terminal \subseteq pq \cup terminal
  OBVIOUS
<1>4. IsFiniteSet(pq) /\ IsFiniteSet(terminal)
  BY <1>2, <1>3, PartsAreFewer, Zenon
<1> QED BY <1>1, <1>2, <1>4 DEF HeldAreArcs

LEMMA EndPullsMeta ==
    ASSUME ReduceInv, CanonInv, MetaInv, EndPulls, UNCHANGED <<zdd, input, mapLevel>>
    PROVE  MetaInv'
<1>1. /\ phase = "pull" /\ phase' = "output" /\ eHigh = NoArc /\ local' = Crossing
      /\ UNCHANGED <<levels, terminal, pq, label, eHigh, grouping, red2, outId, tainted, w>>
  BY DEF EndPulls
<1>2. Sweeping /\ Sweeping' /\ phase' # "done"
  BY <1>1 DEF Sweeping
<1>3. Held' = Held
  BY <1>1 DEF Held
<1>4. /\ \A l \in InputLevels : IsSwept(l)' => IsSwept(l)
      /\ \A k \in CutKinds : Increment(k)' = Increment(k)
  BY <1>1 DEF IsSwept, AtALevel, Increment
<1>5. /\ IsFiniteSet(pq) /\ IsFiniteSet(terminal)
      /\ \A a \in pq \cup terminal : a.target \in Int /\ a.target < Nil
  BY <1>2, InSweep, AtHandIsFinite
<1>6. \A a \in terminal : IsTerminal(a.target) /\ ~IsNode(a.target)
  BY TargetsOfTerminals DEF ReduceInv, TerminalsAreUnread
<1>7. /\ Crossing \in [CutKinds -> Nat]
      /\ \A k \in CutKinds : \A l : /\ Cardinality(Passing(pq \cup terminal, l, k)) \in Nat
                                /\ Cardinality(Passing(pq \cup terminal, l, k)) <= Crossing[k]
  BY <1>5, <1>6, CrossingIsCounted, Zenon
<1>8. local' \in [CutKinds -> Nat] /\ tainted' \in [CutKinds -> Nat] /\ tainted \in [CutKinds -> Nat]
  BY <1>1, <1>2, <1>7, InSweep DEF WriterIsTyped
<1>9. mapLevel[label] \in Nat /\ \A n \in Out : LevelOf(n.uid) \in Nat /\ mapLevel[label] < LevelOf(n.uid)
  BY <1>1, OutputIsBelow DEF Level
<1>10. mapLevel[label] \notin LevelsIn(Out)
  BY <1>9 DEF LevelsIn
<1>11. LabelCutHolds'
  <2>1. ASSUME NEW k \in CutKinds
        PROVE  CutAt(Out, pq \cup terminal, mapLevel[label], k) <= local'[k] + tainted'[k]
    <3>1. PICK h : h = mapLevel[label]
      OBVIOUS
    <3>2. AcrossLevel(Out, h, k) = {}
      <4>1. UpTo(Out, h) = {}
        BY <1>9, <3>1 DEF UpTo
      <4> QED BY <4>1 DEF AcrossLevel, SidesIn
    <3>3. Cardinality(AcrossLevel(Out, h, k)) = 0
      BY <3>2, FS_EmptySet, Zenon
    <3>4. PICK y, c, t : /\ y = Cardinality(Passing(pq \cup terminal, h, k))
                         /\ c = local'[k] /\ t = tainted'[k]
      OBVIOUS
    <3>5. y \in Nat /\ y <= c
      BY <1>1, <1>7, <3>4, Zenon
    <3>6. c \in Nat /\ t \in Nat
      BY <1>8, <3>4
    <3>7. 0 + y <= c + t
      BY <3>5, <3>6
    <3> QED BY <3>1, <3>3, <3>4, <3>7, Zenon DEF CutAt
  <2>2. Out' = Out /\ mapLevel' = mapLevel
    BY <1>1 DEF Out
  <2> QED BY <1>1, <2>1, <2>2 DEF LabelCutHolds
<1>12. Finished' = Finished
  BY <1>1, <1>10 DEF Finished, Out
<1>13. Width(Out, mapLevel'[label']) = MaxId - outId'
  <2>1. Width(Out, mapLevel[label]) = 0
    BY <1>10, WidthsOfAbsent, Zenon
  <2>2. outId = MaxId
    BY <1>1, <1>2 DEF CanonInv, AtStart
  <2> QED BY <1>1, <2>1, <2>2, DiagramAssumption
<1>14. MappedAreHere'
  BY <1>1, <1>2, InSweep DEF MappedAreHere, AtALevel
<1> QED BY <1>1, <1>2, <1>3, <1>4, <1>8, <1>11, <1>12, <1>13, <1>14, NothingWritten

LEMMA ForwardArcMeta ==
    ASSUME ReduceInv, CanonInv, MetaInv, ForwardArc, UNCHANGED <<zdd, input, mapLevel>>
    PROVE  MetaInv'
<1>1. /\ phase = "forward" /\ phase' = "forward" /\ red1 \cup red2 # {} /\ Forwards
      /\ UNCHANGED <<levels, terminal, label, eHigh, grouping, red1, red2, outId, local, tainted, w>>
  BY DEF ForwardArc, levelVars
<1>2. Sweeping /\ Sweeping' /\ phase' # "done" /\ phase' # "output" /\ Out' = Out
  BY <1>1 DEF Sweeping, Out
<1>3. PICK t : t = (IF IsRed1 THEN Flag(Mapped.new) ELSE Mapped.new)
  OBVIOUS
<1>4. PICK c : c = Arc(PeekInternal.source, t)
  OBVIOUS
<1>5. pq' = pq \cup {c}
  BY <1>3, <1>4 DEF ForwardArc
<1>6. Held' = Held \cup {c}
  BY <1>1, <1>5 DEF Held
<1>7. FlagsAside(Mapped.new)
  <2>1. Mapped \in red1 \cup red2
    BY <1>1, InStep
  <2>2. Stands(zdd, mapLevel, input, Out, Mapped.new, Mapped.old)
    BY <1>1, <1>2, <2>1 DEF CanonInv, MappingsStand
  <2>3. Mapped.new \in PointersAt(Out, 0) /\ PlainDiagram(Out)
    BY <1>2, <2>2 DEF Stands, CanonInv, OutIsTidy, Tidy
  <2> QED BY <2>3, PlainPointers
<1>8. t \in Nat /\ t < Nil /\ c.target = t /\ c = Arc(c.source, c.target)
  BY <1>3, <1>4, <1>7 DEF FlagsAside, Arc
<1>9. IsFlagged(t) \/ (IsNode(t) /\ LevelOf(t) = mapLevel[label])
  <2>1. CASE IsRed1
    <3>1. PICK q \in Nat : q = Mapped.new /\ q = q - (q % 2)
      BY <1>7 DEF FlagsAside, Unflag
    <3>2. Flag(q) = q + 1 /\ (q + 1) % 2 = 1
      BY <3>1 DEF Flag
    <3> QED BY <1>3, <2>1, <3>1, <3>2, Zenon DEF IsFlagged
  <2>2. CASE ~IsRed1
    <3>1. Mapped \in red2
      BY <1>1, <2>2, InStep DEF IsRed1
    <3> QED BY <1>1, <1>2, <1>3, <2>2, <3>1, InSweep DEF MappedAreHere, AtALevel
  <2> QED BY <2>1, <2>2
<1>10. HeldAreArcs'
  <2>1. IsFiniteSet(Held \cup {c})
    BY <1>2, InSweep, FS_AddElement DEF HeldAreArcs
  <2> QED BY <1>2, <1>6, <1>8, <2>1, InSweep DEF HeldAreArcs
<1>11. AtALevel
  BY <1>1 DEF AtALevel
<1>12. ASSUME NEW h, h \in Nat, mapLevel[label] <= h, NEW k, ~IsFlagged(t), Reaches(t, h, k)
       PROVE  FALSE
  <2>1. IsNode(t) /\ h < LevelOf(t) /\ LevelOf(t) = mapLevel[label]
    BY <1>9, <1>12, Zenon DEF Reaches
  <2>2. PICK e \in Nat : e = mapLevel[label]
    BY <1>11, HereInOutput
  <2> QED BY <1>12, <2>1, <2>2
<1>13. CutsHold'
  <2>1. \A l \in InputLevels : IsSwept(l)' => IsSwept(l)
    BY <1>1 DEF IsSwept, AtALevel
  <2>2. \A k \in CutKinds : w'.file.cut1[k] + Increment(k)' = w.file.cut1[k] + Increment(k)
    BY <1>1 DEF Increment, AtALevel
  <2>3. ASSUME NEW l \in InputLevels, IsSwept(l), NEW k \in CutKinds, NEW a \in Held',
               ~IsFlagged(a.target), Reaches(a.target, mapLevel[l], k)
        PROVE  a \in Held
    <3>1. mapLevel[l] \in Nat /\ mapLevel[label] \in Nat /\ mapLevel[label] < mapLevel[l]
      BY <1>11, <2>3, HereInOutput
    <3>2. PICK h \in Nat : h = mapLevel[l] /\ mapLevel[label] <= h
      BY <3>1
    <3>3. a # c
      BY <1>8, <1>12, <2>3, <3>2, Zenon
    <3> QED BY <1>6, <3>3
  <2> QED BY <1>2, <2>1, <2>2, <2>3, CutsStay
<1>14. LabelCutHolds'
  <2>1. ASSUME NEW k \in CutKinds, NEW a \in (pq \cup terminal)',
               ~IsFlagged(a.target), Reaches(a.target, mapLevel[label], k)
        PROVE  a \in pq \cup terminal
    <3>1. PICK h \in Nat : h = mapLevel[label] /\ mapLevel[label] <= h
      BY <1>11, HereInOutput
    <3>2. a # c
      BY <1>8, <1>12, <2>1, <3>1, Zenon
    <3> QED BY <1>1, <1>5, <3>2
  <2> QED BY <1>1, <1>2, <2>1, LabelCutStays
<1>15. CountsHold'
  <2>1. Finished' = Finished
    BY <1>1, <1>2 DEF Finished
  <2> QED BY <1>1, <1>2, <2>1, InSweep, CountsStay
<1>16. WriterIsTyped' /\ MappedAreHere'
  BY <1>1, <1>2, InSweep DEF WriterIsTyped, MappedAreHere, AtALevel
<1> QED BY <1>2, <1>10, <1>13, <1>14, <1>15, <1>16, StillInSweep

LEMMA OutputSameMeta ==
    ASSUME ReduceInv, CanonInv, MetaInv, phase = "output",
           NEW n, NEW m, NEW low, NEW high, Taken(n, m, low, high), MappedTo(n, outNode'.uid),
           OutputSame(n)
    PROVE  MetaInv'
<1>1. /\ UNCHANGED <<input, mapLevel, levels, terminal, pq, phase, label, eHigh>>
      /\ grouping' = grouping \ {n} /\ red2' = red2 \cup {[old |-> n.uid, new |-> outNode.uid]}
      /\ UNCHANGED <<outNode, outId, w, local, tainted>>
  BY DEF OutputSame, MappedTo
<1>2. Sweeping /\ Sweeping' /\ phase' # "done" /\ Out' = Out
  BY <1>1 DEF Sweeping, Out
<1>3. Held' \subseteq Held
  <2>1. ArcsOf(grouping') \subseteq ArcsOf(grouping)
    BY <1>1 DEF ArcsOf
  <2> QED BY <1>1, <2>1 DEF Held
<1>4. \A l \in InputLevels : IsSwept(l)' => IsSwept(l)
  BY <1>1 DEF IsSwept, AtALevel
<1>5. \A k \in CutKinds : Increment(k)' = Increment(k)
  BY <1>1 DEF Increment, AtALevel
<1>6. local' \in [CutKinds -> Nat] /\ tainted' \in [CutKinds -> Nat]
  BY <1>1, <1>2, InSweep DEF WriterIsTyped
<1>7. LabelCutHolds' /\ Finished' = Finished
  BY <1>1, <1>2, InSweep DEF LabelCutHolds, Finished
<1>8. Width(Out, mapLevel'[label']) = MaxId - outId'
  BY <1>1, <1>2, InSweep DEF CountsHold
<1>9. mapLevel[label] \in Nat /\ outId \in 0 .. MaxId /\ MaxId \in Nat
  <2>1. n \in grouping /\ mapLevel[label] \in Level
    BY DEF Taken
  <2>2. outId \in 0 .. MaxId
    BY <2>1, OneLessIsLeft
  <2>3. Level \subseteq Nat
    BY DEF Level
  <2> QED BY <2>1, <2>2, <2>3, DiagramAssumption
<1>10. outNode.uid = Uid(mapLevel[label], outId + 1) /\ outId < MaxId
  <2>1. Numbering
    BY <1>2 DEF CanonInv
  <2>2. outId # MaxId
    <3> SUFFICES ASSUME outId = MaxId PROVE FALSE
      OBVIOUS
    <3>1. outNode.low = Nil
      BY <2>1 DEF Numbering, NoNode, Node
    <3>2. outNode.low = low /\ FlagsAside(low)
      BY DEF OutputSame, SameChildren, Taken
    <3>3. PICK x : x = Nil
      OBVIOUS
    <3>4. low \in Nat /\ low < x
      BY <3>2, <3>3 DEF FlagsAside
    <3>5. low = x
      BY <3>1, <3>2, <3>3, Zenon
    <3> QED BY <3>4, <3>5
  <2> QED BY <1>9, <2>1, <2>2 DEF Numbering
<1>11. IsNode(outNode.uid) /\ LevelOf(outNode.uid) = mapLevel[label]
  <2>1. outId + 1 \in 0 .. MaxId
    BY <1>9, <1>10
  <2>2. mapLevel[label] \in Level
    BY DEF Taken
  <2> QED BY <1>9, <1>10, <2>1, <2>2, UidIs, PointersAre
<1>12. MappedAreHere'
  BY <1>1, <1>2, <1>11, InSweep DEF MappedAreHere, AtALevel
<1> QED BY <1>1, <1>2, <1>3, <1>4, <1>5, <1>6, <1>7, <1>8, <1>12, NothingWritten

LEMMA PushesKeepCuts ==
    ASSUME NEW x \in WriterType
    PROVE  /\ \A n \in NodeRecord : UnsafePushNode(x, n).file.cut1 = x.file.cut1
           /\ \A l, k : UnsafePushLevel(x, l, k).file.cut1 = x.file.cut1
BY DEF WriterType, FileType, UnsafePushNode, UnsafePushLevel

(* A step that writes a node o for the gathered node n.                    *)
IsWritten(n, o, low, high) ==
    /\ phase = "output" /\ phase' = "output"
    /\ n \in grouping /\ n.uid \in Uids /\ LevelOf(n.uid) = label
    /\ low = Unflag(n.low) /\ high = Unflag(n.high) /\ FlagsAside(low) /\ FlagsAside(high)
    /\ IsInner(o) /\ o \notin Out /\ o.low = low /\ o.high = high
    /\ LevelOf(o.uid) = mapLevel[label]
    /\ w' = UnsafePushNode(w, o) /\ Out' = Out \cup {o}
    /\ local' = CutAdd(local, CutsOf(n, FALSE)) /\ tainted' = CutAdd(tainted, CutsOf(n, TRUE))
    /\ outId \in 0 .. MaxId /\ outId' = outId - 1
    /\ grouping' = grouping \ {n} /\ red2' = red2 \cup {[old |-> n.uid, new |-> o.uid]}
    /\ UNCHANGED <<input, mapLevel, levels, terminal, pq, label, eHigh>>

LEMMA NewIsWritten ==
    ASSUME ReduceInv, CanonInv, phase = "output",
           NEW n, NEW m, NEW low, NEW high, Taken(n, m, low, high), MappedTo(n, outNode'.uid),
           OutputNew(n)
    PROVE  \E o : IsWritten(n, o, low, high)
<1>1. PICK o : o = Node(Uid(mapLevel[label], outId), low, high)
  OBVIOUS
<1>2. /\ n \in grouping /\ m \in input /\ n.uid = m.uid /\ LevelOf(m.uid) = label
      /\ Unflag(n.low) = low /\ Unflag(n.high) = high /\ FlagsAside(low) /\ FlagsAside(high)
  BY DEF Taken
<1>3. /\ ~SameChildren(n) /\ outNode' = o /\ outId' = outId - 1 /\ w' = UnsafePushNode(w, o)
      /\ local' = CutAdd(local, CutsOf(n, FALSE)) /\ tainted' = CutAdd(tainted, CutsOf(n, TRUE))
  BY <1>1, <1>2 DEF OutputNew
<1>4. /\ IsInner(o) /\ o.low = low /\ o.high = high /\ LevelOf(o.uid) = mapLevel[label]
      /\ \A k \in Out : o.uid < k.uid
  BY <1>1, <1>3, NewNodeIs
<1>5. o \in NodeRecord /\ o.uid \in Nat
  BY <1>4 DEF IsInner, NodeRecord
<1>6. o \notin Out
  BY <1>4, <1>5
<1>7. outId \in 0 .. MaxId
  BY <1>2, OneLessIsLeft
<1>8. Out' = Out \cup {o}
  <2>1. HasFields(w)
    BY DEF CanonInv, TheWriter
  <2>2. w'.file.nodes = Append(w.file.nodes, o) /\ w.file.nodes \in Seq(NodeRecord)
    BY <1>3, <1>5, <2>1, PushedNode DEF HasFields
  <2>3. PICK f, g : f = w.file /\ g = w'.file
    OBVIOUS
  <2>4. f.nodes \in Seq(NodeRecord) /\ g.nodes = Append(f.nodes, o)
    BY <2>2, <2>3
  <2>5. NodesOf(g) = NodesOf(f) \cup {o}
    BY <1>5, <2>4, AppendedNode
  <2> QED BY <2>3, <2>5 DEF Out
<1>9. /\ grouping' = grouping \ {n} /\ red2' = red2 \cup {[old |-> n.uid, new |-> o.uid]}
      /\ UNCHANGED <<input, mapLevel, levels, terminal, pq, phase, label, eHigh>>
  BY <1>3 DEF MappedTo
<1>10. n.uid \in Uids
  BY <1>2 DEF Uids
<1> QED BY <1>2, <1>3, <1>4, <1>6, <1>7, <1>8, <1>9, <1>10 DEF IsWritten

LEMMA ArcsOfNode ==
    ASSUME NEW S, NEW n \in S
    PROVE  /\ Arc(n.uid, n.low) \in ArcsOf(S) /\ Arc(n.uid + OutBit, n.high) \in ArcsOf(S)
           /\ ArcsOf(S \ {n}) \subseteq ArcsOf(S)
BY DEF ArcsOf

(* The arcs of the node written are held no more.                          *)
LEMMA WrittenHeld ==
    ASSUME ReduceInv, CanonInv, MetaInv, NEW n, NEW o, NEW low, NEW high, IsWritten(n, o, low, high)
    PROVE  /\ n.low \in Nat /\ n.high \in Nat
           /\ Held' \subseteq Held
           /\ \A a \in {Arc(n.uid, n.low), Arc(n.uid + OutBit, n.high)} : a \in Held /\ a \notin Held'
           /\ Arc(n.uid, n.low) # Arc(n.uid + OutBit, n.high)
<1> DEFINE here == {Arc(n.uid, n.low), Arc(n.uid + OutBit, n.high)}
<1>1. /\ phase = "output" /\ phase' = "output" /\ n \in grouping /\ grouping' = grouping \ {n}
      /\ UNCHANGED <<terminal, pq>> /\ n.uid \in Uids /\ LevelOf(n.uid) = label
  BY DEF IsWritten
<1>2. Sweeping
  BY <1>1 DEF Sweeping
<1>3. /\ Held = (pq \cup terminal) \cup ArcsOf(grouping)
      /\ Held' = (pq \cup terminal) \cup ArcsOf(grouping \ {n})
  BY <1>1 DEF Held
<1>4. Held' \subseteq Held /\ \A a \in here : a \in Held
  BY <1>1, <1>3, ArcsOfNode
<1>5. n.low \in Nat /\ n.high \in Nat
  <2>1. \A a \in here : a.target \in Nat
    BY <1>2, <1>4, InSweep DEF HeldAreArcs
  <2> QED BY <2>1 DEF Arc
<1>6. Proper /\ UidsAreProper
  BY Setting DEF CanonInv, Proper
<1>7. \A u \in Uids, x \in {0, OutBit} : LevelOf(u + x) = LevelOf(u) /\ Essential(u + x) = u /\ u + 0 = u
  BY <1>6 DEF UidsAreProper
<1>8. \A a \in here : LevelOf(a.source) = label /\ Essential(a.source) = n.uid
  <2>1. LevelOf(n.uid + 0) = label /\ Essential(n.uid + 0) = n.uid /\ n.uid + 0 = n.uid
        /\ LevelOf(n.uid + OutBit) = label /\ Essential(n.uid + OutBit) = n.uid
    BY <1>1, <1>7
  <2> QED BY <2>1 DEF Arc
<1>9. \A a \in pq \cup terminal : a \notin here
  <2>1. \A a \in pq \cup terminal : LevelOf(a.source) \in levels
    <3>1. \A s : IsPending(s) => LevelOf(s) \in levels
      BY <1>1 DEF IsPending
    <3> QED BY <3>1, AtHandIsPending
  <2>2. label \notin levels
    BY <1>1, <1>6, LevelsAreNumbers DEF ReduceInv
  <2> QED BY <1>8, <2>1, <2>2
<1>10. \A a \in ArcsOf(grouping \ {n}) : a \notin here
  <2> SUFFICES ASSUME NEW a \in ArcsOf(grouping \ {n}), a \in here PROVE FALSE
    OBVIOUS
  <2>1. PICK c \in grouping \ {n} : a = Arc(c.uid, c.low) \/ a = Arc(c.uid + OutBit, c.high)
    BY DEF ArcsOf
  <2>2. c.uid \in Uids
    BY <1>1, GatheredIs DEF Uids
  <2>3. Essential(a.source) = c.uid
    <3>1. Essential(c.uid + 0) = c.uid /\ c.uid + 0 = c.uid /\ Essential(c.uid + OutBit) = c.uid
      BY <1>7, <2>2
    <3>2. a.source = c.uid \/ a.source = c.uid + OutBit
      BY <2>1 DEF Arc
    <3> QED BY <3>1, <3>2
  <2>4. c.uid = n.uid
    BY <1>8, <2>3
  <2>5. IsGathered
    BY <1>2 DEF CanonInv
  <2> QED BY <1>1, <2>1, <2>4, <2>5 DEF IsGathered
<1>11. Arc(n.uid, n.low) # Arc(n.uid + OutBit, n.high)
  <2>1. n.uid \in Nat
    BY <1>1, <1>6 DEF UidsAreProper
  <2>2. n.uid # n.uid + OutBit
    BY <2>1 DEF OutBit
  <2> QED BY <2>2 DEF Arc
<1> QED BY <1>3, <1>4, <1>5, <1>9, <1>10, <1>11

LEMMA PassingShrinks ==
    ASSUME NEW A, IsFiniteSet(A), NEW B, B \subseteq A, NEW a \in A \ B, NEW c \in A \ B, a # c,
           NEW l, NEW k
    PROVE  /\ Cardinality(Passing(A, l, k)) \in Nat /\ Cardinality(Passing(B, l, k)) \in Nat
           /\ Cardinality(Passing(B, l, k))
                  + One(~IsFlagged(a.target) /\ Reaches(a.target, l, k))
                  + One(~IsFlagged(c.target) /\ Reaches(c.target, l, k))
                <= Cardinality(Passing(A, l, k))
<1>1. PICK p \in {0, 1} : /\ p = One(~IsFlagged(a.target) /\ Reaches(a.target, l, k))
                          /\ p = 1 => ~IsFlagged(a.target) /\ Reaches(a.target, l, k)
  BY DEF One
<1>2. PICK q \in {0, 1} : /\ q = One(~IsFlagged(c.target) /\ Reaches(c.target, l, k))
                          /\ q = 1 => ~IsFlagged(c.target) /\ Reaches(c.target, l, k)
  BY DEF One
<1>3. PICK X, Y : X = {z \in {a} : p = 1} /\ Y = {z \in {c} : q = 1}
  OBVIOUS
<1>4. Cardinality(X) = p /\ Cardinality(Y) = q
  BY <1>3, OneOrNone, Zenon
<1>5. PICK S, T : S = Passing(A, l, k) /\ T = Passing(B, l, k)
  OBVIOUS
<1>6. IsFiniteSet(S)
  BY <1>5, PassingIs, Zenon
<1>7. T \subseteq S /\ X \subseteq S /\ Y \subseteq S
  BY <1>1, <1>2, <1>3, <1>5 DEF Passing
<1>8. T \cap X = {} /\ (T \cup X) \cap Y = {}
  BY <1>3, <1>5 DEF Passing
<1>9. /\ Cardinality(S) \in Nat /\ Cardinality(T) \in Nat
      /\ Cardinality(T) + Cardinality(X) + Cardinality(Y) <= Cardinality(S)
  BY <1>6, <1>7, <1>8, ThreeFit, Zenon
<1> QED BY <1>1, <1>2, <1>4, <1>5, <1>9, Zenon

(* What a node written adds to a cut is taken from the arcs held on to, or *)
(* added to the cuts.                                                      *)
LEMMA WrittenCuts ==
    ASSUME ReduceInv, CanonInv, MetaInv, NEW n, NEW o, NEW low, NEW high, IsWritten(n, o, low, high)
    PROVE  /\ local' \in [CutKinds -> Nat] /\ tainted' \in [CutKinds -> Nat]
           /\ CutsHold' /\ LabelCutHolds'
<1>1. /\ phase = "output" /\ phase' = "output" /\ Out' = Out \cup {o} /\ o.low = low /\ o.high = high
      /\ low = Unflag(n.low) /\ high = Unflag(n.high) /\ FlagsAside(low) /\ FlagsAside(high)
      /\ UNCHANGED <<input, mapLevel, levels, terminal, pq, label>>
      /\ local' = CutAdd(local, CutsOf(n, FALSE)) /\ tainted' = CutAdd(tainted, CutsOf(n, TRUE))
      /\ IsInner(o) /\ w' = UnsafePushNode(w, o)
  BY DEF IsWritten
<1>2. Sweeping /\ IsFiniteSet(Out) /\ CutsHold /\ LabelCutHolds /\ HeldAreArcs
      /\ w \in WriterType /\ local \in [CutKinds -> Nat] /\ tainted \in [CutKinds -> Nat]
  BY <1>1, InSweep, OutIsFinite DEF Sweeping, WriterIsTyped
<1>3. /\ n.low \in Nat /\ n.high \in Nat /\ Held' \subseteq Held
      /\ \A a \in {Arc(n.uid, n.low), Arc(n.uid + OutBit, n.high)} : a \in Held /\ a \notin Held'
      /\ Arc(n.uid, n.low) # Arc(n.uid + OutBit, n.high)
  BY WrittenHeld
<1>4. PICK F \in [CutKinds -> Nat], T \in [CutKinds -> Nat] :
        /\ F = CutsOf(n, FALSE) /\ T = CutsOf(n, TRUE)
        /\ \A k \in CutKinds : \A l :
             /\ F[k] + T[k] >= One(Reaches(low, l, k)) + One(Reaches(high, l, k))
             /\ T[k] + One(~IsFlagged(n.low) /\ Reaches(n.low, l, k))
                     + One(~IsFlagged(n.high) /\ Reaches(n.high, l, k))
                   >= One(Reaches(low, l, k)) + One(Reaches(high, l, k))
  BY <1>1, <1>3, CutsOfIs
<1>5. /\ local' \in [CutKinds -> Nat] /\ \A k \in CutKinds : local'[k] = local[k] + F[k]
      /\ tainted' \in [CutKinds -> Nat] /\ \A k \in CutKinds : tainted'[k] = tainted[k] + T[k]
  <2>1. /\ CutAdd(local, F) \in [CutKinds -> Nat]
        /\ \A k \in CutKinds : CutAdd(local, F)[k] = local[k] + F[k]
    BY <1>2, CutAddIs
  <2>2. /\ CutAdd(tainted, T) \in [CutKinds -> Nat]
        /\ \A k \in CutKinds : CutAdd(tainted, T)[k] = tainted[k] + T[k]
    BY <1>2, CutAddIs
  <2>3. local' = CutAdd(local, F) /\ tainted' = CutAdd(tainted, T)
    BY <1>1, <1>4
  <2> QED BY <2>1, <2>2, <2>3
<1>6. w'.file.cut1 = w.file.cut1
  BY <1>1, <1>2, PushesKeepCuts DEF IsInner
<1>7. ASSUME NEW l, NEW k \in CutKinds
      PROVE  \E X, Y, r, s \in Nat :
                /\ X = Cardinality(AcrossLevel(Out, l, k)) /\ Y = Cardinality(AcrossLevel(Out', l, k))
                /\ r = One(Reaches(low, l, k)) /\ s = One(Reaches(high, l, k))
                /\ Y <= X + r + s
  <2>1. PICK r, s \in {0, 1} : r = One(Reaches(low, l, k)) /\ s = One(Reaches(high, l, k))
    BY DEF One
  <2>2. PICK X, Y \in Nat :
            /\ X = Cardinality(AcrossLevel(Out, l, k)) /\ Y = Cardinality(AcrossLevel(Out', l, k))
            /\ Y <= X + r + s
    BY <1>1, <1>2, <2>1, AcrossGrows, Zenon
  <2>3. r \in Nat /\ s \in Nat
    OBVIOUS
  <2> QED BY <2>1, <2>2, <2>3, Zenon
<1>8. CutsHold'
  <2>1. ASSUME NEW l \in InputLevels, NEW k \in CutKinds, IsSwept(l)
        PROVE  CutAt(Out', Held', mapLevel[l], k) <= w.file.cut1[k] + tainted'[k]
    <3>1. PICK h : h = mapLevel[l]
      OBVIOUS
    <3>2. PICK X, Y, r, s \in Nat :
                /\ X = Cardinality(AcrossLevel(Out, h, k)) /\ Y = Cardinality(AcrossLevel(Out', h, k))
                /\ r = One(Reaches(low, h, k)) /\ s = One(Reaches(high, h, k))
                /\ Y <= X + r + s
      BY <1>7, Zenon
    <3>3. PICK f, g \in {0, 1} : /\ f = One(~IsFlagged(n.low) /\ Reaches(n.low, h, k))
                                 /\ g = One(~IsFlagged(n.high) /\ Reaches(n.high, h, k))
      BY DEF One
    <3>4. PICK t \in Nat : t = T[k] /\ t + f + g >= r + s
      <4>1. PICK t \in Nat : t = T[k]
        BY <1>4
      <4>2. t + f + g >= r + s
        BY <1>4, <3>2, <3>3, <4>1, Zenon
      <4> QED BY <4>1, <4>2
    <3>5. PICK a, b : a = Arc(n.uid, n.low) /\ b = Arc(n.uid + OutBit, n.high)
      OBVIOUS
    <3>6. PICK A, B : A = Held /\ B = Held' /\ B \subseteq A /\ a \in A \ B /\ b \in A \ B /\ a # b
                      /\ IsFiniteSet(A)
      BY <1>2, <1>3, <3>5 DEF HeldAreArcs
    <3>7. PICK P, P0 \in Nat :
            /\ P = Cardinality(Passing(A, h, k)) /\ P0 = Cardinality(Passing(B, h, k))
            /\ P0 + f + g <= P
      <4>1. a.target = n.low /\ b.target = n.high
        BY <3>5 DEF Arc
      <4>2. /\ f = One(~IsFlagged(a.target) /\ Reaches(a.target, h, k))
            /\ g = One(~IsFlagged(b.target) /\ Reaches(b.target, h, k))
        BY <3>3, <4>1, Zenon
      <4>3. PICK P, P0 : P = Cardinality(Passing(A, h, k)) /\ P0 = Cardinality(Passing(B, h, k))
        OBVIOUS
      <4>4. P \in Nat /\ P0 \in Nat /\ P0 + f + g <= P
        BY <3>6, <4>2, <4>3, PassingShrinks, Zenon
      <4> QED BY <4>3, <4>4
    <3>8. PICK c, d \in Nat : c = w.file.cut1[k] /\ d = tainted[k]
      BY <1>2 DEF WriterType, FileType
    <3>9. X + P <= c + d
      <4>1. Increment(k) = tainted[k]
        BY <1>1 DEF Increment, AtALevel
      <4>2. CutAt(Out, Held, mapLevel[l], k) <= w.file.cut1[k] + Increment(k)
        BY <1>2, <2>1, Zenon DEF CutsHold
      <4> QED BY <3>1, <3>2, <3>6, <3>7, <3>8, <4>1, <4>2, Zenon DEF CutAt
    <3>10. Y + P0 <= c + (d + t)
      BY <3>2, <3>3, <3>4, <3>7, <3>8, <3>9
    <3>11. tainted'[k] = d + t
      BY <1>5, <3>4, <3>8
    <3> QED BY <3>1, <3>2, <3>6, <3>7, <3>8, <3>10, <3>11, Zenon DEF CutAt
  <2>2. InputLevels' = InputLevels /\ mapLevel' = mapLevel
    BY <1>1 DEF InputLevels, Uids
  <2>3. \A l \in InputLevels : IsSwept(l)' => IsSwept(l)
    BY <1>1 DEF IsSwept, AtALevel
  <2>4. \A k \in CutKinds : Increment(k)' = tainted'[k]
    BY <1>1 DEF Increment, AtALevel
  <2> QED BY <1>6, <2>1, <2>2, <2>3, <2>4 DEF CutsHold
<1>9. LabelCutHolds'
  <2>1. ASSUME NEW k \in CutKinds
        PROVE  CutAt(Out', pq \cup terminal, mapLevel[label], k) <= local'[k] + tainted'[k]
    <3>1. PICK h : h = mapLevel[label]
      OBVIOUS
    <3>2. PICK X, Y, r, s \in Nat :
                /\ X = Cardinality(AcrossLevel(Out, h, k)) /\ Y = Cardinality(AcrossLevel(Out', h, k))
                /\ r = One(Reaches(low, h, k)) /\ s = One(Reaches(high, h, k))
                /\ Y <= X + r + s
      BY <1>7, Zenon
    <3>3. PICK f, t \in Nat : f = F[k] /\ t = T[k]
      BY <1>4
    <3>4. f + t >= r + s
      BY <1>4, <3>2, <3>3, Zenon
    <3>5. PICK c, d \in Nat : c = local[k] /\ d = tainted[k]
      BY <1>2
    <3>6. PICK P \in Nat : P = Cardinality(Passing(pq \cup terminal, h, k))
      <4>1. IsFiniteSet(pq \cup terminal)
        BY <1>2, AtHandIsFinite
      <4> QED BY <4>1, PassingIs, Zenon
    <3>7. X + P <= c + d
      BY <1>1, <1>2, <3>1, <3>2, <3>5, <3>6, Zenon DEF LabelCutHolds, CutAt
    <3>8. Y + P <= (c + f) + (d + t)
      BY <3>2, <3>3, <3>4, <3>5, <3>6, <3>7
    <3>9. local'[k] = c + f /\ tainted'[k] = d + t
      BY <1>5, <3>3, <3>5
    <3> QED BY <3>1, <3>2, <3>6, <3>8, <3>9, Zenon DEF CutAt
  <2> QED BY <1>1, <2>1 DEF LabelCutHolds
<1> QED BY <1>5, <1>8, <1>9

LEMMA WrittenCounts ==
    ASSUME ReduceInv, CanonInv, MetaInv, NEW n, NEW o, NEW low, NEW high, IsWritten(n, o, low, high)
    PROVE  CountsHold'
<1>1. /\ phase = "output" /\ phase' = "output" /\ Out' = Out \cup {o}
      /\ UNCHANGED <<mapLevel, label>> /\ LevelOf(o.uid) = mapLevel[label]
      /\ IsInner(o) /\ o \notin Out /\ o \in NodeRecord /\ w' = UnsafePushNode(w, o)
      /\ outId \in 0 .. MaxId /\ outId' = outId - 1
  BY DEF IsWritten, IsInner
<1>2. Sweeping /\ IsFiniteSet(Out) /\ HoldsNodes(Out) /\ CountsHold /\ w \in WriterType
  BY <1>1, InSweep, OutIsFinite DEF Sweeping, WriterIsTyped
<1>3. PICK h : h = mapLevel[label]
  OBVIOUS
<1>4. /\ Width(Out', h) = Width(Out, h) + 1
      /\ \A l : l # h => Width(Out', l) = Width(Out, l)
      /\ LevelsIn(Out') = LevelsIn(Out) \cup {h}
  <2>1. PICK N, M : N = Out /\ M = N \cup {o}
    OBVIOUS
  <2>2. HoldsNodes(N) /\ IsInner(o) /\ o \notin N /\ LevelOf(o.uid) = h
    BY <1>1, <1>2, <1>3, <2>1
  <2>3. /\ Width(M, h) = Width(N, h) + 1
        /\ \A l : l # h => Width(M, l) = Width(N, l)
        /\ LevelsIn(M) = LevelsIn(N) \cup {h}
    <3>1. PICK g : g = LevelOf(o.uid)
      OBVIOUS
    <3>2. /\ Width(M, g) = Width(N, g) + 1
          /\ \A l : l # g => Width(M, l) = Width(N, l)
          /\ LevelsIn(M) = LevelsIn(N) \cup {g}
      BY <2>1, <2>2, <3>1, WidthsGrow
    <3> QED BY <2>2, <3>1, <3>2
  <2>4. Out' = M
    BY <1>1, <2>1
  <2> QED BY <2>1, <2>3, <2>4, Zenon
<1>5. PICK H : H = LevelsIn(Out) \ {h}
  OBVIOUS
<1>6. Finished = H /\ Finished' = H
  <2>1. LevelsIn(Out)' = LevelsIn(Out')
    OBVIOUS
  <2> QED BY <1>1, <1>3, <1>4, <1>5, <2>1 DEF Finished
<1>7. /\ w'.file.levels = w.file.levels /\ w'.file.width = w.file.width
      /\ \A v \in BOOLEAN : w'.file.terminals[v] = w.file.terminals[v] + TerminalsOf(o, v)
      /\ w'.file.cut2 = w.file.cut2
  BY <1>1, <1>2, UnsafePushNodeIs
<1>8. LevelsMatch(w'.file.levels, Out', H) /\ WidthIs(w'.file.width, Out', H)
  <2>1. \A l \in H : Width(Out', l) = Width(Out, l)
    BY <1>4, <1>5
  <2>2. LevelsMatch(w.file.levels, Out, H) /\ WidthIs(w.file.width, Out, H)
    BY <1>2, <1>6 DEF CountsHold
  <2> QED BY <1>7, <2>1, <2>2, AccountStands, Zenon
<1>9. \A v \in BOOLEAN : w'.file.terminals[v] = ArcsTo(Out', v)
  <2> SUFFICES ASSUME NEW v \in BOOLEAN PROVE w'.file.terminals[v] = ArcsTo(Out', v)
    OBVIOUS
  <2>1. ArcsTo(Out', v) = ArcsTo(Out, v) + TerminalsOf(o, v)
    BY <1>1, <1>2, ArcsOfOneMore
  <2> QED BY <1>2, <1>7, <2>1 DEF CountsHold
<1>10. Width(Out', h) = MaxId - outId'
  <2>1. Width(Out, h) = MaxId - outId
    BY <1>1, <1>2, <1>3 DEF CountsHold
  <2> QED BY <1>1, <1>4, <2>1, DiagramAssumption
<1>11. \A k \in CutKinds : w'.file.cut2[k] = CutMax
  BY <1>2, <1>7 DEF CountsHold
<1> QED BY <1>1, <1>3, <1>6, <1>8, <1>9, <1>10, <1>11 DEF CountsHold

LEMMA OutputNewMeta ==
    ASSUME ReduceInv, CanonInv, MetaInv, NEW n, NEW o, NEW low, NEW high, IsWritten(n, o, low, high)
    PROVE  MetaInv'
<1>1. /\ phase = "output" /\ phase' = "output" /\ UNCHANGED <<mapLevel, label>>
      /\ IsInner(o) /\ o \in NodeRecord /\ LevelOf(o.uid) = mapLevel[label]
      /\ w' = UnsafePushNode(w, o) /\ red2' = red2 \cup {[old |-> n.uid, new |-> o.uid]}
  BY DEF IsWritten, IsInner
<1>2. Sweeping /\ Sweeping' /\ w \in WriterType /\ HeldAreArcs /\ MappedAreHere
  BY <1>1, InSweep DEF Sweeping, WriterIsTyped
<1>3. /\ local' \in [CutKinds -> Nat] /\ tainted' \in [CutKinds -> Nat]
      /\ CutsHold' /\ LabelCutHolds' /\ CountsHold'
  BY WrittenCuts, WrittenCounts
<1>4. w' \in WriterType
  BY <1>1, <1>2, UnsafePushNodeIs
<1>5. HeldAreArcs'
  <2>1. Held' \subseteq Held
    BY WrittenHeld
  <2> QED BY <1>2, <2>1, HeldShrink
<1>6. MappedAreHere'
  <2>1. IsNode(o.uid)
    BY <1>1, InnerIs
  <2> QED BY <1>1, <1>2, <2>1 DEF MappedAreHere, AtALevel
<1>7. WriterIsTyped'
  BY <1>3, <1>4 DEF WriterIsTyped
<1> QED BY <1>2, <1>3, <1>5, <1>6, <1>7, StillInSweep

LEMMA OutputMeta ==
    ASSUME ReduceInv, CanonInv, MetaInv, Output, UNCHANGED <<zdd, input, mapLevel>>
    PROVE  MetaInv'
<1>1. phase = "output"
  BY OutputTakes
<1>2. PICK n, m, low, high : /\ Taken(n, m, low, high) /\ MappedTo(n, outNode'.uid)
                             /\ OutputNew(n) \/ OutputSame(n)
  BY OutputTakes
<1>3. CASE OutputNew(n)
  BY <1>1, <1>2, <1>3, NewIsWritten, OutputNewMeta
<1>4. CASE OutputSame(n)
  BY <1>1, <1>2, <1>4, OutputSameMeta
<1> QED BY <1>2, <1>3, <1>4

(* Writer y is x with level l, of width k, committed.                      *)
AddsLevel(y, x, l, k) ==
    /\ y \in WriterType /\ y.file.nodes = x.file.nodes /\ y.file.terminals = x.file.terminals
    /\ y.file.cut2 = x.file.cut2
    /\ y.file.levels = Append(x.file.levels, [level |-> l, width |-> k])
    /\ y.file.width = Bigger(x.file.width, k)

(* When the level is committed, it is above those committed before.        *)
LEMMA LevelPushed ==
    ASSUME NEW x \in WriterType, NEW l \in Nat, NEW k \in Nat, NEW y, y = UnsafePushLevel(x, l, k)
    PROVE  AddsLevel(y, x, l, k)
BY UnsafePushLevelIs, Zenon DEF AddsLevel

LEMMA LevelIsCommitted ==
    ASSUME ReduceInv, CanonInv, MetaInv, EndOutput
    PROVE  /\ w' \in WriterType /\ Out' = Out
           /\ w'.file.cut1 = w.file.cut1 /\ w'.file.cut2 = w.file.cut2
           /\ w'.file.terminals = w.file.terminals
           /\ LevelsMatch(w'.file.levels, Out, LevelsIn(Out))
           /\ WidthIs(w'.file.width, Out, LevelsIn(Out))
<1>1. /\ phase = "output" /\ phase' = "forward"
      /\ w' = IF outId < MaxId THEN UnsafePushLevel(w, mapLevel[label], MaxId - outId) ELSE w
  BY DEF EndOutput
<1>2. Sweeping /\ HoldsNodes(Out) /\ CountsHold /\ w \in WriterType /\ Numbering
  BY <1>1, InSweep, OutIsFinite DEF Sweeping, WriterIsTyped, CanonInv
<1>3. PICK h \in Nat : h = mapLevel[label]
  BY <1>1, HereInOutput DEF AtALevel
<1>4. MaxId \in Nat /\ outId \in -1 .. MaxId
  BY <1>1, <1>2, DiagramAssumption DEF Numbering
<1>5. PICK H : H = LevelsIn(Out) \ {h}
  OBVIOUS
<1>6. /\ LevelsMatch(w.file.levels, Out, H) /\ WidthIs(w.file.width, Out, H)
      /\ Width(Out, h) = MaxId - outId
  BY <1>1, <1>2, <1>3, <1>5 DEF CountsHold, Finished
<1>7. CASE outId < MaxId
  <2>1. /\ outNode \in Out /\ outNode.uid = Uid(h, outId + 1)
        /\ \A k \in Out : k = outNode \/ k.uid > outNode.uid
    BY <1>1, <1>2, <1>3, <1>7 DEF Numbering
  <2>2. LevelOf(outNode.uid) = h
    <3>1. outId + 1 \in 0 .. MaxId
      BY <1>4, <1>7
    <3> QED BY <1>3, <2>1, <3>1, UidIs
  <2>3. \A k \in Out : LevelOf(k.uid) \in Nat /\ h <= LevelOf(k.uid)
    <3> SUFFICES ASSUME NEW k \in Out PROVE LevelOf(k.uid) \in Nat /\ h <= LevelOf(k.uid)
      OBVIOUS
    <3>1. IsInner(k) /\ IsInner(outNode)
      BY <1>2, <2>1 DEF HoldsNodes
    <3>2. LevelOf(k.uid) \in Nat /\ k.uid \in Nat /\ outNode.uid \in Nat
      BY <1>2, <2>1, NodesHaveLevels
    <3>3. CASE k = outNode
      BY <1>3, <2>2, <3>2, <3>3
    <3>4. CASE k.uid > outNode.uid
      BY <2>2, <3>1, <3>2, <3>4, SmallerIsAbove
    <3> QED BY <2>1, <3>3, <3>4
  <2>4. H \in SUBSET Nat /\ \A k \in H : h < k
    BY <1>3, <1>5, <2>3 DEF LevelsIn
  <2>5. H \cup {h} = LevelsIn(Out)
    BY <1>5, <2>1, <2>2 DEF LevelsIn
  <2>6. PICK x : x = Width(Out, h)
    OBVIOUS
  <2>7. /\ LevelsMatch(Append(w.file.levels, [level |-> h, width |-> x]), Out, LevelsIn(Out))
        /\ WidthIs(Bigger(w.file.width, x), Out, LevelsIn(Out))
    <3>1. \A s : LevelsMatch(s, Out, H) =>
            LevelsMatch(Append(s, [level |-> h, width |-> Width(Out, h)]), Out, H \cup {h})
      BY <1>2, <1>3, <1>6, <2>4, AccountGrows, Zenon
    <3>2. \A z : WidthIs(z, Out, H) => WidthIs(Bigger(z, Width(Out, h)), Out, H \cup {h})
      BY <1>2, <1>3, <1>6, <2>4, AccountGrows, Zenon
    <3> QED BY <1>6, <2>5, <2>6, <3>1, <3>2, Zenon
  <2>8. x \in Nat /\ w' = UnsafePushLevel(w, h, x)
    BY <1>1, <1>3, <1>4, <1>6, <1>7, <2>6
  <2>9. /\ w' \in WriterType /\ w'.file.nodes = w.file.nodes
        /\ w'.file.terminals = w.file.terminals /\ w'.file.cut2 = w.file.cut2
        /\ w'.file.levels = Append(w.file.levels, [level |-> h, width |-> x])
        /\ w'.file.width = Bigger(w.file.width, x)
    <3>1. h \in Nat /\ w \in WriterType
      BY <1>2, <1>3
    <3>2. AddsLevel(w', w, h, x)
      BY <2>8, <3>1, LevelPushed, Zenon
    <3> QED BY <3>2, Zenon DEF AddsLevel
  <2>10. w'.file.cut1 = w.file.cut1
    BY <1>2, <2>8, PushesKeepCuts
  <2>11. Out' = Out
    BY <2>9 DEF Out, NodesOf
  <2> QED BY <2>7, <2>9, <2>10, <2>11
<1>8. CASE ~(outId < MaxId)
  <2>1. outId = MaxId
    BY <1>4, <1>8
  <2>2. \A k \in Out : h < LevelOf(k.uid)
    BY <1>1, <1>2, <1>3, <2>1 DEF Numbering
  <2>3. h \notin LevelsIn(Out)
    BY <1>3, <2>2 DEF LevelsIn
  <2>4. H = LevelsIn(Out)
    BY <1>5, <2>3
  <2>5. w' = w
    BY <1>1, <1>8
  <2> QED BY <1>2, <1>6, <2>4, <2>5 DEF Out
<1> QED BY <1>7, <1>8

LEMMA EndOutputMeta ==
    ASSUME ReduceInv, CanonInv, MetaInv, EndOutput, UNCHANGED <<zdd, input, mapLevel>>
    PROVE  MetaInv'
<1>1. /\ phase = "output" /\ phase' = "forward"
      /\ UNCHANGED <<levels, terminal, pq, label, grouping, red2, local, tainted>>
  BY DEF EndOutput, levelVars
<1>2. Sweeping /\ Sweeping' /\ phase' # "done"
  BY <1>1 DEF Sweeping
<1>3. /\ w' \in WriterType /\ Out' = Out
      /\ w'.file.cut1 = w.file.cut1 /\ w'.file.cut2 = w.file.cut2
      /\ w'.file.terminals = w.file.terminals
      /\ LevelsMatch(w'.file.levels, Out, LevelsIn(Out))
      /\ WidthIs(w'.file.width, Out, LevelsIn(Out))
  BY LevelIsCommitted
<1>4. HeldAreArcs'
  <2>1. Held' \subseteq Held
    BY <1>1 DEF Held
  <2> QED BY <1>2, <2>1, InSweep, HeldShrink
<1>5. CutsHold'
  <2>1. Held' \subseteq Held
    BY <1>1 DEF Held
  <2>2. \A l \in InputLevels : IsSwept(l)' => IsSwept(l)
    BY <1>1 DEF IsSwept, AtALevel
  <2>3. \A k \in CutKinds : w'.file.cut1[k] + Increment(k)' = w.file.cut1[k] + Increment(k)
    BY <1>1, <1>3 DEF Increment, AtALevel
  <2> QED BY <1>2, <1>3, <2>1, <2>2, <2>3, CutsStay
<1>6. LabelCutHolds'
  BY <1>1, <1>3, LabelCutStays
<1>7. CountsHold'
  <2>1. Finished' = LevelsIn(Out)
    BY <1>1, <1>3 DEF Finished, LevelsIn
  <2> QED BY <1>1, <1>2, <1>3, <2>1, InSweep DEF CountsHold
<1>8. WriterIsTyped' /\ MappedAreHere'
  BY <1>1, <1>2, <1>3, InSweep DEF WriterIsTyped, MappedAreHere, AtALevel
<1> QED BY <1>2, <1>4, <1>5, <1>6, <1>7, <1>8, StillInSweep
-----------------------------------------------------------------------------
(* The end of a level                                                      *)

SameButCuts(y, x) ==
    /\ y \in WriterType /\ y.open = x.open /\ y.latest = x.latest
    /\ y.file.nodes = x.file.nodes /\ y.file.levels = x.file.levels
    /\ y.file.width = x.file.width /\ y.file.terminals = x.file.terminals
    /\ y.file.cut2 = x.file.cut2

LEMMA CutReplaced ==
    ASSUME NEW x \in WriterType, NEW c \in [CutKinds -> Nat]
    PROVE  LET y == [x EXCEPT !.file.cut1 = c]
           IN  SameButCuts(y, x) /\ y.file.cut1 = c
BY DEF WriterType, FileType, SameButCuts

LEMMA CutsAreRaised ==
    ASSUME w \in WriterType, local \in [CutKinds -> Nat], tainted \in [CutKinds -> Nat]
    PROVE  /\ SameButCuts(WithCuts, w)
           /\ \A k \in CutKinds :
                WithCuts.file.cut1[k] = Bigger(w.file.cut1[k], local[k]) + tainted[k]
<1>1. PICK x : x = w
  OBVIOUS
<1>2. PICK c : c = [k \in CutKinds |-> Bigger(x.file.cut1[k], local[k])]
  OBVIOUS
<1>3. c \in [CutKinds -> Nat] /\ \A k \in CutKinds : c[k] = Bigger(x.file.cut1[k], local[k])
  <2>1. \A k \in CutKinds : x.file.cut1[k] \in Nat /\ local[k] \in Nat
    BY <1>1 DEF WriterType, FileType
  <2>2. \A k \in CutKinds : Bigger(x.file.cut1[k], local[k]) \in Nat
    BY <2>1, BiggerIs
  <2> QED BY <1>2, <2>2
<1>4. PICK y : y = [x EXCEPT !.file.cut1 = c]
  OBVIOUS
<1>5. SameButCuts(y, x) /\ y.file.cut1 = c
  BY <1>1, <1>3, <1>4, CutReplaced
<1>6. y = MaxOneLevelCut(w, local)
  BY <1>1, <1>2, <1>4 DEF MaxOneLevelCut
<1>7. PICK d : d = [k \in CutKinds |-> y.file.cut1[k] + tainted[k]]
  OBVIOUS
<1>8. d \in [CutKinds -> Nat] /\ \A k \in CutKinds : d[k] = c[k] + tainted[k]
  BY <1>3, <1>5, <1>7
<1>9. PICK z : z = [y EXCEPT !.file.cut1 = d]
  OBVIOUS
<1>10. SameButCuts(z, y) /\ z.file.cut1 = d
  <2>1. y \in WriterType
    BY <1>5 DEF SameButCuts
  <2> QED BY <1>8, <1>9, <2>1, CutReplaced
<1>11. z = WithCuts
  BY <1>6, <1>7, <1>9 DEF WithCuts, IncOneLevelCut
<1>12. SameButCuts(z, w)
  BY <1>1, <1>5, <1>10 DEF SameButCuts
<1> QED BY <1>1, <1>3, <1>8, <1>10, <1>11, <1>12

(* The cut of the level done joins those of the levels before.             *)
LEMMA DoneCuts ==
    ASSUME CanonInv, MetaInv, phase = "forward"
    PROVE  /\ SameButCuts(WithCuts, w)
           /\ \A l \in InputLevels, k \in CutKinds : l \notin levels =>
                CutAt(Out, pq \cup terminal, mapLevel[l], k) <= WithCuts.file.cut1[k]
<1>1. /\ Sweeping /\ w \in WriterType /\ CutsHold /\ LabelCutHolds
      /\ local \in [CutKinds -> Nat] /\ tainted \in [CutKinds -> Nat]
  BY InSweep DEF Sweeping, WriterIsTyped
<1>2. /\ SameButCuts(WithCuts, w)
      /\ \A k \in CutKinds :
            WithCuts.file.cut1[k] = Bigger(w.file.cut1[k], local[k]) + tainted[k]
  BY <1>1, CutsAreRaised
<1>3. Held = pq \cup terminal
  BY DEF Held
<1>4. ASSUME NEW l \in InputLevels, NEW k \in CutKinds, l \notin levels
      PROVE  CutAt(Out, pq \cup terminal, mapLevel[l], k) <= WithCuts.file.cut1[k]
  <2>1. PICK x : x = CutAt(Out, pq \cup terminal, mapLevel[l], k)
    OBVIOUS
  <2>2. PICK c, d, e \in Nat : c = w.file.cut1[k] /\ d = local[k] /\ e = tainted[k]
    BY <1>1 DEF WriterType, FileType
  <2>3. x <= c + e \/ x <= d + e
    <3>1. CASE l = label
      BY <1>1, <2>1, <2>2, <3>1, Zenon DEF LabelCutHolds
    <3>2. CASE l # label
      <4>1. IsSwept(l) /\ Increment(k) = tainted[k]
        BY <1>4, <3>2 DEF IsSwept, Increment, AtALevel
      <4> QED BY <1>1, <1>3, <2>1, <2>2, <4>1, Zenon DEF CutsHold
    <3> QED BY <3>1, <3>2
  <2>4. PICK b \in Nat : b = Bigger(c, d) /\ b >= c /\ b >= d
    BY BiggerIs
  <2>5. WithCuts.file.cut1[k] = b + e
    BY <1>2, <2>2, <2>4
  <2>6. x \in Int
    <3>1. IsFiniteSet(Out) /\ IsFiniteSet(pq \cup terminal)
      BY <1>1, InSweep, OutIsFinite, AtHandIsFinite
    <3>2. x \in Nat
      BY <2>1, <3>1, CutAtIs, Zenon
    <3> QED BY <3>2
  <2>7. x <= b + e
    BY <2>2, <2>3, <2>4, <2>6
  <2> QED BY <2>1, <2>5, <2>7
<1> QED BY <1>2, <1>4

LEMMA EndLevelMeta ==
    ASSUME ReduceInv, CanonInv, MetaInv, EndLevel, levels # {}, UNCHANGED <<zdd, input, mapLevel>>
    PROVE  MetaInv'
<1>1. /\ phase = "forward" /\ red1 \cup red2 = {} /\ phase' = "begin"
      /\ UNCHANGED <<levels, terminal, pq, label, local, tainted>>
  BY DEF EndLevel, levelVars
<1>2. w' = WithCuts
  <2>1. pq # {}
    BY <1>1, QueueIsNotEmpty
  <2> QED BY <2>1 DEF EndLevel
<1>3. Sweeping /\ Sweeping' /\ phase' # "done"
  BY <1>1 DEF Sweeping
<1>4. /\ SameButCuts(w', w)
      /\ \A l \in InputLevels, k \in CutKinds : l \notin levels =>
            CutAt(Out, pq \cup terminal, mapLevel[l], k) <= w'.file.cut1[k]
  BY <1>1, <1>2, DoneCuts
<1>5. Out' = Out /\ Held' = pq \cup terminal
  BY <1>1, <1>4 DEF Out, NodesOf, SameButCuts, Held
<1>6. HeldAreArcs'
  <2>1. Held' \subseteq Held
    BY <1>5 DEF Held
  <2> QED BY <1>3, <2>1, InSweep, HeldShrink
<1>7. CutsHold'
  <2>1. InputLevels' = InputLevels /\ mapLevel' = mapLevel
    BY DEF InputLevels, Uids
  <2>2. \A l \in InputLevels : IsSwept(l)' => l \notin levels
    BY <1>1 DEF IsSwept
  <2>3. ASSUME NEW k \in CutKinds
        PROVE  w'.file.cut1[k] + Increment(k)' = w'.file.cut1[k]
    <3>1. Increment(k)' = 0
      BY <1>1 DEF Increment, AtALevel
    <3>2. w'.file.cut1[k] \in Nat
      BY <1>4 DEF SameButCuts, WriterType, FileType
    <3> QED BY <3>1, <3>2
  <2>4. ASSUME NEW l \in InputLevels, NEW k \in CutKinds, IsSwept(l)'
        PROVE  CutAt(Out', Held', mapLevel[l], k) <= w'.file.cut1[k] + Increment(k)'
    BY <1>4, <1>5, <2>2, <2>3, <2>4, Zenon
  <2> QED BY <2>1, <2>4 DEF CutsHold
<1>8. LabelCutHolds' /\ MappedAreHere'
  BY <1>1 DEF LabelCutHolds, MappedAreHere, AtALevel
<1>9. CountsHold'
  <2>1. Finished' = Finished
    BY <1>1, <1>5 DEF Finished, LevelsIn
  <2> QED BY <1>1, <1>3, <1>4, <1>5, <2>1, InSweep DEF CountsHold, SameButCuts
<1>10. WriterIsTyped'
  BY <1>1, <1>3, <1>4, InSweep DEF WriterIsTyped, SameButCuts
<1> QED BY <1>3, <1>6, <1>7, <1>8, <1>9, <1>10, StillInSweep
-----------------------------------------------------------------------------
(* The file of the output                                                  *)

LEMMA FixupKeeps ==
    ASSUME NEW f \in FileType
    PROVE  /\ Fixup(f).nodes = f.nodes /\ Fixup(f).levels = f.levels
           /\ Fixup(f).width = f.width /\ Fixup(f).terminals = f.terminals
<1>1. PICK c, d : Fixup(f) = [f EXCEPT !.cut1 = c, !.cut2 = d]
  BY DEF Fixup
<1> QED BY <1>1 DEF FileType

LEMMA NoInnerNodes ==
    ASSUME NEW f, NEW v \in BOOLEAN, NodesOf(f) = {TerminalNode(v)}, f.levels = <<>>, f.width = 0
    PROVE  CountsAreExact(f) /\ CutsAreBounds(f)
<1>1. InnerNodes(f) = {}
  BY TerminalIs DEF InnerNodes
<1> QED BY <1>1, NoNodesAreExact DEF CutsAreBounds

(* Below the levels written, an arc of the output leads to a node below.   *)
LEMMA AcrossAbove ==
    ASSUME NEW N, HoldsDiagram(N), NEW l \in Nat, Above(N, l) # {}, NEW k
    PROVE  \E n \in N : /\ Cardinality(Across(Above(N, l), k)) \in Nat
                        /\ Cardinality(AcrossLevel(N, LevelOf(n.uid), k)) \in Nat
                        /\ Cardinality(Across(Above(N, l), k))
                                <= Cardinality(AcrossLevel(N, LevelOf(n.uid), k))
<1>1. \A n \in N : LevelOf(n.uid) \in Nat /\ n.uid \in Nat
  BY NodesHaveLevels DEF HoldsDiagram
<1>2. PICK S : S = LevelsIn(Above(N, l))
  OBVIOUS
<1>3. S \subseteq Nat /\ S # {} /\ \A x \in S : x <= l
  BY <1>1, <1>2 DEF Above, LevelsIn
<1>4. PICK e \in S : \A x \in S : x <= e
  BY <1>3, GreatestExists
<1>5. PICK n \in Above(N, l) : e = LevelOf(n.uid)
  BY <1>2, <1>4 DEF LevelsIn
<1>6. e \in Nat /\ e < l /\ n \in N
  BY <1>1, <1>5 DEF Above
<1>7. Above(N, l) = UpTo(N, e)
  <2>1. \A m \in N : LevelOf(m.uid) < l => LevelOf(m.uid) <= e
    BY <1>2, <1>4 DEF LevelsIn, Above
  <2>2. \A m \in N : LevelOf(m.uid) <= e => LevelOf(m.uid) < l
    BY <1>1, <1>6
  <2> QED BY <2>1, <2>2 DEF Above, UpTo
<1>8. Across(Above(N, l), k) \subseteq AcrossLevel(N, e, k)
  <2> SUFFICES ASSUME NEW a \in Across(Above(N, l), k) PROVE a \in AcrossLevel(N, e, k)
    OBVIOUS
  <2>1. a \in SidesIn(UpTo(N, e)) /\ Counted(EndOf(a), Above(N, l), k)
    BY <1>7 DEF Across
  <2>2. CASE IsNode(EndOf(a))
    <3>1. a \in SidesIn(N)
      BY <2>1 DEF SidesIn, UpTo
    <3>2. PICK m \in N : m.uid = EndOf(a)
      BY <2>2, <3>1, EndsInDiagram
    <3>3. m \notin Above(N, l)
      BY <2>1, <2>2, <3>2 DEF Counted
    <3>4. ~(LevelOf(m.uid) <= e)
      BY <1>7, <3>2, <3>3 DEF UpTo
    <3>5. e < LevelOf(EndOf(a))
      BY <1>1, <1>6, <3>2, <3>4
    <3> QED BY <2>1, <2>2, <3>5 DEF AcrossLevel, Reaches
  <2>3. CASE ~IsNode(EndOf(a))
    BY <2>1, <2>3 DEF AcrossLevel, Reaches, Counted
  <2> QED BY <2>2, <2>3
<1>9. PICK A, B : A = Across(Above(N, l), k) /\ B = AcrossLevel(N, e, k)
  OBVIOUS
<1>10. IsFiniteSet(B)
  BY <1>9, AcrossIs, Zenon DEF HoldsDiagram, HoldsNodes
<1>11. Cardinality(A) \in Nat /\ Cardinality(B) \in Nat /\ Cardinality(A) <= Cardinality(B)
  BY <1>8, <1>9, <1>10, PartsAreFewer
<1> QED BY <1>5, <1>6, <1>9, <1>11

(* The levels of the output are levels that were done.                     *)
LEMMA OutputCutsHold ==
    ASSUME ReduceInv, CanonInv, MetaInv, phase = "forward", levels = {}, pq = {}, terminal = {},
           NEW l \in Nat, Above(Out, l) # {}, NEW k \in CutKinds
    PROVE  Cardinality(Across(Above(Out, l), k)) <= WithCuts.file.cut1[k]
<1>1. HoldsDiagram(Out) /\ OutIsTidy
  BY OutIsFinite DEF CanonInv, Sweeping
<1>2. PICK n \in Out : /\ Cardinality(Across(Above(Out, l), k)) \in Nat
                       /\ Cardinality(AcrossLevel(Out, LevelOf(n.uid), k)) \in Nat
                       /\ Cardinality(Across(Above(Out, l), k))
                               <= Cardinality(AcrossLevel(Out, LevelOf(n.uid), k))
  BY <1>1, AcrossAbove
<1>3. PICK m \in input : LevelOf(n.uid) = mapLevel[LevelOf(m.uid)]
  BY <1>1 DEF OutIsTidy, IsFrom
<1>4. PICK d : d = LevelOf(m.uid)
  OBVIOUS
<1>5. d \in InputLevels /\ d \notin levels
  BY <1>4 DEF InputLevels, Uids
<1>6. CutAt(Out, pq \cup terminal, mapLevel[d], k) <= WithCuts.file.cut1[k]
  BY <1>5, DoneCuts
<1>7. PICK h : h = mapLevel[d] /\ h = LevelOf(n.uid)
  BY <1>3, <1>4
<1>8. PICK x, y, z, b : /\ x = Cardinality(Across(Above(Out, l), k))
                        /\ y = Cardinality(AcrossLevel(Out, h, k))
                        /\ z = Cardinality(Passing(pq \cup terminal, h, k))
                        /\ b = WithCuts.file.cut1[k]
  OBVIOUS
<1>9. x \in Nat /\ y \in Nat /\ x <= y
  BY <1>2, <1>7, <1>8
<1>10. z = 0
  <2>1. Passing(pq \cup terminal, h, k) = {}
    BY DEF Passing
  <2> QED BY <1>8, <2>1, FS_EmptySet, Zenon
<1>11. y + z <= b
  BY <1>6, <1>7, <1>8, Zenon DEF CutAt
<1>12. b \in Nat
  <2>1. WithCuts \in WriterType
    BY DoneCuts DEF SameButCuts
  <2> QED BY <1>8, <2>1 DEF WriterType, FileType
<1>13. x <= b
  BY <1>9, <1>10, <1>11, <1>12
<1> QED BY <1>8, <1>13

LEMMA OutputIsSound ==
    ASSUME ReduceInv, CanonInv, MetaInv, phase = "forward", levels = {}, pq = {}, terminal = {},
           Out # {}
    PROVE  CountsAreExact(WithCuts.file) /\ CutsAreBounds(Fixup(WithCuts.file))
<1> DEFINE r == CHOOSE n \in Roots(input) : TRUE
<1>1. /\ TheJob /\ TheWriter /\ OutIsTidy /\ Sweeping
  BY DEF CanonInv, Sweeping
<1>2. PlainDiagram(input) /\ HasRoot(input, r) /\ zdd \in BOOLEAN
  BY <1>1, Setting
<1> HIDE DEF r
<1>3. PICK t \in Out : HasRoot(Out, t)
  <2>1. Tidy(Out) /\ \A k \in Out : \E j \in input : Stands(zdd, mapLevel, input, Out, k.uid, j.uid)
    BY <1>1 DEF OutIsTidy
  <2>2. \A m \in input : Settled(zdd, mapLevel, input, Out, m)
    BY AllAreSettled
  <2>3. PICK N : N = Out
    OBVIOUS
  <2>4. \E t \in N : HasRoot(N, t)
    BY <1>2, <2>1, <2>2, <2>3, SettledIsRooted
  <2> QED BY <2>3, <2>4
<1>4. HoldsDiagram(Out) /\ HoldsNodes(Out) /\ CountsHold
  BY <1>1, OutIsFinite, InSweep
<1>5. PICK f : f = WithCuts.file
  OBVIOUS
<1>6. /\ f \in FileType /\ f.nodes = w.file.nodes /\ f.levels = w.file.levels
      /\ f.width = w.file.width /\ f.terminals = w.file.terminals /\ f.cut2 = w.file.cut2
  <2>1. SameButCuts(WithCuts, w)
    BY DoneCuts
  <2> QED BY <1>5, <2>1 DEF SameButCuts, WriterType
<1>7. NodesOf(f) = Out
  BY <1>6 DEF NodesOf, Out
<1>8. /\ LevelsMatch(f.levels, Out, LevelsIn(Out)) /\ WidthIs(f.width, Out, LevelsIn(Out))
      /\ \A v \in BOOLEAN : f.terminals[v] = ArcsTo(Out, v)
      /\ \A k \in CutKinds : f.cut2[k] = CutMax
  <2>1. Finished = LevelsIn(Out)
    BY DEF Finished
  <2> QED BY <1>4, <1>6, <2>1 DEF CountsHold
<1>9. CountsAreExact(f)
  BY <1>4, <1>7, <1>8, ExactIs
<1>10. Count(f) = Cardinality(Out)
  <2>1. UidsFall(f.nodes)
    BY <1>1, <1>6 DEF TheWriter
  <2> QED BY <1>4, <1>6, <1>7, <2>1, NodesAreCounted
<1>11. Count(f) < CutMax
  <2>1. PICK c : c = Cardinality(Out)
    OBVIOUS
  <2>2. PICK b : b = Levels * (MaxId + 1)
    OBVIOUS
  <2>3. c \in Nat /\ c <= b
    BY <1>4, <2>1, <2>2, NodesAreFew, Zenon
  <2>4. b \in Nat
    <3>1. PICK i, j \in Nat : i = Levels /\ j = MaxId
      BY DiagramAssumption
    <3>2. i * (j + 1) \in Nat
      OBVIOUS
    <3> QED BY <2>2, <3>1, <3>2
  <2>5. CutMax \in Nat /\ b < CutMax
    BY <2>2, CutAssumption
  <2>6. c < CutMax
    BY <2>3, <2>4, <2>5
  <2> QED BY <1>10, <2>1, <2>6
<1>12. Len(f.levels) = Cardinality(LevelsIn(NodesOf(f)))
  BY <1>4, <1>7, <1>8, LevelsAreCounted
<1>13. BoundsCuts(f)
  <2>1. \A k \in CutKinds, l \in Nat : Above(Out, l) # {} =>
            Cardinality(Across(Above(Out, l), k)) <= f.cut1[k]
    BY <1>5, OutputCutsHold
  <2> QED BY <1>7, <1>8, <2>1 DEF BoundsCuts
<1>14. CutsAreBounds(Fixup(f))
  BY <1>3, <1>4, <1>6, <1>7, <1>8, <1>10, <1>11, <1>12, <1>13, FixupIsSound
<1> QED BY <1>5, <1>9, <1>14

LEMMA TerminalFile ==
    ASSUME NEW x \in WriterType, NEW v \in BOOLEAN
    PROVE  LET y == PushTerminalNode(x, v)
           IN  /\ y \in WriterType /\ y.file.nodes = Append(x.file.nodes, TerminalNode(v))
               /\ y.file.levels = x.file.levels /\ y.file.width = x.file.width
               /\ y.open = x.open /\ y.latest = x.latest
<1>1. PICK z : z = UnsafePushNode(x, TerminalNode(v))
  OBVIOUS
<1>2. /\ z \in WriterType /\ z.file.nodes = Append(x.file.nodes, TerminalNode(v))
      /\ z.file.levels = x.file.levels /\ z.file.width = x.file.width
      /\ z.open = x.open /\ z.latest = x.latest
  BY <1>1, TerminalIs, UnsafePushNodeIs
<1>3. PICK t : t = [u \in BOOLEAN |-> IF u THEN One(v) ELSE One(~v)]
  OBVIOUS
<1>4. t \in [BOOLEAN -> Nat]
  BY <1>3 DEF One
<1>5. PICK y : y = [z EXCEPT !.file.terminals = t]
  OBVIOUS
<1>6. y = PushTerminalNode(x, v)
  BY <1>1, <1>3, <1>5 DEF PushTerminalNode, SetNumberOfTerminals
<1>7. /\ y \in WriterType /\ y.file.nodes = z.file.nodes /\ y.file.levels = z.file.levels
      /\ y.file.width = z.file.width /\ y.open = z.open /\ y.latest = z.latest
  BY <1>2, <1>4, <1>5 DEF WriterType, FileType
<1> QED BY <1>2, <1>6, <1>7

(* A file with a terminal only has no levels and no cuts to bound.         *)
LEMMA TerminalFileIsSound ==
    ASSUME NEW x \in WriterType, x.file.nodes = <<>>, x.file.levels = <<>>, x.file.width = 0,
           NEW y \in WriterType, NEW v \in BOOLEAN, y.file.nodes = Append(x.file.nodes, TerminalNode(v)),
           y.file.levels = x.file.levels, y.file.width = x.file.width
    PROVE  CountsAreExact(y.file) /\ CutsAreBounds(Fixup(y.file))
<1>1. PICK f, g : f = x.file /\ g = y.file
  OBVIOUS
<1>2. /\ f.nodes \in Seq(NodeRecord) /\ TerminalNode(v) \in NodeRecord
      /\ g.nodes = Append(f.nodes, TerminalNode(v)) /\ g \in FileType
  BY <1>1, TerminalIs DEF WriterType, FileType
<1>3. NodesOf(f) = {}
  BY <1>1 DEF NodesOf
<1>4. NodesOf(g) = {TerminalNode(v)}
  BY <1>2, <1>3, AppendedNode
<1>5. PICK h : h = Fixup(g)
  OBVIOUS
<1>6. h.nodes = g.nodes /\ h.levels = <<>> /\ h.width = 0 /\ g.levels = <<>> /\ g.width = 0
  BY <1>1, <1>2, <1>5, FixupKeeps
<1>7. NodesOf(h) = {TerminalNode(v)}
  BY <1>4, <1>6 DEF NodesOf
<1> QED BY <1>1, <1>4, <1>5, <1>6, <1>7, NoInnerNodes

LEMMA EmptyCounts ==
    ASSUME CanonInv, MetaInv, Sweeping, w.file.nodes = <<>>
    PROVE  /\ w \in WriterType /\ w.file.levels = <<>> /\ w.file.width = 0
           /\ \A v \in BOOLEAN : w.file.terminals[v] = 0
<1>1. w \in WriterType /\ CountsHold /\ TheWriter
  BY InSweep DEF WriterIsTyped, Sweeping, CanonInv
<1>2. Out = {}
  BY NothingIsOut
<1>3. w.file.levels = <<>>
  BY <1>1 DEF TheWriter, Sweeping
<1>4. w.file.width = 0
  <2>1. Finished = {}
    BY <1>2 DEF Finished, LevelsIn
  <2> QED BY <1>1, <2>1 DEF CountsHold, WidthIs
<1>5. \A v \in BOOLEAN : w.file.terminals[v] = 0
  BY <1>1, <1>2, ArcsOfNone DEF CountsHold
<1> QED BY <1>1, <1>3, <1>4, <1>5

LEMMA LastLevelMeta ==
    ASSUME ReduceInv, CanonInv, MetaInv, EndLevel, levels = {}, UNCHANGED <<zdd, input, mapLevel>>
    PROVE  MetaInv'
<1>1. /\ phase = "forward" /\ red1 \cup red2 = {} /\ phase' = "close"
      /\ UNCHANGED <<local, tainted>>
      /\ pq = {} => w' = IF HasPushed(w) THEN WithCuts ELSE WithTerminal(WithCuts)
  BY DEF EndLevel, levelVars
<1>2. pq = {} /\ terminal = {}
  BY <1>1, LevelIsDone
<1>3. Sweeping /\ ~Sweeping' /\ TheWriter /\ WriterIsTyped
  BY <1>1, InSweep DEF Sweeping, CanonInv
<1>4. SameButCuts(WithCuts, w)
  BY <1>1, DoneCuts
<1>5. w' \in WriterType /\ CountsAreExact(w'.file) /\ CutsAreBounds(Fixup(w'.file))
  <2>1. CASE Out # {}
    <3>1. w.file.nodes # <<>>
      BY <2>1, NothingIsOut
    <3>2. w' = WithCuts
      BY <1>1, <1>2, <3>1 DEF HasPushed
    <3> QED BY <1>1, <1>2, <1>4, <2>1, <3>2, OutputIsSound DEF SameButCuts
  <2>2. CASE Out = {}
    <3>1. w.file.nodes = <<>>
      BY <1>3, <2>2, NothingIsOutMeans
    <3>2. w.file.levels = <<>> /\ w.file.width = 0
      BY <1>3, <3>1, EmptyCounts
    <3>3. w' = WithTerminal(WithCuts)
      BY <1>1, <1>2, <3>1, <3>2 DEF HasPushed
    <3>4. PICK v \in BOOLEAN : v = (IsTerminal(lastRed1.new) /\ Value(lastRed1.new))
      OBVIOUS
    <3>5. PICK x : x = WithCuts
      OBVIOUS
    <3>6. w' = PushTerminalNode(x, v)
      BY <3>3, <3>4, <3>5 DEF WithTerminal
    <3>7. x \in WriterType /\ x.file.nodes = <<>> /\ x.file.levels = <<>> /\ x.file.width = 0
      BY <1>4, <3>1, <3>2, <3>5 DEF SameButCuts
    <3>8. /\ w' \in WriterType /\ w'.file.nodes = Append(x.file.nodes, TerminalNode(v))
          /\ w'.file.levels = x.file.levels /\ w'.file.width = x.file.width
      BY <3>6, <3>7, TerminalFile
    <3> QED BY <3>7, <3>8, TerminalFileIsSound
  <2> QED BY <2>1, <2>2
<1>6. WriterIsTyped'
  BY <1>1, <1>3, <1>5 DEF WriterIsTyped
<1> QED BY <1>1, <1>3, <1>5, <1>6 DEF MetaInv

LEMMA BothCutsReplaced ==
    ASSUME NEW x \in WriterType, NEW c \in [CutKinds -> Nat], NEW d \in [CutKinds -> Nat]
    PROVE  LET y == CutsReplaced(x, c, d)
           IN  /\ y \in WriterType /\ y.file.nodes = x.file.nodes /\ y.file.levels = x.file.levels
               /\ y.file.width = x.file.width /\ y.file.terminals = x.file.terminals
               /\ y.file.cut1 = c /\ y.file.cut2 = d
BY DEF CutsReplaced, WriterType, FileType

(* The cuts of a diagram of one node, as they are set without a sweep.     *)
LEMMA SingleCutIs ==
    ASSUME NEW m \in NodeRecord
    PROVE  /\ SingleCut(m) \in [CutKinds -> Nat]
           /\ SingleCut(m)["Internal"] = 1 /\ SingleCut(m)["All"] = 2
           /\ SingleCut(m)["Internal_False"] >= TerminalsOf(m, FALSE)
           /\ SingleCut(m)["Internal_True"] >= TerminalsOf(m, TRUE)
<1>1. PICK f, t \in Nat : f = TerminalsOf(m, FALSE) /\ t = TerminalsOf(m, TRUE)
  BY TerminalsOfIs
<1>2. PICK x, y : x = Bigger(1, f) /\ y = Bigger(1, t)
  OBVIOUS
<1>3. x \in Nat /\ x >= f /\ y \in Nat /\ y >= t
  BY <1>1, <1>2, BiggerIs
<1>4. /\ SingleCut(m)["Internal"] = 1 /\ SingleCut(m)["All"] = 2
      /\ SingleCut(m)["Internal_False"] = x /\ SingleCut(m)["Internal_True"] = y
  BY <1>1, <1>2 DEF SingleCut, CutKinds
<1>5. SingleCut(m) \in [CutKinds -> Nat]
  <2>1. \A k \in CutKinds : SingleCut(m)[k] \in Nat
    BY <1>3, <1>4 DEF CutKinds
  <2>2. SingleCut(m) = [k \in CutKinds |-> SingleCut(m)[k]]
    BY DEF SingleCut
  <2> QED BY <2>1, <2>2
<1> QED BY <1>1, <1>3, <1>4, <1>5

LEMMA SingleCutIsBound ==
    ASSUME NEW m, HoldsDiagram({m}), \A s \in Sides : ~IsNode(m[s]), NEW k \in CutKinds
    PROVE  Cardinality(Across({m}, k)) <= SingleCut(m)[k]
<1>1. /\ IsFiniteSet({m}) /\ m \in NodeRecord
      /\ \A n \in {m} : n \in NodeRecord
      /\ \A a \in SidesIn({m}) : IsNode(EndOf(a)) \/ IsTerminal(EndOf(a))
  <2>1. HoldsNodes({m})
    BY DEF HoldsDiagram
  <2>2. m \in NodeRecord /\ IsFiniteSet({m})
    BY <2>1, NodesHaveLevels DEF HoldsNodes
  <2>3. \A a \in SidesIn({m}) : IsNode(EndOf(a)) \/ IsTerminal(EndOf(a))
    BY EndsInDiagram
  <2> QED BY <2>2, <2>3
<1>2. NodeArcsOut({m}) = {}
  BY DEF NodeArcsOut, SidesIn, EndOf
<1>3. PICK c, t : c = Cardinality(Across({m}, k)) /\ t = ToTerminals({m}, k)
  OBVIOUS
<1>4. c = t /\ t \in Nat /\ t <= 2
  <2>1. Cardinality(NodeArcsOut({m})) = 0
    BY <1>2, FS_EmptySet, Zenon
  <2>2. c = 0 + t /\ t \in Nat
    BY <1>1, <1>3, <2>1, CrossingSplits
  <2>3. Cardinality({m}) = 1
    BY FS_Singleton, Zenon
  <2>4. 0 + t <= 2 * 1
    BY <1>1, <1>3, <2>1, <2>3, TerminalsOfNodes
  <2> QED BY <2>2, <2>4
<1>5. \A v \in BOOLEAN : ArcsTo({m}, v) = TerminalsOf(m, v) /\ TerminalsOf(m, v) \in Nat
  <2> SUFFICES ASSUME NEW v \in BOOLEAN
               PROVE  ArcsTo({m}, v) = TerminalsOf(m, v) /\ TerminalsOf(m, v) \in Nat
    OBVIOUS
  <2>1. ArcsTo({} \cup {m}, v) = ArcsTo({}, v) + TerminalsOf(m, v)
    BY ArcsOfOneMore, FS_EmptySet
  <2>2. {} \cup {m} = {m}
    OBVIOUS
  <2> QED BY <2>1, <2>2, ArcsOfNone, TerminalsOfIs
<1>6. PICK f, g \in Nat : f = TerminalsOf(m, FALSE) /\ g = TerminalsOf(m, TRUE) /\ t = OfKind(k, f, g)
  BY <1>3, <1>5 DEF ToTerminals
<1>7. /\ k = "Internal" => t = 0
      /\ k = "Internal_False" => t = f
      /\ k = "Internal_True" => t = g
  <2>1. \A x, y \in Nat : /\ OfKind("Internal", x, y) = 0
                         /\ OfKind("Internal_False", x, y) = x
                         /\ OfKind("Internal_True", x, y) = y
    BY DEF OfKind, Includes
  <2>2. /\ OfKind("Internal", f, g) = 0
        /\ OfKind("Internal_False", f, g) = f
        /\ OfKind("Internal_True", f, g) = g
    BY <2>1
  <2>3. CASE k = "Internal"
    BY <1>6, <2>2, <2>3
  <2>4. CASE k = "Internal_False"
    BY <1>6, <2>2, <2>4
  <2>5. CASE k = "Internal_True"
    BY <1>6, <2>2, <2>5
  <2> QED BY <2>3, <2>4, <2>5
<1>8. PICK b : b = SingleCut(m)[k]
  OBVIOUS
<1>9. /\ k = "Internal" => b = 1
      /\ k = "All" => b = 2
      /\ k = "Internal_False" => b >= f
      /\ k = "Internal_True" => b >= g
  BY <1>1, <1>6, <1>8, SingleCutIs
<1>10. c <= b
  <2>1. CASE k = "Internal"
    BY <1>4, <1>7, <1>9, <2>1
  <2>2. CASE k = "All"
    BY <1>4, <1>9, <2>2
  <2>3. CASE k = "Internal_False"
    BY <1>4, <1>7, <1>9, <2>3
  <2>4. CASE k = "Internal_True"
    BY <1>4, <1>7, <1>9, <2>4
  <2> QED BY <2>1, <2>2, <2>3, <2>4 DEF CutKinds
<1> QED BY <1>3, <1>8, <1>10

(* A file with one node, none of whose children is a node.                 *)
LEMMA OneNodeIsSound ==
    ASSUME NEW m, HoldsDiagram({m}), \A s \in Sides : ~IsNode(m[s]),
           NEW f \in FileType, NodesOf(f) = {m}, UidsFall(f.nodes),
           f.levels = Append(<<>>, [level |-> LevelOf(m.uid), width |-> 1]), f.width = 1,
           \A v \in BOOLEAN : f.terminals[v] = TerminalsOf(m, v),
           f.cut1 = SingleCut(m)
    PROVE  CountsAreExact(f) /\ CutsAreBounds(Fixup(f))
<1>1. /\ HoldsNodes({m}) /\ IsInner(m) /\ LevelOf(m.uid) \in Nat
  BY NodesHaveLevels DEF HoldsDiagram, HoldsNodes
<1>2. PICK l \in Nat : l = LevelOf(m.uid)
  BY <1>1
<1>3. LevelsIn({m}) = {l} /\ Width({m}, l) = 1
  BY <1>1, <1>2, WidthsStart
<1>4. LevelsMatch(f.levels, {m}, {l}) /\ WidthIs(f.width, {m}, {l})
  <2>1. LevelsMatch(<<>>, {m}, {}) /\ WidthIs(0, {m}, {})
    BY DEF LevelsMatch, WidthIs
  <2>2. /\ LevelsMatch(Append(<<>>, [level |-> l, width |-> 1]), {m}, {} \cup {l})
        /\ WidthIs(Bigger(0, 1), {m}, {} \cup {l})
    <3>1. /\ LevelsMatch(Append(<<>>, [level |-> l, width |-> Width({m}, l)]), {m}, {} \cup {l})
          /\ WidthIs(Bigger(0, Width({m}, l)), {m}, {} \cup {l})
      BY <1>1, <1>2, <2>1, AccountGrows
    <3> QED BY <1>3, <3>1, Zenon
  <2>3. {} \cup {l} = {l} /\ Bigger(0, 1) = 1
    BY DEF Bigger
  <2> QED BY <1>2, <2>2, <2>3, Zenon
<1>5. \A v \in BOOLEAN : f.terminals[v] = ArcsTo({m}, v)
  <2> SUFFICES ASSUME NEW v \in BOOLEAN PROVE f.terminals[v] = ArcsTo({m}, v)
    OBVIOUS
  <2>1. ArcsTo({} \cup {m}, v) = ArcsTo({}, v) + TerminalsOf(m, v)
    BY ArcsOfOneMore, FS_EmptySet
  <2>2. {} \cup {m} = {m}
    OBVIOUS
  <2> QED BY <2>1, <2>2, ArcsOfNone, TerminalsOfIs
<1>6. CountsAreExact(f)
  BY <1>1, <1>3, <1>4, <1>5, ExactIs
<1>7. Count(f) = 1
  <2>1. Count(f) = Cardinality({m})
    BY <1>1, NodesAreCounted
  <2> QED BY <2>1, FS_Singleton, Zenon
<1>8. Len(f.levels) = 1
  <2>1. Len(f.levels) = Cardinality({l})
    BY <1>1, <1>3, <1>4, LevelsAreCounted
  <2> QED BY <2>1, FS_Singleton, Zenon
<1>9. Cardinality({m}) = 1 /\ Cardinality({l}) = 1
  BY FS_Singleton, Zenon
<1>10. Count(f) < CutMax
  <2>1. PICK b : b = Levels * (MaxId + 1)
    OBVIOUS
  <2>2. 1 <= b
    BY <1>9, <2>1, NodesAreFew, Zenon
  <2>3. b \in Nat
    <3>1. PICK i, j \in Nat : i = Levels /\ j = MaxId
      BY DiagramAssumption
    <3>2. i * (j + 1) \in Nat
      OBVIOUS
    <3> QED BY <2>1, <3>1, <3>2
  <2>4. CutMax \in Nat /\ b < CutMax
    BY <2>1, CutAssumption
  <2> QED BY <1>7, <2>2, <2>3, <2>4
<1>11. BoundsCuts(f)
  <2> SUFFICES ASSUME NEW k \in CutKinds, NEW h \in Nat, Above({m}, h) # {}
               PROVE  Cardinality(Across(Above({m}, h), k)) <= f.cut1[k]
    BY <1>7, <1>8 DEF BoundsCuts
  <2>1. Above({m}, h) = {m}
    BY DEF Above
  <2> QED BY <2>1, SingleCutIsBound
<1>12. HasRoot({m}, m)
  BY DEF HasRoot
<1>13. /\ HoldsDiagram(NodesOf(f)) /\ HasRoot(NodesOf(f), m)
       /\ Count(f) = Cardinality(NodesOf(f))
       /\ Len(f.levels) = Cardinality(LevelsIn(NodesOf(f)))
       /\ \A v \in BOOLEAN : f.terminals[v] = ArcsTo(NodesOf(f), v)
  BY <1>3, <1>5, <1>7, <1>8, <1>9, <1>12
<1>14. CutsAreBounds(Fixup(f))
  BY <1>10, <1>11, <1>13, FixupIsSound
<1> QED BY <1>6, <1>14

LEMMA SingleTerminalMeta ==
    ASSUME CanonInv, MetaInv, Sweeping, w.file.nodes = <<>>, NEW v \in BOOLEAN, w' = SingleTerminal(v)
    PROVE  w' \in WriterType /\ CountsAreExact(w'.file) /\ CutsAreBounds(Fixup(w'.file))
<1>1. w \in WriterType /\ w.file.levels = <<>> /\ w.file.width = 0
  BY EmptyCounts
<1>2. PICK x : x = PushTerminalNode(w, v)
  OBVIOUS
<1>3. /\ x \in WriterType /\ x.file.nodes = Append(w.file.nodes, TerminalNode(v))
      /\ x.file.levels = w.file.levels /\ x.file.width = w.file.width
  BY <1>1, <1>2, TerminalFile
<1>4. PICK c : c = CutAdd(x.file.cut1, Cut(0, One(~v), One(v)))
  OBVIOUS
<1>5. c \in [CutKinds -> Nat]
  <2>1. PICK i, j \in Nat : i = One(~v) /\ j = One(v)
    BY DEF One
  <2>2. Cut(0, i, j) \in [CutKinds -> Nat]
    BY CutIs
  <2>3. x.file.cut1 \in [CutKinds -> Nat]
    BY <1>3 DEF WriterType, FileType
  <2> QED BY <1>4, <2>1, <2>2, <2>3, CutAddIs
<1>6. w' = CutsReplaced(x, c, c)
  BY <1>2, <1>4, Zenon DEF SingleTerminal, CutsReplaced
<1>7. /\ w' \in WriterType /\ w'.file.nodes = x.file.nodes /\ w'.file.levels = x.file.levels
      /\ w'.file.width = x.file.width
  BY <1>3, <1>5, <1>6, BothCutsReplaced
<1>8. PICK y : y = w'
  OBVIOUS
<1>9. CountsAreExact(y.file) /\ CutsAreBounds(Fixup(y.file))
  BY <1>1, <1>3, <1>7, <1>8, TerminalFileIsSound
<1> QED BY <1>7, <1>8, <1>9

LEMMA SingleInnerMeta ==
    ASSUME CanonInv, MetaInv, Sweeping, w.file.nodes = <<>>, NEW n, w' = SingleInner(n),
           NEW l \in Level, l = mapLevel[LevelOf(n.uid)], NEW m, m = Node(Uid(l, MaxId), n.low, n.high),
           m \in NodeRecord, Tidy({m}), LevelOf(m.uid) = l, \A s \in Sides : ~IsNode(m[s])
    PROVE  w' \in WriterType /\ CountsAreExact(w'.file) /\ CutsAreBounds(Fixup(w'.file))
<1>1. /\ w \in WriterType /\ w.file.levels = <<>> /\ w.file.width = 0
      /\ \A v \in BOOLEAN : w.file.terminals[v] = 0
  BY EmptyCounts
<1>2. PICK x : x = UnsafePushNode(w, m)
  OBVIOUS
<1>3. /\ x \in WriterType /\ x.file.nodes = Append(w.file.nodes, m)
      /\ x.file.levels = w.file.levels /\ x.file.width = w.file.width
      /\ \A v \in BOOLEAN : x.file.terminals[v] = w.file.terminals[v] + TerminalsOf(m, v)
  <2>1. PICK u \in WriterType : u = w
    BY <1>1
  <2>2. LET y == UnsafePushNode(u, m)
        IN  /\ y \in WriterType /\ y.file.nodes = Append(u.file.nodes, m)
            /\ y.file.levels = u.file.levels /\ y.file.width = u.file.width
            /\ \A v \in BOOLEAN : y.file.terminals[v] = u.file.terminals[v] + TerminalsOf(m, v)
    BY UnsafePushNodeIs
  <2> QED BY <1>2, <2>1, <2>2
<1>4. PICK z : z = UnsafePushLevel(x, l, 1)
  OBVIOUS
<1>5. /\ z \in WriterType /\ z.file.nodes = x.file.nodes /\ z.file.terminals = x.file.terminals
      /\ z.file.levels = Append(x.file.levels, [level |-> l, width |-> 1])
      /\ z.file.width = Bigger(x.file.width, 1)
  <2>1. l \in Nat
    BY DiagramAssumption DEF Level
  <2>2. PICK j \in Nat : j = 1
    OBVIOUS
  <2>3. z = UnsafePushLevel(x, l, j)
    BY <1>4, <2>2
  <2>4. /\ z \in WriterType /\ z.file.nodes = x.file.nodes /\ z.file.terminals = x.file.terminals
        /\ z.file.levels = Append(x.file.levels, [level |-> l, width |-> j])
        /\ z.file.width = Bigger(x.file.width, j)
    <3>1. AddsLevel(z, x, l, j)
      BY <1>3, <2>1, <2>3, LevelPushed, Zenon
    <3> QED BY <3>1, Zenon DEF AddsLevel
  <2> QED BY <2>2, <2>4
<1>6. PICK c : c = SingleCut(m)
  OBVIOUS
<1>7. c \in [CutKinds -> Nat]
  BY <1>6, SingleCutIs
<1>8. w' = CutsReplaced(z, c, c)
  BY <1>2, <1>4, <1>6, Zenon DEF SingleInner, CutsReplaced
<1>9. /\ w' \in WriterType /\ w'.file.nodes = z.file.nodes /\ w'.file.levels = z.file.levels
      /\ w'.file.width = z.file.width /\ w'.file.terminals = z.file.terminals
      /\ w'.file.cut1 = c
  BY <1>5, <1>7, <1>8, BothCutsReplaced
<1>10. PICK f : f = w'.file
  OBVIOUS
<1>11. f \in FileType
  BY <1>9, <1>10 DEF WriterType
<1>12. f.nodes = Append(w.file.nodes, m)
  BY <1>3, <1>5, <1>9, <1>10
<1>13. NodesOf(f) = {m} /\ UidsFall(f.nodes)
  <2>1. NodesOf(w.file) = {} /\ UidsFall(w.file.nodes) /\ w.file.nodes \in Seq(NodeRecord)
    BY <1>1 DEF NodesOf, UidsFall, WriterType, FileType
  <2>2. PICK g : g = w.file
    OBVIOUS
  <2>3. /\ NodesOf(f) = NodesOf(g) \cup {m}
        /\ UidsFall(g.nodes) /\ (\A k \in NodesOf(g) : k.uid > m.uid) => UidsFall(f.nodes)
    BY <1>12, <2>1, <2>2, AppendedNode
  <2> QED BY <2>1, <2>2, <2>3
<1>14. f.levels = Append(<<>>, [level |-> LevelOf(m.uid), width |-> 1]) /\ f.width = 1
  <2>1. Bigger(0, 1) = 1
    BY DEF Bigger
  <2> QED BY <1>1, <1>3, <1>5, <1>9, <1>10, <2>1
<1>15. \A v \in BOOLEAN : f.terminals[v] = TerminalsOf(m, v)
  <2> SUFFICES ASSUME NEW v \in BOOLEAN PROVE f.terminals[v] = TerminalsOf(m, v)
    OBVIOUS
  <2>1. PICK t \in Nat : t = TerminalsOf(m, v)
    BY TerminalsOfIs
  <2>2. f.terminals[v] = 0 + t
    BY <1>1, <1>3, <1>5, <1>9, <1>10, <2>1
  <2> QED BY <2>1, <2>2
<1>16. HoldsDiagram({m})
  BY DEF Tidy, PlainDiagram, HoldsDiagram, HoldsNodes
<1>17. CountsAreExact(f) /\ CutsAreBounds(Fixup(f))
  BY <1>6, <1>9, <1>10, <1>11, <1>13, <1>14, <1>15, <1>16, OneNodeIsSound
<1> QED BY <1>9, <1>10, <1>17

LEMMA SingleNodeMeta ==
    ASSUME ReduceInv, CanonInv, MetaInv, ReduceSingleNode, UNCHANGED <<zdd, input, mapLevel>>
    PROVE  MetaInv'
<1>1. PICK r \in input, v1, v2 \in BOOLEAN :
          /\ input = {r} /\ r.low = Terminal(v1) /\ r.high = Terminal(v2)
          /\ w.file.nodes = <<>>
          /\ r = Node(SingleArc(0).source, SingleArc(0).target, SingleArc(1).target)
  BY SingleNode
<1>2. /\ PlainDiagram(input) /\ Renames(mapLevel) /\ zdd \in BOOLEAN
      /\ LevelOf(r.uid) \in DOMAIN mapLevel
  BY <1>1, Setting DEF CanonInv
<1>3. FlagsAside(Terminal(v1)) /\ FlagsAside(Terminal(v2))
  BY TerminalFlags
<1>4. /\ IsRedundant(zdd, Terminal(v1), Terminal(v2)) => ReductionRule(r) = r.low
      /\ ~IsRedundant(zdd, Terminal(v1), Terminal(v2)) => ReductionRule(r) = r.uid
  BY <1>1, <1>3, RuleIs
<1>5. w' = IF ReductionRule(r) = r.uid THEN SingleInner(r) ELSE SingleTerminal(Value(ReductionRule(r)))
  BY <1>1 DEF ReduceSingleNode
<1>6. /\ phase = "begin" /\ phase' = "close" /\ UNCHANGED <<local, tainted>>
  BY DEF ReduceSingleNode, levelVars
<1>7. Sweeping /\ ~Sweeping'
  BY <1>6 DEF Sweeping
<1>8. w' \in WriterType /\ CountsAreExact(w'.file) /\ CutsAreBounds(Fixup(w'.file))
  <2>1. CASE IsRedundant(zdd, Terminal(v1), Terminal(v2))
    <3>1. r.low # r.uid
      <4>1. IsNode(r.uid) /\ ~IsNode(Terminal(v1))
        BY <1>2, PlainNodes, TerminalsAre
      <4> QED BY <1>1, <4>1
    <3>2. Value(Terminal(v1)) = v1
      BY TerminalsAre
    <3>3. w' = SingleTerminal(v1)
      BY <1>1, <1>4, <1>5, <2>1, <3>1, <3>2
    <3> QED BY <1>1, <1>7, <3>3, SingleTerminalMeta
  <2>2. CASE ~IsRedundant(zdd, Terminal(v1), Terminal(v2))
    <3>1. w' = SingleInner(r)
      BY <1>4, <1>5, <2>2
    <3>2. PICK l \in Level : l = mapLevel[LevelOf(r.uid)]
      BY <1>2 DEF Renames
    <3>3. PICK m : m = Node(Uid(l, MaxId), Terminal(v1), Terminal(v2))
      OBVIOUS
    <3>4. m \in NodeRecord /\ Tidy({m}) /\ LevelOf(m.uid) = l
      BY <1>2, <2>2, <3>3, OneNodeIsTidy
    <3>5. \A s \in Sides : ~IsNode(m[s])
      <4>1. m.low = Terminal(v1) /\ m.high = Terminal(v2)
        BY <3>3 DEF Node
      <4>2. ~IsNode(m.low) /\ ~IsNode(m.high)
        BY <4>1, TerminalsAre
      <4> QED BY <4>2 DEF Sides
    <3> QED BY <1>1, <1>7, <3>1, <3>2, <3>3, <3>4, <3>5, SingleInnerMeta
  <2> QED BY <2>1, <2>2
<1>9. WriterIsTyped'
  BY <1>6, <1>7, <1>8, InSweep DEF WriterIsTyped
<1> QED BY <1>6, <1>7, <1>8, <1>9 DEF MetaInv

(* The counts of two files are about the same nodes.                       *)
AreCounts(levs, wid, terms, I) ==
    LET here == {LevelOf(n.uid) : n \in I}
    IN  /\ I # {} => \A v \in BOOLEAN : terms[v] = ArcsTo(I, v)
        /\ {levs[i] : i \in DOMAIN levs} =
               {[level |-> l, width |-> Cardinality(OnLevel(I, l))] : l \in here}
        /\ \A i, j \in DOMAIN levs : i < j => levs[i].level > levs[j].level
        /\ wid = MaxOf({Cardinality(OnLevel(I, l)) : l \in here} \cup {0})

LEMMA SameCounts ==
    ASSUME NEW f, NEW g, CountsAreExact(f), g.nodes = f.nodes, g.levels = f.levels,
           g.width = f.width, g.terminals = f.terminals
    PROVE  CountsAreExact(g)
<1>1. InnerNodes(g) = InnerNodes(f)
  BY DEF InnerNodes, NodesOf
<1>2. \A h : CountsAreExact(h) <=> AreCounts(h.levels, h.width, h.terminals, InnerNodes(h))
  BY Zenon DEF CountsAreExact, AreCounts
<1>3. AreCounts(g.levels, g.width, g.terminals, InnerNodes(g))
  <2>1. AreCounts(f.levels, f.width, f.terminals, InnerNodes(f))
    BY <1>2, Zenon
  <2> QED BY <1>1, <2>1
<1> QED BY <1>2, <1>3, Zenon

LEMMA CloseMeta ==
    ASSUME CanonInv, MetaInv, Close \/ Done, UNCHANGED <<zdd, input, mapLevel>>
    PROVE  MetaInv'
<1>1. phase \in {"close", "done"} /\ phase' = "done" /\ UNCHANGED <<local, tainted>>
  BY DEF Close, Done, levelVars
<1>2. ~Sweeping' /\ WriterIsTyped'
  BY <1>1 DEF Sweeping, MetaInv, WriterIsTyped
<1>3. CountsAreExact(w'.file) /\ CutsAreBounds(w'.file)
  <2>1. CASE Close
    <3>1. phase = "close" /\ w' = Closed(w)
      BY <2>1 DEF Close
    <3>2. /\ w.open /\ w.latest = Dummy /\ w \in WriterType
          /\ CountsAreExact(w.file) /\ CutsAreBounds(Fixup(w.file))
      BY <3>1 DEF CanonInv, TheWriter, MetaInv, WriterIsTyped
    <3>3. w' = [w EXCEPT !.open = FALSE, !.file = Fixup(@)]
      BY <3>1, <3>2, Zenon DEF Closed
    <3>4. PICK f, g : f = w.file /\ g = Fixup(w.file)
      OBVIOUS
    <3>5. w'.file = g
      BY <3>2, <3>3, <3>4 DEF WriterType
    <3>6. g.nodes = f.nodes /\ g.levels = f.levels /\ g.width = f.width /\ g.terminals = f.terminals
      BY <3>2, <3>4, FixupKeeps DEF WriterType
    <3>7. CountsAreExact(g)
      BY <3>2, <3>4, <3>6, SameCounts
    <3> QED BY <3>2, <3>4, <3>5, <3>7
  <2>2. CASE Done
    <3>1. phase = "done" /\ w' = w
      BY <2>2 DEF Done
    <3> QED BY <3>1 DEF MetaInv
  <2> QED BY <2>1, <2>2
<1> QED BY <1>1, <1>2, <1>3 DEF MetaInv

LEMMA StutterMeta ==
    ASSUME MetaInv, UNCHANGED vars
    PROVE  MetaInv'
<1>1. UNCHANGED <<zdd, input, mapLevel, levels, internal, terminal, pq, phase, label, eHigh,
                  grouping, red1, red2, outId, local, tainted, w>>
  BY DEF vars, levelVars
<1>2. Out' = Out /\ Held' = Held /\ Finished' = Finished
  BY <1>1 DEF Out, Held, Finished
<1>3. WriterIsTyped'
  BY <1>1 DEF MetaInv, WriterIsTyped
<1>4. CASE Sweeping
  <2>1. HeldAreArcs /\ CutsHold /\ LabelCutHolds /\ CountsHold /\ MappedAreHere
    BY <1>4 DEF MetaInv
  <2>2. HeldAreArcs'
    BY <1>2, <2>1 DEF HeldAreArcs
  <2>3. CutsHold'
    BY <1>1, <1>2, <2>1 DEF CutsHold, InputLevels, Uids, IsSwept, Increment, AtALevel
  <2>4. LabelCutHolds' /\ CountsHold' /\ MappedAreHere'
    BY <1>1, <1>2, <2>1 DEF LabelCutHolds, CountsHold, MappedAreHere, AtALevel
  <2>5. Sweeping'
    BY <1>1, <1>4 DEF Sweeping
  <2> QED BY <1>3, <2>2, <2>3, <2>4, <2>5, StillInSweep
<1>5. CASE ~Sweeping
  BY <1>1, <1>3, <1>5 DEF MetaInv, Sweeping
<1> QED BY <1>4, <1>5

LEMMA NextMeta == ReduceInv /\ CanonInv /\ MetaInv /\ [Next]_vars => MetaInv'
<1> SUFFICES ASSUME ReduceInv, CanonInv, MetaInv, [Next]_vars PROVE MetaInv'
  OBVIOUS
<1>1. CASE UNCHANGED vars
  BY <1>1, StutterMeta
<1>2. CASE Next
  <2>1. UNCHANGED <<zdd, input, mapLevel>>
    BY <1>2 DEF Next
  <2>2. CASE ReduceSingleNode
    BY <2>1, <2>2, SingleNodeMeta
  <2>3. CASE BeginLevel
    BY <2>1, <2>3, BeginLevelMeta
  <2>4. CASE PullHigh
    BY <2>1, <2>4, PullHighMeta
  <2>5. CASE PullLow
    BY <2>1, <2>5, PullLowMeta
  <2>6. CASE EndPulls
    BY <2>1, <2>6, EndPullsMeta
  <2>7. CASE Output
    BY <2>1, <2>7, OutputMeta
  <2>8. CASE EndOutput
    BY <2>1, <2>8, EndOutputMeta
  <2>9. CASE ForwardArc
    BY <2>1, <2>9, ForwardArcMeta
  <2>10. CASE NextMapping
    BY <2>1, <2>10, NextMappingMeta
  <2>11. CASE EndLevel
    BY <2>1, <2>11, EndLevelMeta, LastLevelMeta
  <2>12. CASE Close \/ Done
    BY <2>1, <2>12, CloseMeta
  <2> QED BY <1>2, <2>2, <2>3, <2>4, <2>5, <2>6, <2>7, <2>8, <2>9, <2>10, <2>11, <2>12 DEF Next
<1> QED BY <1>1, <1>2

LEMMA InvMeansSound == MetaInv => MetaDataIsSound
BY DEF MetaInv, MetaDataIsSound

(* The sweep leaves sound meta data with its output: the number of nodes   *)
(* of each level, the width and the numbers of arcs to terminals are those *)
(* of the nodes in the file, and no cut of the output is larger than the   *)
(* maximum 1-level and 2-level cuts kept for its kind.  The first is what  *)
(* the arcs still in the queue and the nodes of the level at hand amount   *)
(* to while the sweep goes up, with the arcs of suppressed nodes added for *)
(* every level above (reduce.h:327-353, 400-402, 421-425), the second what *)
(* closing the file makes of it (node_ofstream.h:401-460).                 *)
THEOREM ReducesWithSoundMetaData == Spec => []MetaDataIsSound
<1>1. Init => ReduceInv /\ CanonInv /\ MetaInv
  BY InitInv, InitCanon, InitMeta
<1>2. (ReduceInv /\ CanonInv /\ MetaInv) /\ [Next]_vars => (ReduceInv /\ CanonInv /\ MetaInv)'
  BY NextInv, NextCanon, NextMeta
<1>3. ReduceInv /\ CanonInv /\ MetaInv => MetaDataIsSound
  BY InvMeansSound
<1> QED BY <1>1, <1>2, <1>3, PTL DEF Spec
=============================================================================
