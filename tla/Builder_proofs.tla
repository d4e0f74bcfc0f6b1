--------------------------- MODULE Builder_proofs ---------------------------
(***************************************************************************)
(* What a client of the builder may rely on, for every number of levels,   *)
(* nodes and phases.                                                       *)
(***************************************************************************)
EXTENDS Builder, Denotation_proofs, FunctionTheorems

-----------------------------------------------------------------------------
(* The inductive invariant: the pointers that are out, the file that is    *)
(* being written and the place of the next node in it.  It is stated of a  *)
(* builder x, the pointers P and the unreferenced ones C, as a call passes *)
(* through several builders before it returns.                             *)

IsInnerUid(u) == \E l \in Level, i \in 0 .. MaxId : u = Uid(l, i)
IsTerminalUid(u) == \E v \in BOOLEAN : u = Terminal(v)

UidsOf(S) == {s.uid : s \in S}
OfPhase(S, phase) == {p \in S : p.phase = phase}
NodePointers(P) == {p \in P : IsNode(p.uid)}
Held(x) == NodesOf(x.nw.file)

IsBuilder(x) ==
    x \in [nf : BOOLEAN, nw : {x.nw}, label : Nat, id : Nat, unref : Nat,
           created : BOOLEAN, value : BOOLEAN, phase : Nat]

PointersAreOut(x, P, C) ==
    /\ IsFiniteSet(P) /\ C \subseteq P
    /\ \A p \in P : /\ p = Ptr(p.uid, p.phase)
                    /\ p.phase \in 1 .. x.phase
                    /\ IsInnerUid(p.uid) \/ IsTerminalUid(p.uid)
    /\ \A p \in C : IsInnerUid(p.uid)

(* The file of this phase holds just the nodes that this phase's pointers  *)
(* are to, children before their parents; the unreferenced pointers of the *)
(* phase are to its roots.                                                 *)
FileIsInStep(x, P, C) ==
    /\ x.nw.open => Fresh(x.nw) \/ Filled(x.nw)
    /\ x.nw.file.nodes \in Seq(NodeRecord)
    /\ HoldsNodes(Held(x)) /\ UidsFall(x.nw.file.nodes)
    /\ \A n \in Held(x) : \A u \in Targets(n) :
            IsTerminalUid(u) \/ \E m \in Held(x) : m.uid = u /\ n.uid < u
    /\ UidsOf(NodePointers(OfPhase(P, x.phase))) = UidsOf(Held(x))
    /\ UidsOf(OfPhase(C, x.phase)) = UidsOf(Roots(Held(x)))
    /\ x.unref = Cardinality(OfPhase(C, x.phase))

(* The uids above the next one were given out on its level, in this phase, *)
(* and everything in the file is above the next uid.                       *)
PlaceIsFree(x, P) ==
    /\ x.label \in Level /\ x.id \in 0 .. MaxId
    /\ \A i \in x.id + 1 .. MaxId : Ptr(Uid(x.label, i), x.phase) \in P
    /\ \A n \in Held(x) : Uid(x.label, x.id) < n.uid

IsSound(x, P, C) ==
    /\ IsBuilder(x)
    /\ PointersAreOut(x, P, C)
    /\ x.nf => x.phase > 0 /\ FileIsInStep(x, P, C) /\ PlaceIsFree(x, P)
    /\ ~x.nf => x.nw = Unattached

BuilderInv ==
    /\ zdd \in BOOLEAN
    /\ IsSound(b, ptrs, cells)
    /\ BuiltIsADiagram

-----------------------------------------------------------------------------
(* Pointers and counts                                                     *)

LEMMA UidsAre ==
    ASSUME NEW u
    PROVE  /\ IsInnerUid(u) => u \in Nat /\ IsNode(u) /\ ~IsTerminal(u)
           /\ IsTerminalUid(u) => u \in Nat /\ ~IsNode(u) /\ IsTerminal(u)
<1>1. \A l \in Level : l \in Nat
  BY DiagramAssumption DEF Level
<1> QED BY <1>1, PointersAre, UidIs DEF IsInnerUid, IsTerminalUid

LEMMA PtrIs ==
    ASSUME NEW u, NEW phase
    PROVE  /\ Ptr(u, phase).uid = u /\ Ptr(u, phase).phase = phase
           /\ Ptr(u, phase) = Ptr(Ptr(u, phase).uid, Ptr(u, phase).phase)
BY DEF Ptr

(* Sets whose elements are told apart by their uids are as large as the    *)
(* sets of these uids.                                                     *)
LEMMA CountedByUid ==
    ASSUME NEW S, IsFiniteSet(S), NEW T,
           \A s, t \in S : s.uid = t.uid => s = t,
           \A s, t \in T : s.uid = t.uid => s = t,
           UidsOf(S) = UidsOf(T)
    PROVE  IsFiniteSet(T) /\ Cardinality(T) = Cardinality(S)
<1> DEFINE f == [s \in S |-> CHOOSE t \in T : t.uid = s.uid]
<1>1. \A s \in S : \E t \in T : t.uid = s.uid
  BY DEF UidsOf
<1>2. \A s \in S : f[s] \in T /\ f[s].uid = s.uid
  BY <1>1
<1>3. \A t \in T : \E s \in S : f[s] = t
  <2> SUFFICES ASSUME NEW t \in T PROVE \E s \in S : f[s] = t
    OBVIOUS
  <2>1. PICK s \in S : s.uid = t.uid
    BY DEF UidsOf
  <2>2. f[s] \in T /\ f[s].uid = t.uid
    BY <1>2, <2>1
  <2> QED BY <2>1, <2>2
<1>4. f \in [S -> T]
  BY <1>2
<1> HIDE DEF f
<1>5. \A s, t \in S : f[s] = f[t] => s = t
  BY <1>2
<1>6. f \in Bijection(S, T)
  BY <1>3, <1>4, <1>5, Fun_IsBij
<1>7. ExistsBijection(S, T)
  BY <1>6, Fun_ExistsBij
<1> QED BY <1>7, FS_Bijection, Zenon

LEMMA HeldByUid ==
    ASSUME NEW f, f.nodes \in Seq(NodeRecord), UidsFall(f.nodes)
    PROVE  \A m, n \in NodesOf(f) : m.uid = n.uid => m = n
<1>1. PICK s \in Seq(NodeRecord) : s = f.nodes
  OBVIOUS
<1> SUFFICES ASSUME NEW i \in DOMAIN s, NEW j \in DOMAIN s,
                    s[i].uid = s[j].uid, i # j
             PROVE  FALSE
  BY <1>1 DEF NodesOf
<1>2. i \in Nat /\ j \in Nat /\ s[i].uid \in Nat /\ s[j].uid \in Nat
  <2>1. PICK m \in Nat : m = Len(s) /\ DOMAIN s = 1 .. m
    BY LenProperties
  <2>2. s[i] \in NodeRecord /\ s[j] \in NodeRecord
    BY <2>1, ElementOfSeq
  <2> QED BY <2>1, <2>2 DEF NodeRecord
<1>3. i < j \/ j < i
  BY <1>2
<1>4. s[i].uid > s[j].uid \/ s[j].uid > s[i].uid
  BY <1>1, <1>3 DEF UidsFall
<1> QED BY <1>2, <1>4

(* A child of a node in the file is a terminal or in the file.             *)
LEMMA InnerIsHeld ==
    ASSUME NEW x, NEW P, NEW C, FileIsInStep(x, P, C)
    PROVE  InnerNodes(x.nw.file) = Held(x)
BY InnerOfHeld DEF FileIsInStep, Held

-----------------------------------------------------------------------------
(* What the parts of a call leave of the invariant                         *)

LEMMA AttachedIsSound ==
    ASSUME IsSound(b, ptrs, cells)
    PROVE  IsSound(Attached, ptrs, cells) /\ Attached.nf
<1>1. CASE b.nf
  BY <1>1 DEF Attached
<1>2. CASE ~b.nf
  <2>1. PICK w : w = Opened(EmptyFile)
    OBVIOUS
  <2>2. w \in WriterType /\ w.open /\ Fresh(w) /\ w.file.nodes = << >>
    BY <2>1, OpenedIs, OpenedIsFresh
  <2>3. PICK x : x = [nf |-> TRUE, nw |-> w, label |-> Levels - 1, id |-> MaxId,
                      unref |-> 0, created |-> FALSE, value |-> FALSE, phase |-> b.phase + 1]
    OBVIOUS
  <2>4. Attached = x
    BY <1>2, <2>1, <2>3 DEF Attached
  <2>5. b.phase \in Nat
    BY DEF IsSound, IsBuilder
  <2>6. /\ x.nf /\ x.nw = w /\ x.label = Levels - 1 /\ x.id = MaxId /\ x.unref = 0
        /\ x.phase = b.phase + 1
    BY <2>3
  <2>7. IsBuilder(x)
    BY <2>3, <2>5, DiagramAssumption DEF IsBuilder
  <2>8. \A p \in ptrs : p.phase # x.phase /\ p.phase \in 1 .. x.phase
    BY <2>5, <2>6 DEF IsSound, PointersAreOut
  <2>9. PointersAreOut(x, ptrs, cells)
    BY <2>8 DEF IsSound, PointersAreOut
  <2>10. Held(x) = {}
    BY <2>2, <2>6 DEF Held, NodesOf
  <2>11. OfPhase(ptrs, x.phase) = {} /\ OfPhase(cells, x.phase) = {}
    BY <2>8 DEF OfPhase, IsSound, PointersAreOut
  <2>12. FileIsInStep(x, ptrs, cells)
    <3>1. /\ UidsOf(NodePointers({})) = {} /\ UidsOf({}) = {} /\ Roots({}) = {}
      BY DEF UidsOf, NodePointers, Roots
    <3>2. HoldsNodes({}) /\ Cardinality({}) = 0
      BY FS_EmptySet DEF HoldsNodes
    <3>3. UidsFall(x.nw.file.nodes) /\ x.nw.file.nodes \in Seq(NodeRecord)
      <4>1. DOMAIN << >> = {} /\ << >> \in Seq(NodeRecord)
        OBVIOUS
      <4> QED BY <2>2, <2>6, <4>1, Zenon DEF UidsFall
    <3> QED BY <2>2, <2>6, <2>10, <2>11, <3>1, <3>2, <3>3 DEF FileIsInStep
  <2>13. PlaceIsFree(x, ptrs)
    <3>1. Levels - 1 \in Level /\ MaxId \in 0 .. MaxId /\ MaxId + 1 .. MaxId = {}
      BY DiagramAssumption DEF Level
    <3> QED BY <2>6, <2>10, <3>1 DEF PlaceIsFree
  <2> QED BY <2>4, <2>5, <2>6, <2>7, <2>9, <2>12, <2>13 DEF IsSound
<1> QED BY <1>1, <1>2

(* The label and identifier for a node move up only.                       *)
LEMMA MovedIsSound ==
    ASSUME IsSound(Attached, ptrs, cells), Attached.nf,
           NEW label \in Level, label <= Attached.label
    PROVE  /\ IsSound(Moved(label), ptrs, cells) /\ Moved(label).nf
           /\ Moved(label).label = label /\ Moved(label).phase = Attached.phase
           /\ Moved(label).nw = Attached.nw
<1>1. PICK x : x = Attached
  OBVIOUS
<1>2. IsBuilder(x) /\ x.label \in Nat /\ label \in Nat /\ x.id \in 0 .. MaxId /\ MaxId \in Nat
  BY <1>1, DiagramAssumption DEF IsSound, IsBuilder, PlaceIsFree, Level
<1>3. CASE label < x.label
  <2>1. PICK y : y = [x EXCEPT !.label = label, !.id = MaxId]
    OBVIOUS
  <2>2. Moved(label) = y
    BY <1>1, <1>3, <2>1 DEF Moved
  <2>3. /\ y.nf = x.nf /\ y.nw = x.nw /\ y.unref = x.unref /\ y.phase = x.phase
        /\ y.label = label /\ y.id = MaxId /\ IsBuilder(y)
    BY <1>2, <2>1 DEF IsBuilder
  <2>4. PointersAreOut(y, ptrs, cells) /\ FileIsInStep(y, ptrs, cells) /\ y.phase > 0
    BY <1>1, <2>3 DEF IsSound, PointersAreOut, FileIsInStep, Held
  <2>5. PlaceIsFree(y, ptrs)
    <3>1. MaxId \in 0 .. MaxId /\ MaxId + 1 .. MaxId = {}
      BY <1>2
    <3>2. Uid(label, MaxId) < Uid(x.label, x.id)
      BY <1>2, <1>3, <3>1, UidsAreOrdered
    <3>3. /\ Uid(label, MaxId) \in Nat /\ Uid(x.label, x.id) \in Nat
      BY <1>2, <3>1, UidIs
    <3>4. \A n \in Held(y) : n.uid \in Nat /\ Uid(x.label, x.id) < n.uid
      BY <1>1, <2>3, InnerIs DEF IsSound, PlaceIsFree, FileIsInStep, HoldsNodes, Held, NodeRecord
    <3>5. \A n \in Held(y) : Uid(label, MaxId) < n.uid
      BY <3>2, <3>3, <3>4
    <3> QED BY <2>3, <3>1, <3>5 DEF PlaceIsFree
  <2> QED BY <1>1, <2>2, <2>3, <2>4, <2>5 DEF IsSound
<1>4. CASE ~(label < x.label)
  <2>1. label = x.label
    BY <1>1, <1>2, <1>4
  <2> QED BY <1>1, <1>4, <2>1 DEF Moved
<1> QED BY <1>3, <1>4

LEMMA NotedIsSound ==
    ASSUME NEW x, NEW P, NEW C, IsSound(x, P, C), x.nf, NEW v \in BOOLEAN
    PROVE  LET y == [x EXCEPT !.created = TRUE, !.value = v]
           IN  IsSound(y, P, C) /\ y.nf /\ y.phase = x.phase
<1>1. PICK y : y = [x EXCEPT !.created = TRUE, !.value = v]
  OBVIOUS
<1>2. /\ y.nf = x.nf /\ y.nw = x.nw /\ y.unref = x.unref /\ y.phase = x.phase
      /\ y.label = x.label /\ y.id = x.id /\ IsBuilder(y)
  BY <1>1 DEF IsSound, IsBuilder
<1>3. PointersAreOut(y, P, C) /\ FileIsInStep(y, P, C) /\ PlaceIsFree(y, P) /\ y.phase > 0
  BY <1>2 DEF IsSound, PointersAreOut, FileIsInStep, PlaceIsFree, Held
<1> QED BY <1>1, <1>2, <1>3 DEF IsSound

(* A pointer to a terminal may be handed out at any time.                  *)
LEMMA TerminalHandedOut ==
    ASSUME NEW x, NEW P, NEW C, IsSound(x, P, C), x.nf, NEW v \in BOOLEAN
    PROVE  IsSound(x, P \cup {Ptr(Terminal(v), x.phase)}, C)
<1>1. PICK p : p = Ptr(Terminal(v), x.phase)
  OBVIOUS
<1>2. p.uid = Terminal(v) /\ p.phase = x.phase /\ p = Ptr(p.uid, p.phase) /\ IsTerminalUid(p.uid)
  BY <1>1, PtrIs DEF IsTerminalUid
<1>3. PICK Q : Q = P \cup {p}
  OBVIOUS
<1>4. PointersAreOut(x, Q, C)
  <2>1. IsFiniteSet(Q)
    BY <1>3, FS_AddElement, Zenon DEF IsSound, PointersAreOut
  <2>2. x.phase \in 1 .. x.phase
    BY DEF IsSound, IsBuilder
  <2> QED BY <1>2, <1>3, <2>1, <2>2 DEF IsSound, PointersAreOut
<1>5. NodePointers(OfPhase(Q, x.phase)) = NodePointers(OfPhase(P, x.phase))
  BY <1>2, <1>3, UidsAre DEF NodePointers, OfPhase
<1>6. FileIsInStep(x, Q, C)
  BY <1>5, Zenon DEF IsSound, FileIsInStep
<1>7. PlaceIsFree(x, Q)
  BY <1>3 DEF IsSound, PlaceIsFree
<1> QED BY <1>1, <1>3, <1>4, <1>6, <1>7 DEF IsSound

LEMMA ArgumentHandedOut ==
    ASSUME NEW x, IsSound(x, ptrs, cells), x.nf, x.phase = Attached.phase, NEW p \in Arguments
    PROVE  IsSound(x, ptrs \cup {p}, cells)
<1>1. CASE p \in ptrs
  <2>1. ptrs \cup {p} = ptrs
    BY <1>1
  <2> QED BY <2>1
<1>2. CASE \E v \in BOOLEAN : p = Ptr(Terminal(v), Attached.phase)
  BY <1>2, TerminalHandedOut
<1> QED BY <1>1, <1>2 DEF Arguments

(* A closed writer keeps its nodes.                                        *)
LEMMA ClosedIsSound ==
    ASSUME NEW x, NEW P, NEW C, IsSound(x, P, C), x.nf
    PROVE  IsSound([x EXCEPT !.nw = Closed(x.nw)], P, C)
<1>1. CASE ~x.nw.open
  <2>1. [x EXCEPT !.nw = Closed(x.nw)] = x
    BY <1>1 DEF Closed, IsSound, IsBuilder
  <2> QED BY <2>1
<1>2. CASE x.nw.open
  <2>1. PICK w : w = Closed(x.nw)
    OBVIOUS
  <2>2. ~w.open /\ w.file.nodes = x.nw.file.nodes
    BY <1>2, <2>1, ClosedIsExact, EmptyIsExact DEF IsSound, FileIsInStep
  <2>3. PICK y : y = [x EXCEPT !.nw = w]
    OBVIOUS
  <2>4. /\ y.nf = x.nf /\ y.nw = w /\ y.unref = x.unref /\ y.phase = x.phase
        /\ y.label = x.label /\ y.id = x.id /\ IsBuilder(y)
    BY <2>3 DEF IsSound, IsBuilder
  <2>5. Held(y) = Held(x)
    BY <2>2, <2>4 DEF Held, NodesOf
  <2>6. PointersAreOut(y, P, C) /\ PlaceIsFree(y, P) /\ y.phase > 0
    BY <2>4, <2>5 DEF IsSound, PointersAreOut, PlaceIsFree
  <2>7. FileIsInStep(y, P, C)
    BY <2>2, <2>4, <2>5 DEF IsSound, FileIsInStep
  <2> QED BY <2>1, <2>3, <2>4, <2>6, <2>7 DEF IsSound
<1> QED BY <1>1, <1>2

(* A detached builder has pointers out and nothing else.                   *)
LEMMA DetachedIsSound ==
    ASSUME NEW x, NEW P, NEW C, IsSound(x, P, C)
    PROVE  IsSound(Detached(x), P, C)
<1>1. PICK y : y = [x EXCEPT !.nw = Unattached, !.nf = FALSE]
  OBVIOUS
<1>2. ~y.nf /\ y.nw = Unattached /\ y.phase = x.phase /\ IsBuilder(y)
  BY <1>1 DEF IsSound, IsBuilder
<1>3. PointersAreOut(y, P, C)
  BY <1>2 DEF IsSound, PointersAreOut
<1> QED BY <1>1, <1>2, <1>3 DEF IsSound, Detached

-----------------------------------------------------------------------------
(* A node that is pushed                                                   *)

(* With fewer nodes than identifiers, the level has an identifier left.    *)
LEMMA IdentifiersSuffice ==
    ASSUME NEW x, NEW P, NEW C, IsSound(x, P, C), x.nf, zdd \in BOOLEAN,
           Cardinality(NodePointers(P)) < MaxNodes[zdd]
    PROVE  x.id > 0
<1> DEFINE I == x.id + 1 .. MaxId
           f == [i \in I |-> Ptr(Uid(x.label, i), x.phase)]
<1>1. MaxId \in Nat /\ x.id \in 0 .. MaxId /\ x.label \in Level /\ x.label \in Nat
  BY DiagramAssumption DEF IsSound, PlaceIsFree, Level
<1>2. MaxNodes[zdd] \in 1 .. MaxId
  BY BoundsAssumption
<1>3. IsFiniteSet(NodePointers(P)) /\ Cardinality(NodePointers(P)) \in Nat
  <2>1. NodePointers(P) \subseteq P /\ IsFiniteSet(P)
    BY DEF NodePointers, IsSound, PointersAreOut
  <2> QED BY <2>1, FS_Subset, FS_CardinalityType, Zenon
<1>4. ASSUME NEW i \in I
      PROVE  f[i] \in NodePointers(P) /\ f[i].uid = Uid(x.label, i) /\ IdOf(f[i].uid) = i
  <2>1. i \in 0 .. MaxId
    BY <1>1
  <2>2. f[i] = Ptr(Uid(x.label, i), x.phase) /\ f[i] \in P
    BY DEF IsSound, PlaceIsFree
  <2>3. IsNode(Uid(x.label, i)) /\ IdOf(Uid(x.label, i)) = i
    BY <1>1, <2>1, PointersAre, UidIs
  <2> QED BY <2>2, <2>3, PtrIs DEF NodePointers
<1>5. f \in [I -> NodePointers(P)]
  BY <1>4
<1> HIDE DEF f
<1>6. \A i, j \in I : f[i] = f[j] => i = j
  BY <1>4
<1>7. f \in Injection(I, NodePointers(P))
  BY <1>5, <1>6, Fun_IsInj
<1>8. Cardinality(I) <= Cardinality(NodePointers(P))
  BY <1>3, <1>7, FS_Injection, Zenon
<1>9. Cardinality(I) = IF x.id + 1 > MaxId THEN 0 ELSE MaxId - (x.id + 1) + 1
  <2>1. x.id + 1 \in Int /\ MaxId \in Int
    BY <1>1
  <2> QED BY <2>1, FS_Interval, Zenon
<1> QED BY <1>1, <1>2, <1>3, <1>8, <1>9

(* A pointer that a legal call names as a child.                           *)
IsChild(p, x, P) ==
    /\ p = Ptr(p.uid, x.phase)
    /\ IsTerminalUid(p.uid) \/ (p \in P /\ IsInnerUid(p.uid))

LEMMA ChildIsHeld ==
    ASSUME NEW x, NEW P, NEW C, IsSound(x, P, C), x.nf, NEW p, IsChild(p, x, P)
    PROVE  /\ p.uid \in Nat /\ p.uid # Nil /\ p.phase = x.phase
           /\ IsTerminalUid(p.uid) \/ \E m \in Held(x) : m.uid = p.uid
<1>1. p.uid \in Nat /\ p.uid # Nil
  BY UidsAre, PointersAre DEF IsChild
<1>2. p.phase = x.phase
  BY PtrIs DEF IsChild
<1>3. ASSUME p \in P, IsInnerUid(p.uid)
      PROVE  \E m \in Held(x) : m.uid = p.uid
  <2>1. p \in NodePointers(OfPhase(P, x.phase))
    BY <1>2, <1>3, UidsAre DEF NodePointers, OfPhase
  <2>2. p.uid \in UidsOf(NodePointers(OfPhase(P, x.phase)))
    BY <2>1, Zenon DEF UidsOf
  <2>3. p.uid \in UidsOf(Held(x))
    BY <2>2 DEF IsSound, FileIsInStep
  <2> QED BY <2>3, Zenon DEF UidsOf
<1> QED BY <1>1, <1>2, <1>3 DEF IsChild

(* The new node is a root, and its children are roots no longer.           *)
LEMMA RootsOfOneMore ==
    ASSUME NEW N, NEW n, n \notin N,
           \A m \in N : n.uid \notin Targets(m), n.uid \notin Targets(n)
    PROVE  Roots(N \cup {n}) = {m \in Roots(N) : m.uid \notin Targets(n)} \cup {n}
BY DEF Roots

LEMMA UidsOfFiltered ==
    ASSUME NEW K, NEW V, NEW n, NEW S, \A m : m \in S <=> m = n \/ (m \in K /\ m.uid \notin V)
    PROVE  UidsOf(S) = (UidsOf(K) \ V) \cup {n.uid}
<1>1. ASSUME NEW u \in UidsOf(S)
      PROVE  u \in (UidsOf(K) \ V) \cup {n.uid}
  BY DEF UidsOf
<1>2. ASSUME NEW u \in UidsOf(K) \ V
      PROVE  u \in UidsOf(S)
  BY DEF UidsOf
<1>3. n.uid \in UidsOf(S)
  BY DEF UidsOf
<1> QED BY <1>1, <1>2, <1>3

LEMMA RootsByUid ==
    ASSUME NEW N, NEW n, n \notin N,
           \A m \in N : n.uid \notin Targets(m), n.uid \notin Targets(n)
    PROVE  UidsOf(Roots(N \cup {n})) = (UidsOf(Roots(N)) \ Targets(n)) \cup {n.uid}
<1>1. PICK K, V, S : K = Roots(N) /\ V = Targets(n) /\ S = Roots(N \cup {n})
  OBVIOUS
<1>2. \A m : m \in S <=> m = n \/ (m \in K /\ m.uid \notin V)
  BY <1>1, RootsOfOneMore
<1>3. UidsOf(S) = (UidsOf(K) \ V) \cup {n.uid}
  BY <1>2, UidsOfFiltered, SMT
<1> QED BY <1>1, <1>3

LEMMA CountOfUnreferenced ==
    ASSUME NEW U, IsFiniteSet(U), NEW R, R \subseteq U, NEW p, p \notin U
    PROVE  /\ Cardinality((U \ R) \cup {p}) = Cardinality(U) + 1 - Cardinality(R)
           /\ Cardinality((U \ R) \cup {p}) \in Nat
<1>1. IsFiniteSet(R) /\ IsFiniteSet(U \ R)
  BY FS_Subset, FS_Difference, Zenon
<1>2. Cardinality(U \ R) = Cardinality(U) - Cardinality(R)
  <2>1. Cardinality(U \ R) = Cardinality(U) - Cardinality(U \cap R)
    BY <1>1, FS_Difference, Zenon
  <2>2. U \cap R = R
    OBVIOUS
  <2> QED BY <2>1, <2>2
<1>3. /\ IsFiniteSet((U \ R) \cup {p})
      /\ Cardinality((U \ R) \cup {p}) = Cardinality(U \ R) + 1
  <2>1. p \notin U \ R
    OBVIOUS
  <2> QED BY <1>1, <2>1, FS_AddElement, Zenon
<1>4. /\ Cardinality(U) \in Nat /\ Cardinality(R) \in Nat /\ Cardinality(U \ R) \in Nat
      /\ Cardinality((U \ R) \cup {p}) \in Nat
  BY <1>1, <1>3, FS_CardinalityType, Zenon
<1> QED BY <1>2, <1>3, <1>4

(* What AddNode knows when it pushes, and the builder after it has.        *)
MayPushTo(x, P, C, low, high) ==
    /\ IsSound(x, P, C) /\ x.nf /\ x.nw.open /\ zdd \in BOOLEAN
    /\ IsChild(low, x, P) /\ IsChild(high, x, P)
    /\ Cardinality(NodePointers(P)) < MaxNodes[zdd]

NextNode(x, low, high) == Node(Uid(x.label, x.id), low.uid, high.uid)

Pushed(x, C, low, high) ==
    [x EXCEPT !.nw = Push(x.nw, NextNode(x, low, high)), !.id = x.id - 1,
              !.unref = x.unref + 1 - Cardinality({low, high} \cap C)]

LEMMA PushedIsSound ==
    ASSUME NEW x, NEW P, NEW C, NEW low, NEW high, MayPushTo(x, P, C, low, high)
    PROVE  LET p == Ptr(NextNode(x, low, high).uid, x.phase)
           IN  IsSound(Pushed(x, C, low, high), P \cup {p}, (C \ {low, high}) \cup {p})
<1>0. /\ IsSound(x, P, C) /\ x.nf /\ x.nw.open /\ zdd \in BOOLEAN
      /\ IsChild(low, x, P) /\ IsChild(high, x, P)
      /\ Cardinality(NodePointers(P)) < MaxNodes[zdd]
  BY DEF MayPushTo
<1>p. PICK n, p, y :
        /\ n = NextNode(x, low, high) /\ n = Node(Uid(x.label, x.id), low.uid, high.uid)
        /\ p = Ptr(n.uid, x.phase)
        /\ y = Pushed(x, C, low, high)
        /\ y = [x EXCEPT !.nw = Push(x.nw, n), !.id = x.id - 1,
                         !.unref = x.unref + 1 - Cardinality({low, high} \cap C)]
  BY DEF NextNode, Pushed
<1> DEFINE N == Held(x)
           Q == P \cup {p}
           D == (C \ {low, high}) \cup {p}
           U == OfPhase(C, x.phase)
           R == {low, high} \cap C
<1>1. MaxId \in Nat /\ x.id \in 0 .. MaxId /\ x.id > 0 /\ x.label \in Level /\ x.label \in Nat
  BY <1>0, IdentifiersSuffice, DiagramAssumption DEF IsSound, PlaceIsFree, Level
<1>2. /\ PointersAreOut(x, P, C) /\ FileIsInStep(x, P, C) /\ PlaceIsFree(x, P)
      /\ IsBuilder(x) /\ x.phase > 0
  BY <1>0 DEF IsSound
<1>3. /\ low.uid \in Nat /\ low.uid # Nil /\ high.uid \in Nat /\ high.uid # Nil
      /\ low.phase = x.phase /\ high.phase = x.phase
  BY <1>0, ChildIsHeld
<1>4. /\ n \in NodeRecord /\ n.uid = Uid(x.label, x.id) /\ IsInner(n)
      /\ n.low = low.uid /\ n.high = high.uid /\ n.uid \in Nat /\ IsInnerUid(n.uid)
  <2>1. Uid(x.label, x.id) \in Nat
    BY <1>1, UidIs
  <2> QED BY <1>p, <1>1, <1>3, <2>1, NodeIs, SMTT(30) DEF IsInner, IsInnerUid
<1>5. p.uid = n.uid /\ p.phase = x.phase /\ p = Ptr(p.uid, p.phase)
  BY <1>p, PtrIs
<1>6. \A m \in N : n.uid < m.uid /\ IsInner(m) /\ m \in NodeRecord /\ m.uid \in Nat
  BY <1>2, <1>4, InnerIs DEF PlaceIsFree, FileIsInStep, HoldsNodes, NodeRecord
<1>7. n \notin N
  BY <1>4, <1>6
<1>8. PICK w : w = Push(x.nw, n)
  OBVIOUS
<1>9. Filled(w) /\ w.open /\ NodesOf(w.file) = N \cup {n}
  <2>1. CASE Fresh(x.nw)
    <3>1. N = {}
      BY <2>1 DEF Fresh, Held, NodesOf
    <3> QED BY <1>0, <1>4, <1>8, <2>1, <3>1, FirstPush
  <2>2. CASE Filled(x.nw)
    <3>1. x.nw.latest \in N
      BY <2>2 DEF Filled, Held
    <3> QED BY <1>0, <1>4, <1>6, <1>8, <2>2, <3>1, NextPush DEF Held
  <2> QED BY <1>0, <1>2, <2>1, <2>2 DEF FileIsInStep
<1>10. PICK c : c = Cardinality(R)
  OBVIOUS
<1>11. R \subseteq U
  BY <1>3 DEF OfPhase
<1>12. p \notin P
  <2>1. p.uid \notin UidsOf(N)
    BY <1>4, <1>5, <1>6 DEF UidsOf
  <2>2. p \in P => p \in NodePointers(OfPhase(P, x.phase))
    BY <1>4, <1>5, UidsAre DEF NodePointers, OfPhase
  <2>3. UidsOf(NodePointers(OfPhase(P, x.phase))) = UidsOf(N)
    BY <1>2 DEF FileIsInStep
  <2>4. p \in P => p.uid \in UidsOf(NodePointers(OfPhase(P, x.phase)))
    BY <2>2, Zenon DEF UidsOf
  <2> QED BY <2>1, <2>3, <2>4
<1>13. OfPhase(D, x.phase) = (U \ R) \cup {p}
  BY <1>5 DEF OfPhase
<1>14. /\ x.unref + 1 - c = Cardinality(OfPhase(D, x.phase))
       /\ x.unref + 1 - c \in Nat
  <2>1. IsFiniteSet(U) /\ p \notin U
    <3>1. U \subseteq P /\ IsFiniteSet(P)
      BY <1>2 DEF OfPhase, PointersAreOut
    <3> QED BY <1>12, <3>1, FS_Subset, Zenon
  <2>2. x.unref = Cardinality(U)
    BY <1>2 DEF FileIsInStep
  <2> HIDE DEF U, R, D
  <2> QED BY <1>10, <1>11, <1>13, <2>1, <2>2, CountOfUnreferenced
<1>15. y = [x EXCEPT !.nw = w, !.id = x.id - 1, !.unref = x.unref + 1 - c]
  BY <1>p, <1>8, <1>10
<1>16. /\ y.nf = x.nf /\ y.nw = w /\ y.phase = x.phase /\ y.label = x.label
       /\ y.id = x.id - 1 /\ y.unref = x.unref + 1 - c /\ IsBuilder(y)
  <2>1. x.id - 1 \in Nat
    BY <1>1
  <2> QED BY <1>2, <1>14, <1>15, <2>1 DEF IsBuilder
<1>17. Held(y) = N \cup {n}
  BY <1>9, <1>16 DEF Held
<1>18. PointersAreOut(y, Q, D)
  <2>1. IsFiniteSet(Q)
    BY <1>2, FS_AddElement, Zenon DEF PointersAreOut
  <2>2. x.phase \in 1 .. x.phase
    BY <1>2 DEF IsBuilder
  <2> QED BY <1>2, <1>4, <1>5, <1>16, <2>1, <2>2 DEF PointersAreOut
<1>19. UidsOf(NodePointers(OfPhase(Q, x.phase))) = UidsOf(N \cup {n})
  <2>1. NodePointers(OfPhase(Q, x.phase)) = NodePointers(OfPhase(P, x.phase)) \cup {p}
    BY <1>4, <1>5, UidsAre DEF NodePointers, OfPhase
  <2>2. /\ UidsOf(NodePointers(OfPhase(P, x.phase)) \cup {p})
            = UidsOf(NodePointers(OfPhase(P, x.phase))) \cup {p.uid}
        /\ UidsOf(N \cup {n}) = UidsOf(N) \cup {n.uid}
    BY DEF UidsOf
  <2>3. UidsOf(NodePointers(OfPhase(P, x.phase))) = UidsOf(N)
    BY <1>2 DEF FileIsInStep
  <2> QED BY <1>5, <2>1, <2>2, <2>3, Zenon
<1>20. \A m \in N \cup {n} : \A u \in Targets(m) :
          IsTerminalUid(u) \/ \E k \in N : k.uid = u /\ m.uid < u
  <2>1. ASSUME NEW m \in N, NEW u \in Targets(m)
        PROVE  IsTerminalUid(u) \/ \E k \in N : k.uid = u /\ m.uid < u
    BY <1>2 DEF FileIsInStep
  <2>2. ASSUME NEW u \in Targets(n)
        PROVE  IsTerminalUid(u) \/ \E k \in N : k.uid = u /\ n.uid < u
    <3>1. u = low.uid \/ u = high.uid
      BY <1>4 DEF Targets
    <3>2. IsTerminalUid(u) \/ \E k \in N : k.uid = u
      BY <1>0, <3>1, ChildIsHeld
    <3> QED BY <1>6, <3>2
  <2> QED BY <2>1, <2>2
<1>21. UidsOf(OfPhase(D, x.phase)) = UidsOf(Roots(N \cup {n}))
  <2>1. \A m \in N : n.uid \notin Targets(m)
    <3> SUFFICES ASSUME NEW m \in N, n.uid \in Targets(m) PROVE FALSE
      OBVIOUS
    <3>1. ~IsTerminalUid(n.uid)
      BY <1>4, UidsAre
    <3>2. PICK k \in N : k.uid = n.uid
      BY <1>20, <3>1
    <3> QED BY <1>4, <1>6, <3>2
  <2>2. n.uid \notin Targets(n)
    <3>1. ~IsTerminalUid(n.uid)
      BY <1>4, UidsAre
    <3>2. n.uid \in Targets(n) => \E k \in N : k.uid = n.uid
      BY <1>20, <3>1
    <3> QED BY <1>4, <1>6, <3>2
  <2>3. UidsOf(Roots(N \cup {n})) = (UidsOf(Roots(N)) \ Targets(n)) \cup {n.uid}
    <3> HIDE DEF N
    <3> QED BY <1>7, <2>1, <2>2, RootsByUid
  <2>4. Targets(n) = {low.uid, high.uid}
    BY <1>4 DEF Targets
  <2>5. UidsOf(Roots(N \cup {n})) = (UidsOf(Roots(N)) \ {low.uid, high.uid}) \cup {n.uid}
    BY <2>3, <2>4
  <2>6. \A q \in U : (q \in R <=> q.uid \in {low.uid, high.uid}) /\ q = Ptr(q.uid, x.phase)
    <3> SUFFICES ASSUME NEW q \in U
                 PROVE  (q \in R <=> q.uid \in {low.uid, high.uid}) /\ q = Ptr(q.uid, x.phase)
      OBVIOUS
    <3>1. q \in C /\ q = Ptr(q.uid, x.phase)
      BY <1>2 DEF OfPhase, PointersAreOut
    <3>2. low = Ptr(low.uid, x.phase) /\ high = Ptr(high.uid, x.phase)
      BY <1>0 DEF IsChild
    <3> QED BY <3>1, <3>2
  <2>7. UidsOf(OfPhase(D, x.phase)) = (UidsOf(U) \ {low.uid, high.uid}) \cup {n.uid}
    <3> HIDE DEF U, R, D
    <3>1. UidsOf((U \ R) \cup {p}) = (UidsOf(U) \ {low.uid, high.uid}) \cup {p.uid}
      BY <1>11, <2>6 DEF UidsOf
    <3> QED BY <1>5, <1>13, <3>1
  <2>8. UidsOf(U) = UidsOf(Roots(N))
    BY <1>2 DEF FileIsInStep
  <2> QED BY <2>5, <2>7, <2>8
<1>22. FileIsInStep(y, Q, D)
  <2>1. HoldsNodes(N \cup {n}) /\ UidsFall(w.file.nodes) /\ w.file.nodes \in Seq(NodeRecord)
    BY <1>9 DEF Filled, WriterType, FileType
  <2>2. \A m \in N \cup {n} : \A u \in Targets(m) :
            IsTerminalUid(u) \/ \E k \in N \cup {n} : k.uid = u /\ m.uid < u
    BY <1>20
  <2> HIDE DEF N, Q, D
  <2> QED BY <1>9, <1>14, <1>16, <1>17, <1>19, <1>21, <2>1, <2>2, Zenon DEF FileIsInStep
<1>23. PlaceIsFree(y, Q)
  <2>1. x.id - 1 \in 0 .. MaxId
    BY <1>1
  <2>2. ASSUME NEW i \in x.id - 1 + 1 .. MaxId
        PROVE  Ptr(Uid(x.label, i), x.phase) \in Q
    <3>1. i = x.id \/ i \in x.id + 1 .. MaxId
      BY <1>1
    <3> QED BY <1>p, <1>2, <1>4, <3>1 DEF PlaceIsFree
  <2>3. Uid(x.label, x.id - 1) < n.uid /\ Uid(x.label, x.id - 1) \in Nat
    <3>1. PICK j \in 0 .. MaxId : j = x.id - 1 /\ j < x.id
      BY <1>1, <2>1
    <3>2. Uid(x.label, j) < Uid(x.label, x.id) /\ Uid(x.label, j) \in Nat
      <4>1. PICK l \in Nat, i \in 0 .. MaxId : l = x.label /\ i = x.id
        BY <1>1
      <4>2. Uid(l, j) < Uid(l, i) <=> l < l \/ (l = l /\ j < i)
        BY UidsAreOrdered, Zenon
      <4> QED BY <3>1, <4>1, <4>2, UidIs
    <3> QED BY <1>4, <3>1, <3>2
  <2>4. \A m \in N \cup {n} : Uid(x.label, x.id - 1) < m.uid
    BY <1>4, <1>6, <2>3
  <2> HIDE DEF N, Q
  <2> QED BY <1>1, <1>16, <1>17, <2>1, <2>2, <2>4 DEF PlaceIsFree
<1>24. IsSound(y, Q, D)
  BY <1>0, <1>2, <1>16, <1>18, <1>22, <1>23 DEF IsSound
<1> QED BY <1>p, <1>24

-----------------------------------------------------------------------------
(* What the invariant says of the file and of what is built from it        *)

LEMMA UnreferencedIsRoots ==
    ASSUME NEW x, NEW P, NEW C, IsSound(x, P, C), x.nf
    PROVE  /\ IsFiniteSet(Roots(Held(x))) /\ x.unref = Cardinality(Roots(Held(x)))
           /\ x.unref \in Nat
<1>1. PICK U, R : U = OfPhase(C, x.phase) /\ R = Roots(Held(x))
  OBVIOUS
<1>2. /\ PointersAreOut(x, P, C) /\ FileIsInStep(x, P, C) /\ x.unref \in Nat
  BY DEF IsSound, IsBuilder
<1>3. IsFiniteSet(U)
  <2>1. U \subseteq P /\ IsFiniteSet(P)
    BY <1>1, <1>2 DEF OfPhase, PointersAreOut
  <2> QED BY <2>1, FS_Subset, Zenon
<1>4. \A s, t \in U : s.uid = t.uid => s = t
  <2> SUFFICES ASSUME NEW s \in U, NEW t \in U, s.uid = t.uid PROVE s = t
    OBVIOUS
  <2>1. s = Ptr(s.uid, x.phase) /\ t = Ptr(t.uid, x.phase)
    BY <1>1, <1>2 DEF OfPhase, PointersAreOut
  <2> QED BY <2>1
<1>5. \A s, t \in R : s.uid = t.uid => s = t
  <2>1. R \subseteq Held(x)
    BY <1>1 DEF Roots
  <2> QED BY <1>2, <2>1, HeldByUid DEF FileIsInStep, Held
<1>6. UidsOf(U) = UidsOf(R) /\ x.unref = Cardinality(U)
  BY <1>1, <1>2 DEF FileIsInStep
<1>7. IsFiniteSet(R) /\ Cardinality(R) = Cardinality(U)
  BY <1>3, <1>4, <1>5, <1>6, CountedByUid
<1> QED BY <1>1, <1>2, <1>6, <1>7

LEMMA SoundIsOrdered ==
    ASSUME IsSound(b, ptrs, cells)
    PROVE  UnreferencedAreRoots /\ PushedTopologically
<1>5. CASE ~b.nf
  <2>1. b.nw.file.nodes = << >>
    BY <1>5, OpenedIs DEF IsSound, Unattached, WriterType
  <2>2. DOMAIN << >> = {}
    OBVIOUS
  <2> QED BY <1>5, <2>1, <2>2, Zenon
          DEF UnreferencedAreRoots, PushedTopologically, ChildrenAreInTheFile
<1>6. CASE b.nf
  <2>1. FileIsInStep(b, ptrs, cells)
    BY <1>6 DEF IsSound
  <2>2. Nodes = Held(b)
    BY <2>1, InnerIsHeld DEF Nodes
  <2>3. b.unref = Cardinality(Roots(Nodes))
    BY <1>6, <2>2, UnreferencedIsRoots
  <2>4. \A n \in Nodes : \A p \in Targets(n) : IsNode(p) => \E m \in Nodes : m.uid = p
    BY <2>1, <2>2, UidsAre DEF FileIsInStep
  <2>5. \A i, j \in DOMAIN b.nw.file.nodes :
            i < j => b.nw.file.nodes[i].uid > b.nw.file.nodes[j].uid
    BY <2>1, Zenon DEF FileIsInStep, UidsFall
  <2> QED BY <2>3, <2>4, <2>5, Zenon
          DEF UnreferencedAreRoots, PushedTopologically, ChildrenAreInTheFile
<1> QED BY <1>5, <1>6

(* The latest node has no parent yet.                                      *)
LEMMA LatestIsRoot ==
    ASSUME NEW x, NEW P, NEW C, IsSound(x, P, C), x.nf, Filled(x.nw)
    PROVE  x.nw.latest \in Roots(Held(x))
<1> DEFINE N == Held(x)
           r == x.nw.latest
<1>1. r \in N /\ HoldsNodes(N) /\ \A n \in N : n = r \/ n.uid > r.uid
  BY DEF Filled, Held
<1>2. \A n \in N : n.uid \in Nat /\ IsInnerUid(n.uid)
  BY <1>1, InnerIs DEF HoldsNodes, IsInner, IsInnerUid, NodeRecord
<1>3. ASSUME NEW m \in N, r.uid \in Targets(m)
      PROVE  FALSE
  <2>1. ~IsTerminalUid(r.uid)
    BY <1>1, <1>2, UidsAre
  <2>2. m.uid < r.uid
    BY <1>3, <2>1 DEF IsSound, FileIsInStep
  <2>3. m = r \/ m.uid > r.uid
    BY <1>1
  <2>4. m.uid \in Nat /\ r.uid \in Nat
    BY <1>1, <1>2
  <2> QED BY <2>2, <2>3, <2>4
<1> HIDE DEF N, r
<1>4. r \in Roots(N)
  BY <1>1, <1>3 DEF Roots
<1> QED BY <1>4 DEF N, r

LEMMA BuiltIsSound ==
    ASSUME IsSound(Attached, ptrs, cells), Attached.nf, Attached.nw.open,
           ~(HasPushed(Attached.nw) /\ ManyRoots(Attached))
    PROVE  LET f == ToBuild.file
           IN  /\ InnerNodes(f) = {} => Count(f) = 1
               /\ InnerNodes(f) # {} => Cardinality(Roots(InnerNodes(f))) = 1
               /\ CountsAreExact(f)
<1>1. PICK x : x = Attached
  OBVIOUS
<1>2. FileIsInStep(x, ptrs, cells) /\ x.value \in BOOLEAN /\ x.nw.open
  BY <1>1 DEF IsSound, IsBuilder
<1>3. CASE Fresh(x.nw)
  <2>1. ~HasPushed(x.nw)
    BY <1>3 DEF Fresh, HasPushed
  <2>2. PICK w : w = Push(x.nw, TerminalNode(x.value))
    OBVIOUS
  <2>3. OneTerminal(w) /\ w.open
    BY <1>2, <1>3, <2>2, TerminalPush
  <2>4. PICK f : f = Closed(w).file
    OBVIOUS
  <2>5. ToBuild.file = f
    BY <1>1, <2>1, <2>2, <2>4 DEF ToBuild
  <2>6. CountsAreExact(f) /\ InnerNodes(f) = {} /\ f.nodes = w.file.nodes
    BY <2>3, <2>4, EmptyIsExact
  <2>7. Count(f) = 1
    BY <2>3, <2>6 DEF OneTerminal, Count
  <2> QED BY <2>5, <2>6, <2>7
<1>4. CASE Filled(x.nw)
  <2>1. x.nw.latest \in Roots(Held(x)) /\ x.nw.latest \in Held(x)
    BY <1>1, <1>4, LatestIsRoot DEF Roots
  <2>2. HasPushed(x.nw)
    <3>1. x.nw.file.nodes # << >>
      BY <2>1 DEF Held, NodesOf
    <3> QED BY <3>1 DEF HasPushed
  <2>3. PICK f : f = Closed(x.nw).file
    OBVIOUS
  <2>4. ToBuild.file = f
    BY <1>1, <2>2, <2>3 DEF ToBuild
  <2>5. CountsAreExact(f) /\ NodesOf(f) = Held(x)
    BY <1>2, <1>4, <2>3, ClosedIsExact DEF Held
  <2>6. InnerNodes(f) = Held(x)
    BY <1>2, <2>5, InnerOfHeld DEF FileIsInStep
  <2>7. PICK k : k = Cardinality(Roots(Held(x)))
    OBVIOUS
  <2>8. k \in Nat /\ k = x.unref /\ IsFiniteSet(Roots(Held(x)))
    BY <1>1, <2>7, UnreferencedIsRoots
  <2>9. k # 0
    BY <2>1, <2>7, <2>8, FS_EmptySet, Zenon
  <2>10. ~(k > 1)
    BY <1>1, <2>2, <2>8 DEF ManyRoots
  <2>11. k = 1
    BY <2>8, <2>9, <2>10
  <2>12. InnerNodes(f) # {}
    BY <2>1, <2>6
  <2> QED BY <2>4, <2>5, <2>6, <2>7, <2>11, <2>12
<1> QED BY <1>2, <1>3, <1>4 DEF FileIsInStep

-----------------------------------------------------------------------------
(* The calls                                                               *)

LEMMA BuilderStarts == Init => BuilderInv
<1> SUFFICES ASSUME Init PROVE BuilderInv
  OBVIOUS
<1>1. /\ zdd \in BOOLEAN /\ ptrs = {} /\ cells = {} /\ built = {}
      /\ ~b.nf /\ b.nw = Unattached /\ b.phase = 0 /\ IsBuilder(b)
  BY DEF Init, IsBuilder
<1>2. PointersAreOut(b, {}, {})
  BY FS_EmptySet DEF PointersAreOut
<1> QED BY <1>1, <1>2 DEF BuilderInv, IsSound, BuiltIsADiagram

(* All calls that leave what is built as it is.                            *)
LEMMA SoundStep ==
    ASSUME BuilderInv, zdd' = zdd, built' = built, IsSound(b', ptrs', cells')
    PROVE  BuilderInv'
<1>1. BuiltIsADiagram'
  BY DEF BuilderInv, BuiltIsADiagram, InnerNodes, NodesOf, Count, Roots, CountsAreExact
<1>2. IsSound(b, ptrs, cells)'
  BY DEF IsSound, IsBuilder, PointersAreOut, FileIsInStep, PlaceIsFree
<1> QED BY <1>1, <1>2 DEF BuilderInv

(* What a legal call passes as a child is one.                             *)
LEMMA ArgumentsAreChildren ==
    ASSUME IsSound(Attached, ptrs, cells), NEW x, x.phase = Attached.phase,
           NEW p \in Arguments, PhaseMatches(p)
    PROVE  IsChild(p, x, ptrs)
<1>1. CASE p \in ptrs
  BY <1>1 DEF IsSound, PointersAreOut, IsChild, PhaseMatches
<1>2. CASE \E v \in BOOLEAN : p = Ptr(Terminal(v), Attached.phase)
  BY <1>2, PtrIs DEF IsChild, IsTerminalUid
<1> QED BY <1>1, <1>2 DEF Arguments

LEMMA AddNodeKeeps ==
    ASSUME BuilderInv, zdd' = zdd, NEW label \in 0 .. Levels,
           NEW low \in Arguments, NEW high \in Arguments, AddNode(label, low, high)
    PROVE  BuilderInv'
<1>1. IsSound(Attached, ptrs, cells) /\ Attached.nf /\ zdd \in BOOLEAN
  BY AttachedIsSound DEF BuilderInv
<1>2. CASE Reject(label, low, high)
  BY <1>1, <1>2, SoundStep DEF Reject
<1>3. CASE IsLegal(label, low, high)
  <2>1. PICK x : x = Moved(label)
    OBVIOUS
  <2>2. label \in Level /\ label \in Nat /\ label <= Attached.label
    BY <1>3, DiagramAssumption DEF IsLegal, Level
  <2>3. /\ IsSound(x, ptrs, cells) /\ x.nf /\ x.label = label
        /\ x.phase = Attached.phase /\ x.nw = Attached.nw
    BY <1>1, <2>1, <2>2, MovedIsSound
  <2>4. x.id \in 0 .. MaxId
    BY <2>3 DEF IsSound, PlaceIsFree
  <2>5. PICK n : n = Node(Uid(label, x.id), low.uid, high.uid)
    OBVIOUS
  <2>6. n.uid = Uid(label, x.id) /\ LevelOf(n.uid) = label
    BY <2>2, <2>4, <2>5, UidIs DEF Node
  <2>7. CASE Reduce(n, low, high)
    <3>1. PICK p : /\ b' = Noted(Moved(label), p)
                   /\ \E q \in {low, high} : ptrs' = ptrs \cup {q}
                   /\ cells' = cells /\ built' = built
      BY <2>6, <2>7 DEF Reduce
    <3>2. IsSound(b', ptrs, cells) /\ b'.nf /\ b'.phase = x.phase
      <4>1. CASE IsTerminal(p)
        <5>1. PICK v \in BOOLEAN : v = Value(p)
          BY Zenon DEF Value
        <5>2. b' = [x EXCEPT !.created = TRUE, !.value = v]
          BY <2>1, <3>1, <4>1, <5>1 DEF Noted
        <5> QED BY <2>3, <5>2, NotedIsSound
      <4>2. CASE ~IsTerminal(p)
        BY <2>1, <2>3, <3>1, <4>2 DEF Noted
      <4> QED BY <4>1, <4>2
    <3>3. PICK y : y = b'
      OBVIOUS
    <3>4. PICK q \in {low, high} : ptrs' = ptrs \cup {q}
      BY <3>1
    <3>5. IsSound(y, ptrs \cup {q}, cells)
      BY <2>3, <3>2, <3>3, ArgumentHandedOut
    <3> QED BY <3>1, <3>3, <3>4, <3>5, SoundStep
  <2>8. CASE PushFails(n)
    <3>1. b' = x /\ ptrs' = ptrs /\ cells' = cells /\ built' = built
      BY <2>1, <2>6, <2>8 DEF PushFails
    <3> QED BY <2>3, <3>1, SoundStep
  <2>9. CASE PushNode(n, low, high)
    <3>1. PICK p : p = Ptr(n.uid, x.phase)
      OBVIOUS
    <3>2. n = NextNode(x, low, high)
      BY <2>3, <2>5 DEF NextNode
    <3>3. PICK y : y = Pushed(x, cells, low, high)
      OBVIOUS
    <3>4. /\ x.nw.open
          /\ Cardinality(NodePointers(ptrs)) < MaxNodes[zdd]
          /\ b' = y /\ ptrs' = ptrs \cup {p} /\ cells' = (cells \ {low, high}) \cup {p}
          /\ built' = built
      BY <2>1, <2>3, <2>6, <2>9, <3>1, <3>2, <3>3
         DEF PushNode, NextId, FirstReferences, NodePointers, IsSound, IsBuilder, Pushed
    <3>5. IsChild(low, x, ptrs) /\ IsChild(high, x, ptrs)
      BY <1>1, <1>3, <2>3, ArgumentsAreChildren DEF IsLegal
    <3>6. MayPushTo(x, ptrs, cells, low, high)
      BY <1>1, <2>3, <3>4, <3>5 DEF MayPushTo
    <3>7. IsSound(y, ptrs \cup {p}, (cells \ {low, high}) \cup {p})
      BY <3>1, <3>2, <3>3, <3>6, PushedIsSound
    <3> QED BY <3>4, <3>7, SoundStep
  <2>10. IsLegal(label, low, high) /\ ~Reject(label, low, high)
    BY <1>3 DEF Reject
  <2>11. Reduce(n, low, high) \/ PushFails(n) \/ PushNode(n, low, high)
    BY <2>1, <2>5, <2>10 DEF AddNode
  <2> QED BY <2>7, <2>8, <2>9, <2>11
<1> QED BY <1>2, <1>3 DEF AddNode, Reject

LEMMA AddTerminalKeeps ==
    ASSUME BuilderInv, zdd' = zdd, NEW v \in BOOLEAN, AddTerminal(v)
    PROVE  BuilderInv'
<1>1. IsSound(Attached, ptrs, cells) /\ Attached.nf
  BY AttachedIsSound DEF BuilderInv
<1>2. PICK y : y = [Attached EXCEPT !.created = TRUE, !.value = v]
  OBVIOUS
<1>3. IsSound(y, ptrs, cells) /\ y.nf
  BY <1>1, <1>2, NotedIsSound
<1>4. PICK p : p = Ptr(Terminal(v), y.phase)
  OBVIOUS
<1>5. IsSound(y, ptrs \cup {p}, cells)
  BY <1>3, <1>4, TerminalHandedOut
<1>6. b' = y /\ ptrs' = ptrs \cup {p} /\ cells' = cells /\ built' = built
  BY <1>2, <1>4 DEF AddTerminal
<1> QED BY <1>5, <1>6, SoundStep

(* A build that fails leaves its writer closed, or never attaches one.     *)
LEMMA FailedBuildKeeps ==
    ASSUME BuilderInv, zdd' = zdd, BuildEmpty \/ BuildManyRoots
    PROVE  BuilderInv'
<1>1. IsSound(Attached, ptrs, cells) /\ Attached.nf
  BY AttachedIsSound DEF BuilderInv
<1>2. CASE BuildEmpty
  BY <1>1, <1>2, SoundStep DEF BuildEmpty
<1>3. CASE BuildManyRoots
  <2>1. PICK y : y = [Attached EXCEPT !.nw = Closed(Attached.nw)]
    OBVIOUS
  <2>2. IsSound(y, ptrs, cells)
    BY <1>1, <2>1, ClosedIsSound
  <2>3. b' = y /\ ptrs' = ptrs /\ cells' = cells /\ built' = built
    BY <1>3, <2>1 DEF BuildManyRoots
  <2> QED BY <2>2, <2>3, SoundStep
<1> QED BY <1>2, <1>3

LEMMA BuildKeeps ==
    ASSUME BuilderInv, zdd' = zdd, Build
    PROVE  BuilderInv'
<1>1. IsSound(Attached, ptrs, cells) /\ Attached.nf
  BY AttachedIsSound DEF BuilderInv
<1>2. PICK f : f = ToBuild.file
  OBVIOUS
<1>3. /\ Attached.nw.open /\ ~(HasPushed(Attached.nw) /\ ManyRoots(Attached))
      /\ built' = {f} /\ b' = Detached(Attached) /\ ptrs' = ptrs /\ cells' = cells
  BY <1>2 DEF Build
<1>4. /\ InnerNodes(f) = {} => Count(f) = 1
      /\ InnerNodes(f) # {} => Cardinality(Roots(InnerNodes(f))) = 1
      /\ CountsAreExact(f)
  BY <1>1, <1>2, <1>3, BuiltIsSound
<1>5. BuiltIsADiagram'
  <2>1. \A g \in built' :
            /\ InnerNodes(g) = {} => Count(g) = 1
            /\ InnerNodes(g) # {} => Cardinality(Roots(InnerNodes(g))) = 1
            /\ CountsAreExact(g)
    BY <1>3, <1>4
  <2> QED BY <2>1, Zenon DEF BuiltIsADiagram, InnerNodes, NodesOf, Count, Roots, CountsAreExact
<1>6. IsSound(b', ptrs', cells')
  BY <1>1, <1>3, DetachedIsSound
<1>7. IsSound(b, ptrs, cells)'
  BY <1>6 DEF IsSound, IsBuilder, PointersAreOut, FileIsInStep, PlaceIsFree
<1> QED BY <1>5, <1>7 DEF BuilderInv

LEMMA ClearKeeps ==
    ASSUME BuilderInv, zdd' = zdd, Clear
    PROVE  BuilderInv'
<1>1. IsSound(Detached(b), ptrs, cells)
  BY DetachedIsSound DEF BuilderInv
<1> QED BY <1>1, SoundStep DEF Clear

LEMMA BuilderKeeps == BuilderInv /\ [Next]_vars => BuilderInv'
<1> SUFFICES ASSUME BuilderInv, [Next]_vars PROVE BuilderInv'
  OBVIOUS
<1>1. CASE UNCHANGED vars
  BY <1>1, SoundStep DEF vars, BuilderInv
<1>2. ASSUME zdd' = zdd, NEW label \in 0 .. Levels,
             NEW low \in Arguments, NEW high \in Arguments, AddNode(label, low, high)
      PROVE  BuilderInv'
  BY <1>2, AddNodeKeeps
<1>3. ASSUME zdd' = zdd, NEW v \in BOOLEAN, AddTerminal(v)
      PROVE  BuilderInv'
  BY <1>3, AddTerminalKeeps
<1>4. ASSUME zdd' = zdd, BuildEmpty \/ BuildManyRoots
      PROVE  BuilderInv'
  BY <1>4, FailedBuildKeeps
<1>5. ASSUME zdd' = zdd, Build
      PROVE  BuilderInv'
  BY <1>5, BuildKeeps
<1>6. ASSUME zdd' = zdd, Clear
      PROVE  BuilderInv'
  BY <1>6, ClearKeeps
<1> QED BY <1>1, <1>2, <1>3, <1>4, <1>5, <1>6 DEF Next

THEOREM BuilderInvariant == Spec => []BuilderInv
<1>1. Init => BuilderInv
  BY BuilderStarts
<1>2. BuilderInv /\ [Next]_vars => BuilderInv'
  BY BuilderKeeps
<1> QED BY <1>1, <1>2, PTL DEF Spec

-----------------------------------------------------------------------------
(* The cuts of what is built                                               *)

(* A writer that is still open has counted the arcs of all it was given.   *)
HasCounted(w) ==
    w.open => /\ Fresh(w) => NothingCounted(w)
              /\ Filled(w) => CutAccount(w)

CutsInv ==
    /\ b.nf => HasCounted(b.nw)
    /\ BuiltCutsAreSound

LEMMA AttachedHasCounted == CutsInv => HasCounted(Attached.nw)
<1> SUFFICES ASSUME CutsInv PROVE HasCounted(Attached.nw)
  OBVIOUS
<1>1. CASE b.nf
  BY <1>1 DEF CutsInv, Attached
<1>2. CASE ~b.nf
  <2>1. Attached.nw = Opened(EmptyFile)
    BY <1>2 DEF Attached
  <2>2. Fresh(Opened(EmptyFile)) /\ NothingCounted(Opened(EmptyFile))
    BY OpenedIsFresh, OpenedCounts
  <2> QED BY <2>1, <2>2, WritersDiffer DEF HasCounted
<1> QED BY <1>1, <1>2

(* A child of a deeper level than the next node's is a deeper node of the  *)
(* file: the next node goes on top of the diagram in it.                   *)
LEMMA NextIsTopNode ==
    ASSUME NEW x, NEW P, NEW C, NEW low, NEW high, MayPushTo(x, P, C, low, high),
           \A u \in {low.uid, high.uid} : IsNode(u) => LevelOf(u) > x.label
    PROVE  IsTopNode(NextNode(x, low, high), Held(x))
<1>1. /\ PointersAreOut(x, P, C) /\ FileIsInStep(x, P, C) /\ PlaceIsFree(x, P)
      /\ IsSound(x, P, C) /\ IsChild(low, x, P) /\ IsChild(high, x, P)
  BY DEF MayPushTo, IsSound
<1>2. PICK n : n = NextNode(x, low, high) /\ n = Node(Uid(x.label, x.id), low.uid, high.uid)
  BY DEF NextNode
<1>3. x.id \in 0 .. MaxId /\ x.label \in Level /\ x.label \in Nat
  BY <1>1, DiagramAssumption DEF PlaceIsFree, Level
<1>4. /\ low.uid \in Nat /\ low.uid # Nil /\ high.uid \in Nat /\ high.uid # Nil
  BY <1>1, ChildIsHeld DEF MayPushTo
<1>5. /\ n.uid = Uid(x.label, x.id) /\ IsInner(n) /\ LevelOf(n.uid) = x.label
      /\ n.low = low.uid /\ n.high = high.uid
  <2>1. Uid(x.label, x.id) \in Nat /\ LevelOf(Uid(x.label, x.id)) = x.label
    BY <1>3, UidIs
  <2> QED BY <1>2, <1>3, <1>4, <2>1, NodeIs, SMTT(30) DEF IsInner
<1>6. \A m \in Held(x) : n.uid < m.uid
  BY <1>1, <1>5 DEF PlaceIsFree
<1>7. ASSUME NEW u \in {low.uid, high.uid}
      PROVE  IsTerminal(u) \/ \E m \in Held(x) : m.uid = u /\ LevelOf(n.uid) < LevelOf(m.uid)
  <2>1. IsTerminalUid(u) \/ \E m \in Held(x) : m.uid = u
    BY <1>1, ChildIsHeld DEF MayPushTo
  <2>2. CASE IsTerminalUid(u)
    BY <2>2, UidsAre
  <2>3. CASE \E m \in Held(x) : m.uid = u
    <3>1. PICK m \in Held(x) : m.uid = u
      BY <2>3
    <3>2. IsInner(m)
      BY <1>1 DEF FileIsInStep, HoldsNodes
    <3>3. IsNode(u)
      BY <3>1, <3>2, UidsAre DEF IsInner, IsInnerUid
    <3>4. LevelOf(m.uid) > x.label /\ LevelOf(m.uid) \in Int
      BY <3>1, <3>2, <3>3, UidIs, DiagramAssumption DEF IsInner, Level
    <3> QED BY <1>3, <1>5, <3>1, <3>4
  <2> QED BY <2>1, <2>2, <2>3
<1>8. \A s \in Sides : n[s] \in {low.uid, high.uid}
  BY <1>5 DEF Sides
<1>9. IsTopNode(n, Held(x))
  BY <1>5, <1>6, <1>7, <1>8 DEF IsTopNode
<1> QED BY <1>2, <1>9

LEMMA PushedHasCounted ==
    ASSUME NEW x, NEW P, NEW C, NEW low, NEW high, MayPushTo(x, P, C, low, high),
           HasCounted(x.nw),
           \A u \in {low.uid, high.uid} : IsNode(u) => LevelOf(u) > x.label
    PROVE  HasCounted(Push(x.nw, NextNode(x, low, high)))
<1>1. PICK n : n = NextNode(x, low, high)
  OBVIOUS
<1>2. IsTopNode(n, NodesOf(x.nw.file)) /\ IsInner(n)
  BY <1>1, NextIsTopNode DEF IsTopNode, Held
<1>3. x.nw.open /\ (Fresh(x.nw) \/ Filled(x.nw))
  BY DEF MayPushTo, IsSound, FileIsInStep
<1>4. PICK w : w = Push(x.nw, n)
  OBVIOUS
<1>5. CASE Fresh(x.nw)
  <2>1. NodesOf(x.nw.file) = {}
    BY <1>5 DEF Fresh, NodesOf
  <2>2. CutAccount(w) /\ Filled(w)
    BY <1>2, <1>3, <1>4, <1>5, <2>1, FirstPush, FirstPushCounts DEF HasCounted
  <2> QED BY <1>1, <1>4, <2>2, WritersDiffer DEF HasCounted
<1>6. CASE Filled(x.nw)
  <2>1. x.nw.latest \in NodesOf(x.nw.file)
    BY <1>6 DEF Filled
  <2>2. CutAccount(w) /\ Filled(w)
    BY <1>2, <1>3, <1>4, <1>6, <2>1, NextPush, NextPushCounts DEF HasCounted, IsTopNode
  <2> QED BY <1>1, <1>4, <2>2, WritersDiffer DEF HasCounted
<1> QED BY <1>3, <1>5, <1>6

(* All calls that leave what is built as it is.                            *)
LEMMA CountedStep ==
    ASSUME CutsInv, built' = built, b'.nf => HasCounted(b'.nw)
    PROVE  CutsInv'
<1>1. BuiltCutsAreSound'
  BY DEF CutsInv, BuiltCutsAreSound
<1>2. (b.nf => HasCounted(b.nw))'
  BY DEF HasCounted
<1> QED BY <1>1, <1>2 DEF CutsInv

LEMMA AddNodeKeepsCuts ==
    ASSUME BuilderInv, CutsInv, NEW label \in 0 .. Levels,
           NEW low \in Arguments, NEW high \in Arguments, AddNode(label, low, high)
    PROVE  CutsInv'
<1>1. /\ IsSound(Attached, ptrs, cells) /\ Attached.nf /\ zdd \in BOOLEAN
      /\ HasCounted(Attached.nw)
  BY AttachedIsSound, AttachedHasCounted DEF BuilderInv
<1>2. CASE Reject(label, low, high)
  BY <1>1, <1>2, CountedStep DEF Reject
<1>3. CASE IsLegal(label, low, high)
  <2>1. PICK x : x = Moved(label)
    OBVIOUS
  <2>2. label \in Level /\ label \in Nat /\ label <= Attached.label
    BY <1>3, DiagramAssumption DEF IsLegal, Level
  <2>3. /\ IsSound(x, ptrs, cells) /\ x.nf /\ x.label = label
        /\ x.phase = Attached.phase /\ x.nw = Attached.nw
    BY <1>1, <2>1, <2>2, MovedIsSound
  <2>4. x.id \in 0 .. MaxId
    BY <2>3 DEF IsSound, PlaceIsFree
  <2>5. PICK n : n = Node(Uid(label, x.id), low.uid, high.uid)
    OBVIOUS
  <2>6. n.uid = Uid(label, x.id) /\ LevelOf(n.uid) = label
    BY <2>2, <2>4, <2>5, UidIs DEF Node
  <2>7. CASE Reduce(n, low, high)
    <3>1. PICK p : b' = Noted(x, p) /\ built' = built
      BY <2>1, <2>6, <2>7 DEF Reduce
    <3>2. b'.nw = x.nw
      BY <2>3, <3>1 DEF Noted, IsSound, IsBuilder
    <3> QED BY <1>1, <2>3, <3>1, <3>2, CountedStep
  <2>8. CASE PushFails(n)
    <3>1. b' = x /\ built' = built
      BY <2>1, <2>6, <2>8 DEF PushFails
    <3> QED BY <1>1, <2>3, <3>1, CountedStep
  <2>9. CASE PushNode(n, low, high)
    <3>1. n = NextNode(x, low, high)
      BY <2>3, <2>5 DEF NextNode
    <3>2. /\ x.nw.open /\ Cardinality(NodePointers(ptrs)) < MaxNodes[zdd]
          /\ b'.nw = Push(x.nw, n) /\ built' = built
      BY <2>1, <2>3, <2>6, <2>9 DEF PushNode, NodePointers, IsSound, IsBuilder
    <3>3. IsChild(low, x, ptrs) /\ IsChild(high, x, ptrs)
      BY <1>1, <1>3, <2>3, ArgumentsAreChildren DEF IsLegal
    <3>4. MayPushTo(x, ptrs, cells, low, high)
      BY <1>1, <2>3, <3>2, <3>3 DEF MayPushTo
    <3>5. \A u \in {low.uid, high.uid} : IsNode(u) => LevelOf(u) > x.label
      BY <1>3, <2>3 DEF IsLegal
    <3>6. HasCounted(Push(x.nw, n))
      BY <1>1, <2>3, <3>1, <3>4, <3>5, PushedHasCounted
    <3> QED BY <3>2, <3>6, CountedStep
  <2>10. IsLegal(label, low, high) /\ ~Reject(label, low, high)
    BY <1>3 DEF Reject
  <2>11. Reduce(n, low, high) \/ PushFails(n) \/ PushNode(n, low, high)
    BY <2>1, <2>5, <2>10 DEF AddNode
  <2> QED BY <2>7, <2>8, <2>9, <2>11
<1> QED BY <1>2, <1>3 DEF AddNode, Reject

(* What is built has one root, so the account that its writer kept bounds  *)
(* its cuts.                                                               *)
LEMMA BuiltIsBounded ==
    ASSUME IsSound(Attached, ptrs, cells), Attached.nf, Attached.nw.open,
           ~(HasPushed(Attached.nw) /\ ManyRoots(Attached)), HasCounted(Attached.nw)
    PROVE  CutsAreBounds(ToBuild.file)
<1>1. PICK x : x = Attached
  OBVIOUS
<1>2. FileIsInStep(x, ptrs, cells) /\ x.value \in BOOLEAN /\ x.nw.open
  BY <1>1 DEF IsSound, IsBuilder
<1>3. PICK f : f = ToBuild.file
  OBVIOUS
<1>4. CASE Fresh(x.nw)
  <2>1. ~HasPushed(x.nw)
    BY <1>4 DEF Fresh, HasPushed
  <2>2. PICK w : w = Push(x.nw, TerminalNode(x.value))
    OBVIOUS
  <2>3. OneTerminal(w) /\ w.open
    BY <1>2, <1>4, <2>2, TerminalPush
  <2>4. f = Closed(w).file
    BY <1>1, <1>3, <2>1, <2>2 DEF ToBuild
  <2>5. InnerNodes(f) = {}
    BY <2>3, <2>4, EmptyIsExact
  <2> QED BY <1>3, <2>5 DEF CutsAreBounds
<1>5. CASE Filled(x.nw)
  <2>1. x.nw.latest \in Held(x)
    BY <1>5 DEF Filled, Held
  <2>2. HasPushed(x.nw)
    BY <2>1 DEF Held, NodesOf, HasPushed
  <2>3. f = Closed(x.nw).file
    BY <1>1, <1>3, <2>2 DEF ToBuild
  <2>4. NodesOf(f) = Held(x)
    BY <1>2, <1>5, <2>3, ClosedIsExact DEF Held
  <2>5. InnerNodes(f) = Held(x) /\ IsFiniteSet(Held(x))
    BY <1>2, <2>4, InnerOfHeld DEF FileIsInStep, HoldsNodes
  <2>6. Cardinality(Roots(Held(x))) = 1
    BY <1>3, <2>1, <2>5, BuiltIsSound
  <2>7. PICK r : HasRoot(Held(x), r)
    BY <2>5, <2>6, TheRoot
  <2>8. CutAccount(x.nw)
    BY <1>1, <1>2, <1>5 DEF HasCounted
  <2> QED BY <1>2, <1>3, <1>5, <2>3, <2>7, <2>8, ClosedCutsAreSound DEF Held
<1> QED BY <1>2, <1>4, <1>5 DEF FileIsInStep

LEMMA BuildKeepsCuts ==
    ASSUME BuilderInv, CutsInv, Build
    PROVE  CutsInv'
<1>1. IsSound(Attached, ptrs, cells) /\ Attached.nf /\ HasCounted(Attached.nw)
  BY AttachedIsSound, AttachedHasCounted DEF BuilderInv
<1>2. PICK f : f = ToBuild.file
  OBVIOUS
<1>3. /\ Attached.nw.open /\ ~(HasPushed(Attached.nw) /\ ManyRoots(Attached))
      /\ built' = {f} /\ b' = Detached(Attached)
  BY <1>2 DEF Build
<1>4. CutsAreBounds(f)
  BY <1>1, <1>2, <1>3, BuiltIsBounded
<1>5. BuiltCutsAreSound'
  BY <1>3, <1>4 DEF BuiltCutsAreSound
<1>6. ~b'.nf
  BY <1>1, <1>3 DEF Detached, IsSound, IsBuilder
<1> QED BY <1>5, <1>6 DEF CutsInv

LEMMA CutsKept ==
    ASSUME BuilderInv, CutsInv, [Next]_vars
    PROVE  CutsInv'
<1>1. CASE UNCHANGED vars
  BY <1>1, CountedStep DEF vars, CutsInv
<1>2. ASSUME NEW label \in 0 .. Levels,
             NEW low \in Arguments, NEW high \in Arguments, AddNode(label, low, high)
      PROVE  CutsInv'
  BY <1>2, AddNodeKeepsCuts
<1>3. ASSUME NEW v \in BOOLEAN, AddTerminal(v)
      PROVE  CutsInv'
  <2>1. b' = [Attached EXCEPT !.created = TRUE, !.value = v] /\ built' = built
    BY <1>3 DEF AddTerminal
  <2>2. IsBuilder(Attached)
    BY AttachedIsSound DEF BuilderInv, IsSound
  <2>3. b'.nw = Attached.nw
    BY <2>1, <2>2 DEF IsBuilder
  <2> QED BY <2>1, <2>3, AttachedHasCounted, CountedStep
<1>4. CASE BuildEmpty
  <2>1. b' = Attached /\ built' = built
    BY <1>4 DEF BuildEmpty
  <2> QED BY <2>1, AttachedHasCounted, CountedStep
<1>5. CASE BuildManyRoots
  <2>1. b' = [Attached EXCEPT !.nw = Closed(Attached.nw)] /\ built' = built
    BY <1>5 DEF BuildManyRoots
  <2>2. IsSound(Attached, ptrs, cells) /\ Attached.nf
    BY AttachedIsSound DEF BuilderInv
  <2>3. b'.nw = Closed(Attached.nw)
    BY <2>1, <2>2 DEF IsSound, IsBuilder
  <2>4. ~Closed(Attached.nw).open
    <3>1. ~Attached.nw.open => Closed(Attached.nw) = Attached.nw
      BY DEF Closed
    <3>2. Attached.nw.open => ~Closed(Attached.nw).open
      BY <2>2, ClosedIsExact, EmptyIsExact DEF IsSound, FileIsInStep
    <3> QED BY <3>1, <3>2
  <2> QED BY <2>1, <2>3, <2>4, CountedStep DEF HasCounted
<1>6. CASE Build
  BY <1>6, BuildKeepsCuts
<1>7. CASE Clear
  <2>1. b' = Detached(b) /\ built' = built /\ IsBuilder(b)
    BY <1>7 DEF Clear, BuilderInv, IsSound
  <2>2. ~b'.nf
    BY <2>1 DEF Detached, IsBuilder
  <2> QED BY <2>1, <2>2, CountedStep
<1> QED BY <1>1, <1>2, <1>3, <1>4, <1>5, <1>6, <1>7 DEF Next

-----------------------------------------------------------------------------
(* What the pointers denote                                                *)

LEMMA UidsAreEssential ==
    ASSUME NEW u, IsInnerUid(u) \/ IsTerminalUid(u)
    PROVE  /\ u \in 0 .. Nil /\ Essential(u) = u
           /\ IsFalse(u) => u = Terminal(FALSE)
           /\ IsInnerUid(u) => u % 4 = 0 /\ u + 3 < Terminal(FALSE)
<1>1. CASE IsTerminalUid(u)
  <2>1. PICK v \in BOOLEAN : u = Terminal(v)
    BY <1>1 DEF IsTerminalUid
  <2>2. u \in 0 .. Nil /\ ~IsNode(u) /\ Value(u) = v /\ Unflag(u) = u
    BY <2>1, TerminalsAre
  <2>3. ~IsInnerUid(u)
    BY <2>2, UidsAre
  <2> QED BY <2>1, <2>2, <2>3 DEF Essential, IsFalse
<1>2. CASE IsInnerUid(u)
  <2>1. PICK l \in Level, i \in 0 .. MaxId : u = Uid(l, i)
    BY <1>2 DEF IsInnerUid
  <2>2. u \in Nat /\ IsNode(u) /\ ~IsTerminal(u) /\ u % 4 = 0
    BY <1>2, <2>1, UidsAre, UidIs, DiagramAssumption DEF Level
  <2>3. PICK t \in 0 .. Nil : t = Terminal(FALSE) /\ t % 4 = 0
    <3>1. Terminal(FALSE) = Uid(Levels, 0)
      BY DiagramAssumption, UidIs DEF Terminal
    <3>2. Uid(Levels, 0) % 4 = 0
      BY DiagramAssumption, UidIs
    <3> QED BY <3>1, <3>2, TerminalsAre
  <2>4. u < t
    BY <2>2, <2>3, Zenon DEF IsNode
  <2>5. u \in 0 .. Nil /\ u + 3 < t
    <3>1. Nil \in Nat
      BY PointersAre, Zenon
    <3>2. PICK o \in Nat : o = Nil
      BY <3>1
    <3>3. u \in Nat /\ u % 4 = 0 /\ t % 4 = 0 /\ t \in 0 .. o /\ u < t
      BY <2>2, <2>3, <2>4, <3>2, Zenon
    <3>4. t \in Nat /\ t <= o
      BY <3>3
    <3>5. u + 3 < t
      BY <3>3, <3>4
    <3> QED BY <3>2, <3>3, <3>4, <3>5
  <2>6. Essential(u) = u
    BY <2>2 DEF Essential
  <2> QED BY <2>2, <2>3, <2>5, <2>6, Zenon DEF IsFalse
<1> QED BY <1>1, <1>2

LEMMA HeldFollows ==
    ASSUME NEW x, NEW P, NEW C, IsSound(x, P, C), x.nf
    PROVE  /\ ChildrenFollow(Held(x))
           /\ \A m, n \in Held(x) : m.uid = n.uid => m = n
           /\ \A n \in Held(x) : IsInnerUid(n.uid)
<1>1. FileIsInStep(x, P, C)
  BY DEF IsSound
<1>2. \A n \in Held(x) : IsInnerUid(n.uid)
  BY <1>1 DEF FileIsInStep, HoldsNodes, IsInner, IsInnerUid
<1>3. \A m, n \in Held(x) : m.uid = n.uid => m = n
  BY <1>1, HeldByUid DEF FileIsInStep, Held
<1>4. ASSUME NEW n \in Held(x), NEW u \in Targets(n)
      PROVE  u \in 0 .. Nil /\ n.uid + 3 < u
  <2>1. n.uid \in Nat /\ n.uid % 4 = 0 /\ n.uid + 3 < Terminal(FALSE)
    BY <1>2, UidsAreEssential, UidsAre
  <2>2. IsTerminalUid(u) \/ \E m \in Held(x) : m.uid = u /\ n.uid < u
    BY <1>1 DEF FileIsInStep
  <2>3. CASE IsTerminalUid(u)
    <3>1. u \in 0 .. Nil /\ Terminal(FALSE) \in 0 .. Nil /\ Nil \in Nat
      BY <2>3, UidsAreEssential, TerminalsAre, PointersAre
    <3>2. Terminal(FALSE) <= u
      BY <2>3, UidsAre, Zenon DEF IsTerminal
    <3>3. PICK o \in Nat : o = Nil
      BY <3>1, Zenon
    <3>4. PICK t \in 0 .. o : t = Terminal(FALSE)
      BY <3>1, <3>3, Zenon
    <3>5. n.uid + 3 < t /\ t <= u
      BY <2>1, <3>2, <3>4, Zenon
    <3>6. u \in 0 .. o /\ n.uid \in Nat
      BY <2>1, <3>1, <3>3, Zenon
    <3> QED BY <3>3, <3>5, <3>6
  <2>4. CASE \E m \in Held(x) : m.uid = u /\ n.uid < u
    <3>1. u \in 0 .. Nil /\ u % 4 = 0 /\ n.uid < u /\ Nil \in Nat
      BY <1>2, <2>4, UidsAreEssential, PointersAre
    <3> QED BY <2>1, <3>1
  <2> QED BY <2>2, <2>3, <2>4
<1>5. ChildrenFollow(Held(x))
  BY <1>2, <1>4, UidsAre DEF ChildrenFollow
<1> QED BY <1>2, <1>3, <1>5

(* What add_node() hands out denotes what was asked for, in the file as it *)
(* then is.                                                                *)
MeansWhatWasAsked(x, kind, c) ==
    DenotesOf(kind, Held(x), c.ptr) =
        Choice(kind, LevelOf(c.node.uid),
               DenotesOf(kind, Held(x), c.node.low), DenotesOf(kind, Held(x), c.node.high))

LEMMA MeansIs ==
    ASSUME NEW x, NEW P, NEW C, x = b', IsSound(x, P, C), zdd' = zdd, NEW c, c = call',
           MeansWhatWasAsked(x, zdd, c)
    PROVE  PointersMeanWhatWasAsked'
<1>1. CASE x.nf
  <2>1. InnerNodes(x.nw.file) = Held(x)
    BY <1>1, InnerIsHeld DEF IsSound
  <2>2. Nodes' = Held(x)
    BY <2>1 DEF Nodes, InnerNodes, NodesOf
  <2> QED BY <2>2 DEF MeansWhatWasAsked, PointersMeanWhatWasAsked, Callee, Denotes
<1>2. CASE ~x.nf
  BY <1>2 DEF PointersMeanWhatWasAsked
<1> QED BY <1>1, <1>2

LEMMA AddNodeMeans ==
    ASSUME BuilderInv, BuilderInv', zdd' = zdd, NEW label \in 0 .. Levels,
           NEW low \in Arguments, NEW high \in Arguments, AddNode(label, low, high)
    PROVE  PointersMeanWhatWasAsked'
<1>1. IsSound(Attached, ptrs, cells) /\ Attached.nf /\ zdd \in BOOLEAN
  BY AttachedIsSound DEF BuilderInv
<1>2. CASE Reject(label, low, high)
  BY <1>2 DEF Reject, Return, PointersMeanWhatWasAsked
<1>3. CASE IsLegal(label, low, high)
  <2>1. PICK x : x = Moved(label)
    OBVIOUS
  <2>2. label \in Level /\ label \in Nat /\ label <= Attached.label
    BY <1>3, DiagramAssumption DEF IsLegal, Level
  <2>3. /\ IsSound(x, ptrs, cells) /\ x.nf /\ x.label = label
        /\ x.phase = Attached.phase /\ x.nw = Attached.nw
    BY <1>1, <2>1, <2>2, MovedIsSound
  <2>4. x.id \in 0 .. MaxId
    BY <2>3 DEF IsSound, PlaceIsFree
  <2>5. PICK n : n = Node(Uid(label, x.id), low.uid, high.uid)
    OBVIOUS
  <2>6. /\ n.uid = Uid(label, x.id) /\ LevelOf(n.uid) = label
        /\ n.low = low.uid /\ n.high = high.uid
    BY <2>2, <2>4, <2>5, UidIs DEF Node
  <2>7. PICK y, c : y = b' /\ c = call'
    OBVIOUS
  <2>8. IsSound(y, ptrs', cells')
    <3>1. IsSound(b, ptrs, cells)'
      BY DEF BuilderInv
    <3> QED BY <2>7, <3>1 DEF IsSound, IsBuilder, PointersAreOut, FileIsInStep, PlaceIsFree
  <2>9. CASE Reduce(n, low, high)
    <3>1. PICK p : /\ p = Essential(ReductionRule(n)) /\ p \in {low.uid, high.uid}
                   /\ y = Noted(x, p)
                   /\ c = [op |-> "add_node", outcome |-> "ok", node |-> n, ptr |-> p]
      BY <2>1, <2>6, <2>7, <2>9 DEF Reduce
    <3>2. y.nf /\ y.nw = x.nw /\ Held(y) = Held(x)
      BY <2>3, <3>1 DEF Noted, IsSound, IsBuilder, Held
    <3>3. /\ IsChild(low, x, ptrs) /\ IsChild(high, x, ptrs)
      BY <1>1, <1>3, <2>3, ArgumentsAreChildren DEF IsLegal
    <3>4. \A u \in {low.uid, high.uid} : IsInnerUid(u) \/ IsTerminalUid(u)
      BY <3>3 DEF IsChild
    <3>5. ReductionRule(n) # n.uid
      <4> SUFFICES ASSUME ReductionRule(n) = n.uid PROVE FALSE
        OBVIOUS
      <4>1. IsInnerUid(n.uid)
        BY <2>2, <2>4, <2>6 DEF IsInnerUid
      <4>2. p = n.uid /\ IsNode(p)
        BY <3>1, <4>1, UidsAre, UidsAreEssential
      <4>3. LevelOf(p) > label
        BY <1>3, <3>1, <4>2 DEF IsLegal
      <4> QED BY <2>2, <2>6, <4>2, <4>3
    <3>6. DenotesOf(zdd, Held(x), p) =
              Choice(zdd, LevelOf(n.uid), DenotesOf(zdd, Held(x), n.low), DenotesOf(zdd, Held(x), n.high))
      BY <1>1, <2>3, <2>6, <3>1, <3>4, <3>5, HeldFollows, UidsAreEssential, ReducedDenotes
    <3>7. MeansWhatWasAsked(y, zdd, c)
      BY <3>1, <3>2, <3>6 DEF MeansWhatWasAsked
    <3> QED BY <2>7, <2>8, <3>7, MeansIs
  <2>10. CASE PushFails(n)
    BY <2>10 DEF PushFails, Return, PointersMeanWhatWasAsked
  <2>11. CASE PushNode(n, low, high)
    <3>1. /\ y.nw = Push(x.nw, n) /\ y.nf
          /\ c = [op |-> "add_node", outcome |-> "ok", node |-> n, ptr |-> n.uid]
      BY <2>1, <2>3, <2>6, <2>7, <2>11 DEF PushNode, IsSound, IsBuilder
    <3>2. n \in Held(y)
      <4>1. x.nw \in WriterType
        BY <2>1, <2>6, <2>3, <2>11 DEF PushNode, IsSound, FileIsInStep, Fresh, Filled
      <4>2. IsChild(low, x, ptrs) /\ IsChild(high, x, ptrs)
        BY <1>1, <1>3, <2>3, ArgumentsAreChildren DEF IsLegal
      <4>3. low.uid \in Nat /\ high.uid \in Nat /\ n.uid \in Nat
        BY <2>2, <2>3, <2>4, <2>6, <4>2, ChildIsHeld, UidIs
      <4>4. n \in NodeRecord
        BY <2>5, <2>6, <4>3 DEF Node, NodeRecord
      <4>5. y.nw.file.nodes = Append(x.nw.file.nodes, n)
        <5>1. Push(x.nw, n).file.nodes = Append(x.nw.file.nodes, n)
          BY <4>1, <4>4, PushIs, Zenon
        <5> QED BY <3>1, <5>1
      <4>6. NodesOf(y.nw.file) = NodesOf(x.nw.file) \cup {n}
        BY <4>1, <4>4, <4>5, NodesOfAppended, Zenon
      <4> QED BY <4>6 DEF Held
    <3>3. IsInnerUid(n.uid) /\ IsNode(n.uid) /\ n.uid % 4 = 0
      BY <2>8, <3>1, <3>2, HeldFollows, UidsAreEssential, UidsAre
    <3>4. DenotesOf(zdd, Held(y), n.uid) =
              Choice(zdd, LevelOf(n.uid), DenotesOf(zdd, Held(y), n.low), DenotesOf(zdd, Held(y), n.high))
      BY <2>8, <3>1, <3>2, <3>3, HeldFollows, NodeDenotes
    <3>5. MeansWhatWasAsked(y, zdd, c)
      BY <3>1, <3>4 DEF MeansWhatWasAsked
    <3> QED BY <2>7, <2>8, <3>5, MeansIs
  <2>12. IsLegal(label, low, high) /\ ~Reject(label, low, high)
    BY <1>3 DEF Reject
  <2>13. Reduce(n, low, high) \/ PushFails(n) \/ PushNode(n, low, high)
    BY <2>1, <2>5, <2>12 DEF AddNode
  <2> QED BY <2>9, <2>10, <2>11, <2>13
<1> QED BY <1>2, <1>3 DEF AddNode, Reject

LEMMA MeaningKept ==
    BuilderInv /\ BuilderInv' /\ PointersMeanWhatWasAsked /\ [Next]_vars
        => PointersMeanWhatWasAsked'
<1> SUFFICES ASSUME BuilderInv, BuilderInv', PointersMeanWhatWasAsked, [Next]_vars
             PROVE  PointersMeanWhatWasAsked'
  OBVIOUS
<1>1. CASE UNCHANGED vars
  <2>1. zdd' = zdd /\ b' = b /\ call' = call
    BY <1>1 DEF vars
  <2>2. Nodes' = Nodes
    BY <2>1 DEF Nodes, InnerNodes, NodesOf
  <2> QED BY <2>1, <2>2 DEF PointersMeanWhatWasAsked, Callee, Denotes
<1>2. ASSUME zdd' = zdd, NEW label \in 0 .. Levels,
             NEW low \in Arguments, NEW high \in Arguments, AddNode(label, low, high)
      PROVE  PointersMeanWhatWasAsked'
  BY <1>2, AddNodeMeans
<1>3. ASSUME call'.op # "add_node"
      PROVE  PointersMeanWhatWasAsked'
  BY <1>3 DEF PointersMeanWhatWasAsked
<1>4. ASSUME \/ \E v \in BOOLEAN : AddTerminal(v)
             \/ BuildEmpty \/ BuildManyRoots \/ Build \/ Clear
      PROVE  call'.op # "add_node"
  <2>1. CASE \E v \in BOOLEAN : AddTerminal(v)
    BY <2>1 DEF AddTerminal, Return
  <2>2. CASE BuildEmpty \/ BuildManyRoots
    BY <2>2 DEF BuildEmpty, BuildManyRoots, Return
  <2>3. CASE Build \/ Clear
    BY <2>3 DEF Build, Clear, Return
  <2> QED BY <1>4, <2>1, <2>2, <2>3
<1> QED BY <1>1, <1>2, <1>3, <1>4 DEF Next

-----------------------------------------------------------------------------
(* The theorems                                                            *)

(* Whichever pointers a client uses, copies, reuses or has reduced away,   *)
(* and across any number of phases, the count of unreferenced nodes that   *)
(* build() asks for a second root (builder.h:427) is the number of nodes   *)
(* in the file without a parent.                                           *)
THEOREM UnreferencedAreTheRoots == Spec => []UnreferencedAreRoots
<1>1. BuilderInv => UnreferencedAreRoots
  BY SoundIsOrdered DEF BuilderInv
<1> QED BY <1>1, BuilderInvariant, PTL

(* add_node() gives its nodes to the writer in the order that it requires, *)
(* though it moves its label and identifier for nodes it then reduces away *)
(* (builder.h:254-292); and the check of the shared object that a pointer  *)
(* refers to (builder.h:242) is all it takes for every child in the file   *)
(* to be in the file: neither clear() nor a failed build() lets an earlier *)
(* phase's node be used.                                                   *)
THEOREM PushesAreOrdered == Spec => []PushedTopologically
<1>1. BuilderInv => PushedTopologically
  BY SoundIsOrdered DEF BuilderInv
<1> QED BY <1>1, BuilderInvariant, PTL

(* What build() returns (builder.h:397-432) is a single terminal or has    *)
(* exactly one root, and the counts in its meta data are those of its      *)
(* nodes.                                                                  *)
THEOREM BuildsDiagrams == Spec => []BuiltIsADiagram
<1>1. BuilderInv => BuiltIsADiagram
  BY DEF BuilderInv
<1> QED BY <1>1, BuilderInvariant, PTL

(* The cuts in the meta data of what build() returns are at least the true *)
(* ones, whichever nodes were added, reduced away or given up before:      *)
(* every node of the file is above its children, which is what the account *)
(* of the writer rests on (builder.h:245, node_ofstream.h).                *)
THEOREM BuildsSoundCuts == Spec => []BuiltCutsAreSound
<1>1. Init => CutsInv
  BY DEF Init, CutsInv, BuiltCutsAreSound
<1>2. BuilderInv /\ BuilderInv' /\ CutsInv /\ [Next]_vars => CutsInv'
  BY CutsKept
<1>3. CutsInv => BuiltCutsAreSound
  BY DEF CutsInv
<1> QED BY <1>1, <1>2, <1>3, BuilderInvariant, PTL DEF Spec

(* The pointer that add_node() returns denotes the if-then-else that was   *)
(* asked for, of the functions of its children in the file: also when the  *)
(* node was redundant and the pointer is to its child, or when a child is  *)
(* a terminal given as a truth value (builder.h:238-314).                  *)
THEOREM AnswersMeanWhatWasAsked == Spec => []PointersMeanWhatWasAsked
<1>1. Init => PointersMeanWhatWasAsked
  BY DEF Init, PointersMeanWhatWasAsked
<1>2. BuilderInv /\ BuilderInv' /\ PointersMeanWhatWasAsked /\ [Next]_vars
          => PointersMeanWhatWasAsked'
  BY MeaningKept
<1> QED BY <1>1, <1>2, BuilderInvariant, PTL DEF Spec
=============================================================================
