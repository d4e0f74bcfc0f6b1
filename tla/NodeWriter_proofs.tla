------------------------- MODULE NodeWriter_proofs -------------------------
(***************************************************************************)
(* The meta data that a client of the writer of nodes may trust, for every *)
(* number of levels and identifiers and for clients of every width.        *)
(***************************************************************************)
EXTENDS NodeWriter, Denotation_proofs

(* A writer is given nothing, one terminal, or nodes in order; what it     *)
(* wrote when it was closed stays as it is.                                *)
WriterInv ==
    /\ w.open => attached /\ (Fresh(w) \/ OneTerminal(w) \/ Filled(w))
    /\ CountsAreRight

LEMMA WriterStarts == Init => WriterInv
<1> SUFFICES ASSUME Init PROVE WriterInv
  OBVIOUS
<1>1. ~attached
  BY DEF Init
<1>2. ~w.open
  BY OpenedIs DEF Init, WriterType
<1> QED BY <1>1, <1>2 DEF WriterInv, CountsAreRight, Complete

LEMMA AttachKeeps ==
    ASSUME WriterInv, Attach
    PROVE  WriterInv'
<1>1. attached'
  BY DEF Attach
<1>2. Fresh(w') /\ w'.open
  BY OpenedIsFresh, OpenedIs, ConstructedIs DEF Attach
<1> QED BY <1>1, <1>2 DEF WriterInv, CountsAreRight, Complete

(* The dummy that a writer starts from is no terminal.                     *)
LEMMA PushTerminalKeeps ==
    ASSUME WriterInv, NEW v \in BOOLEAN, PushTerminal(v)
    PROVE  WriterInv'
<1>1. w.open /\ w.latest = Dummy /\ w' = Push(w, TerminalNode(v)) /\ attached' = attached
  BY DEF PushTerminal
<1>2. Fresh(w)
  <2>1. ~Filled(w)
    BY <1>1, InnerIs DEF Filled, HoldsNodes
  <2>2. ~OneTerminal(w)
    BY <1>1, DummyIsInner DEF OneTerminal
  <2> QED BY <1>1, <2>1, <2>2 DEF WriterInv
<1> QED BY <1>1, <1>2, TerminalPush DEF WriterInv, CountsAreRight, Complete

(* A child is a terminal or a node that is in the file.                    *)
LEMMA ChildrenAre ==
    ASSUME Fresh(w) \/ Filled(w), NEW l, NEW p \in Children(l)
    PROVE  p \in Nat /\ p # Nil
<1>1. CASE p \in {Terminal(v) : v \in BOOLEAN}
  BY <1>1, PointersAre
<1>2. CASE \E n \in InnerNodes(w.file) : p = n.uid
  <2>1. CASE Fresh(w)
    BY <1>2, <2>1 DEF Fresh, InnerNodes, NodesOf
  <2>2. CASE Filled(w)
    <3>1. PICK n \in NodesOf(w.file) : p = n.uid
      BY <1>2 DEF InnerNodes
    <3>2. IsInner(n)
      BY <2>2 DEF Filled, HoldsNodes
    <3>3. n \in NodeRecord /\ IsNode(n.uid)
      BY <3>2, InnerIs
    <3> QED BY <3>1, <3>3, PointersAre DEF NodeRecord
  <2> QED BY <2>1, <2>2
<1> QED BY <1>1, <1>2 DEF Children

LEMMA PushNodeKeeps ==
    ASSUME WriterInv, NEW l \in Level, NEW i \in 0 .. MaxId, PushNode(l, i)
    PROVE  WriterInv'
<1>1. PICK low \in Children(l), high \in Children(l) :
        w' = Push(w, Node(Uid(l, i), low, high))
  BY DEF PushNode
<1>2. w.open /\ ~IsTerminal(w.latest.uid) /\ MayPush(l, i) /\ attached' = attached
  BY DEF PushNode
<1>3. Fresh(w) \/ Filled(w)
  BY <1>2, TerminalIs DEF WriterInv, OneTerminal
<1>4. PICK n : n = Node(Uid(l, i), low, high)
  OBVIOUS
<1>5. l \in Nat /\ l < Levels
  BY DiagramAssumption DEF Level
<1>6. IsInner(n) /\ n.uid = Uid(l, i)
  <2>1. /\ low \in Nat /\ low # Nil /\ high \in Nat /\ Uid(l, i) \in Nat
    BY <1>3, <1>5, ChildrenAre, UidIs
  <2> QED BY <1>4, <2>1, NodeIs DEF IsInner
<1>7. CASE Fresh(w)
  BY <1>1, <1>2, <1>4, <1>6, <1>7, FirstPush DEF WriterInv, CountsAreRight, Complete
<1>8. CASE Filled(w)
  <2>1. IsInner(w.latest) /\ w.latest # Dummy
    BY <1>8, InnerIs DEF Filled, HoldsNodes
  <2>2. PICK k \in Level, j \in 0 .. MaxId : w.latest.uid = Uid(k, j)
    BY <2>1 DEF IsInner
  <2>3. k \in Nat /\ LevelOf(w.latest.uid) = k /\ IdOf(w.latest.uid) = j
    BY <2>2, UidIs, DiagramAssumption DEF Level
  <2>4. k > l \/ (k = l /\ i < j)
    BY <1>2, <1>5, <2>1, <2>3 DEF MayPush
  <2>5. n.uid < w.latest.uid
    BY <1>5, <1>6, <2>2, <2>3, <2>4, UidsAreOrdered
  <2> QED BY <1>1, <1>2, <1>4, <1>6, <1>8, <2>5, NextPush
          DEF WriterInv, CountsAreRight, Complete
<1> QED BY <1>3, <1>7, <1>8

LEMMA CloseKeeps ==
    ASSUME WriterInv, Close
    PROVE  WriterInv'
<1>1. w.open /\ w' = Closed(w) /\ attached' = attached
  BY DEF Close
<1>2. CountsAreExact(w'.file) /\ ~w'.open
  BY <1>1, ClosedIsExact, EmptyIsExact DEF WriterInv
<1> QED BY <1>2 DEF WriterInv, CountsAreRight, Complete

LEMMA WriterKeeps ==
    ASSUME WriterInv, [Next]_vars
    PROVE  WriterInv'
<1>1. CASE Attach
  BY <1>1, AttachKeeps
<1>2. CASE \E v \in BOOLEAN : PushTerminal(v)
  BY <1>2, PushTerminalKeeps
<1>3. CASE \E l \in Level, i \in 0 .. MaxId : PushNode(l, i)
  BY <1>3, PushNodeKeeps
<1>4. CASE Close
  BY <1>4, CloseKeeps
<1>5. CASE UNCHANGED vars
  <2>1. w' = w /\ attached' = attached
    BY <1>5 DEF vars
  <2> QED BY <2>1 DEF WriterInv, CountsAreRight, Complete
<1> QED BY <1>1, <1>2, <1>3, <1>4, <1>5 DEF Next

(* A closed file counts its arcs to each terminal, the nodes of each level *)
(* and the nodes of its widest level exactly, whatever was pushed to it by *)
(* a client that keeps to the writer's order (node_ofstream.h, push and    *)
(* close).                                                                 *)
THEOREM ClosedFilesAreCounted == Spec => []CountsAreRight
<1>1. Init => WriterInv
  BY WriterStarts
<1>2. WriterInv /\ [Next]_vars => WriterInv'
  BY WriterKeeps
<1>3. WriterInv => CountsAreRight
  BY DEF WriterInv
<1> QED BY <1>1, <1>2, <1>3, PTL DEF Spec

-----------------------------------------------------------------------------
(* The cuts                                                                *)

(* While it is open, a writer has counted the arcs of all it was given.    *)
CutsInv ==
    /\ w.open /\ Fresh(w) => NothingCounted(w)
    /\ w.open /\ Filled(w) => CutAccount(w)
    /\ CutsAreSound

LEMMA CutsStart == Init => CutsInv
<1> SUFFICES ASSUME Init PROVE CutsInv
  OBVIOUS
<1>1. ~attached
  BY DEF Init
<1>2. ~w.open
  BY OpenedIs DEF Init, WriterType
<1> QED BY <1>1, <1>2 DEF CutsInv, CutsAreSound, Complete

LEMMA AttachKeepsCuts ==
    ASSUME Attach
    PROVE  CutsInv'
<1>1. Fresh(w') /\ w'.open /\ NothingCounted(w')
  BY OpenedIsFresh, OpenedIs, ConstructedIs, OpenedCounts DEF Attach
<1> QED BY <1>1, WritersDiffer DEF CutsInv, CutsAreSound, Complete

LEMMA PushTerminalKeepsCuts ==
    ASSUME WriterInv, NEW v \in BOOLEAN, PushTerminal(v)
    PROVE  CutsInv'
<1>1. w.open /\ w.latest = Dummy /\ w' = Push(w, TerminalNode(v))
  BY DEF PushTerminal
<1>2. Fresh(w)
  BY <1>1, WritersDiffer, DummyIsInner, InnerIs DEF WriterInv, OneTerminal, Filled, HoldsNodes
<1>3. OneTerminal(w') /\ w'.open
  BY <1>1, <1>2, TerminalPush
<1> QED BY <1>3, WritersDiffer DEF CutsInv, CutsAreSound, Complete

LEMMA PushNodeKeepsCuts ==
    ASSUME WriterInv, CutsInv, NEW l \in Level, NEW i \in 0 .. MaxId, PushNode(l, i)
    PROVE  CutsInv'
<1>1. PICK low \in Children(l), high \in Children(l) :
        w' = Push(w, Node(Uid(l, i), low, high))
  BY DEF PushNode
<1>2. w.open /\ ~IsTerminal(w.latest.uid) /\ MayPush(l, i)
  BY DEF PushNode
<1>3. Fresh(w) \/ Filled(w)
  BY <1>2, TerminalIs DEF WriterInv, OneTerminal
<1>4. PICK n : n = Node(Uid(l, i), low, high)
  OBVIOUS
<1>5. l \in Nat /\ l < Levels
  BY DiagramAssumption DEF Level
<1>6. /\ low \in Nat /\ low # Nil /\ high \in Nat /\ Uid(l, i) \in Nat
      /\ LevelOf(Uid(l, i)) = l
  BY <1>3, <1>5, ChildrenAre, UidIs
<1>7. IsInner(n) /\ n.uid = Uid(l, i) /\ LevelOf(n.uid) = l /\ n.low = low /\ n.high = high
  BY <1>4, <1>6, NodeIs DEF IsInner
<1>8. \A s \in Sides : \/ IsTerminal(n[s])
                       \/ \E m \in NodesOf(w.file) : m.uid = n[s] /\ LevelOf(n.uid) < LevelOf(m.uid)
  <2>1. ASSUME NEW p \in Children(l)
        PROVE  \/ IsTerminal(p)
               \/ \E m \in NodesOf(w.file) : m.uid = p /\ l < LevelOf(m.uid)
    <3>1. CASE p \in {Terminal(v) : v \in BOOLEAN}
      BY <3>1, PointersAre
    <3>2. CASE \E m \in InnerNodes(w.file) : LevelOf(m.uid) > l /\ p = m.uid
      <4>1. PICK m \in InnerNodes(w.file) : LevelOf(m.uid) > l /\ p = m.uid
        BY <3>2
      <4>2. m \in NodesOf(w.file)
        BY DEF InnerNodes
      <4> QED BY <4>1, <4>2
    <3> QED BY <3>1, <3>2 DEF Children
  <2>2. \A s \in Sides : n[s] \in {low, high}
    BY <1>7 DEF Sides
  <2> QED BY <1>7, <2>1, <2>2
<1>9. CASE Fresh(w)
  <2>1. NodesOf(w.file) = {}
    BY <1>9 DEF Fresh, NodesOf
  <2>2. IsTopNode(n, {})
    BY <1>7, <1>8, <2>1 DEF IsTopNode
  <2>3. CutAccount(w') /\ Filled(w') /\ w'.open
    BY <1>1, <1>2, <1>4, <1>7, <1>9, <2>2, FirstPush, FirstPushCounts DEF CutsInv
  <2> QED BY <2>3, WritersDiffer DEF CutsInv, CutsAreSound, Complete
<1>10. CASE Filled(w)
  <2>1. IsInner(w.latest) /\ w.latest # Dummy
    BY <1>10, InnerIs DEF Filled, HoldsNodes
  <2>2. PICK k \in Level, j \in 0 .. MaxId : w.latest.uid = Uid(k, j)
    BY <2>1 DEF IsInner
  <2>3. k \in Nat /\ LevelOf(w.latest.uid) = k /\ IdOf(w.latest.uid) = j
    BY <2>2, UidIs, DiagramAssumption DEF Level
  <2>4. k > l \/ (k = l /\ i < j)
    BY <1>2, <1>5, <2>1, <2>3 DEF MayPush
  <2>5. n.uid < w.latest.uid
    BY <1>5, <1>7, <2>2, <2>3, <2>4, UidsAreOrdered
  <2>6. Filled(w') /\ w'.open /\ \A m \in NodesOf(w.file) : n.uid < m.uid
    BY <1>1, <1>2, <1>4, <1>7, <1>10, <2>5, NextPush
  <2>7. IsTopNode(n, NodesOf(w.file))
    BY <1>7, <1>8, <2>6 DEF IsTopNode
  <2>8. CutAccount(w')
    BY <1>1, <1>2, <1>4, <1>10, <2>7, NextPushCounts DEF CutsInv
  <2> QED BY <2>6, <2>8, WritersDiffer DEF CutsInv, CutsAreSound, Complete
<1> QED BY <1>3, <1>9, <1>10

LEMMA CloseKeepsCuts ==
    ASSUME WriterInv, CutsInv, Close
    PROVE  CutsInv'
<1>1. w.open /\ w' = Closed(w)
  BY DEF Close
<1>2. CASE Fresh(w) \/ OneTerminal(w)
  <2>1. ~w'.open /\ InnerNodes(w'.file) = {}
    BY <1>1, <1>2, EmptyIsExact
  <2> QED BY <2>1 DEF CutsInv, CutsAreSound, CutsAreBounds
<1>3. CASE Filled(w)
  <2>1. ~w'.open /\ NodesOf(w'.file) = NodesOf(w.file)
    BY <1>1, <1>3, ClosedIsExact
  <2>2. HoldsNodes(NodesOf(w.file))
    BY <1>3 DEF Filled
  <2>3. InnerNodes(w'.file) = NodesOf(w.file)
    BY <2>1, <2>2, InnerOfHeld
  <2>4. ASSUME Cardinality(Roots(InnerNodes(w'.file))) = 1
        PROVE  CutsAreBounds(w'.file)
    <3>1. PICK r : HasRoot(NodesOf(w.file), r)
      BY <2>2, <2>3, <2>4, TheRoot DEF HoldsNodes
    <3>2. CutAccount(w)
      BY <1>1, <1>3 DEF CutsInv
    <3> QED BY <1>1, <1>3, <3>1, <3>2, ClosedCutsAreSound
  <2> QED BY <2>1, <2>4 DEF CutsInv, CutsAreSound, OneRoot
<1> QED BY <1>1, <1>2, <1>3 DEF WriterInv

LEMMA CutsKept ==
    ASSUME WriterInv, CutsInv, [Next]_vars
    PROVE  CutsInv'
<1>1. CASE Attach
  BY <1>1, AttachKeepsCuts
<1>2. CASE \E v \in BOOLEAN : PushTerminal(v)
  BY <1>2, PushTerminalKeepsCuts
<1>3. CASE \E l \in Level, i \in 0 .. MaxId : PushNode(l, i)
  BY <1>3, PushNodeKeepsCuts
<1>4. CASE Close
  BY <1>4, CloseKeepsCuts
<1>5. CASE UNCHANGED vars
  <2>1. w' = w /\ attached' = attached
    BY <1>5 DEF vars
  <2> QED BY <2>1 DEF CutsInv, CutsAreSound, Complete, OneRoot
<1> QED BY <1>1, <1>2, <1>3, <1>4, <1>5 DEF Next

(* The 1-level and 2-level cuts that a closed file claims are at least the *)
(* true ones, of every kind, however the nodes of a diagram with one root  *)
(* were pushed (node_ofstream.h, push, close and fixup_ilevel_cuts).       *)
THEOREM ClosedFilesHaveSoundCuts == Spec => []CutsAreSound
<1>1. Init => WriterInv /\ CutsInv
  BY WriterStarts, CutsStart
<1>2. WriterInv /\ CutsInv /\ [Next]_vars => WriterInv' /\ CutsInv'
  BY WriterKeeps, CutsKept
<1>3. CutsInv => CutsAreSound
  BY DEF CutsInv
<1> QED BY <1>1, <1>2, <1>3, PTL DEF Spec

-----------------------------------------------------------------------------
(* The canonicity flags                                                    *)

(* A file with the flags that x has.                                       *)
FlagsAlike(x, y) == x.file.sorted = y.file.sorted /\ x.file.indexable = y.file.indexable

(* The flags of the file of z once n is flagged in x.                      *)
FlagsOf(z, x, n, first, new) ==
    /\ z.file.sorted = IF first THEN x.file.sorted ELSE x.file.sorted /\ (new \/ InOrder(x, n))
    /\ z.file.indexable = IF first THEN x.file.indexable /\ (IsTerminal(n.uid) \/ IdOf(n.uid) = MaxId)
                          ELSE x.file.indexable /\ Follows(x, n, new)

LEMMA FlagsSet ==
    ASSUME NEW x \in WriterType, NEW n, NEW first \in BOOLEAN, NEW new \in BOOLEAN
    PROVE  FlagsOf(Flagged(x, n, first, new), x, n, first, new)
<1>1. PICK f \in FileType : f = x.file
  BY DEF WriterType
<1>2. PICK a \in BOOLEAN : a = (f.indexable /\ (IsTerminal(n.uid) \/ IdOf(n.uid) = MaxId))
  BY Zenon
<1>3. PICK b \in BOOLEAN : b = (f.sorted /\ (new \/ InOrder(x, n)))
  BY Zenon
<1>4. PICK c \in BOOLEAN : c = (f.indexable /\ Follows(x, n, new))
  BY Zenon
<1>5. PICK g : g = [f EXCEPT !.indexable = a]
  OBVIOUS
<1>6. PICK h : h = [f EXCEPT !.sorted = b, !.indexable = c]
  OBVIOUS
<1>7. Flagged(x, n, first, new) = IF first THEN [x EXCEPT !.file = g] ELSE [x EXCEPT !.file = h]
  BY <1>1, <1>2, <1>3, <1>4, <1>5, <1>6, Zenon DEF Flagged
<1>8. g \in FileType /\ h \in FileType
      /\ g.sorted = f.sorted /\ g.indexable = a /\ h.sorted = b /\ h.indexable = c
  BY <1>5, <1>6 DEF FileType
<1>9. [x EXCEPT !.file = g].file = g /\ [x EXCEPT !.file = h].file = h
  BY <1>8, FileReplaced
<1>10. CASE first
  <2>1. Flagged(x, n, first, new).file = g
    BY <1>7, <1>9, <1>10
  <2> QED BY <1>1, <1>2, <1>8, <1>10, <2>1, Zenon DEF FlagsOf
<1>11. CASE ~first
  <2>1. Flagged(x, n, first, new).file = h
    BY <1>7, <1>9, <1>11
  <2> QED BY <1>1, <1>3, <1>4, <1>8, <1>11, <2>1, Zenon DEF FlagsOf
<1> QED BY <1>10, <1>11

LEMMA LevelKeepsFlags ==
    ASSUME NEW x \in WriterType, NEW l, NEW k
    PROVE  /\ FlagsAlike(UnsafePushLevel(x, l, k), x) /\ FlagsAlike(CommitLevel(x), x)
<1>1. ASSUME NEW m, NEW j
      PROVE  /\ FlagsAlike(UnsafePushLevel(x, m, j), x)
             /\ DOMAIN UnsafePushLevel(x, m, j) = DOMAIN x
  <2>1. PICK s, wid : UnsafePushLevel(x, m, j) = [x EXCEPT !.file.levels = s, !.file.width = wid]
    BY DEF UnsafePushLevel, WriterType, FileType
  <2> QED BY <2>1 DEF FlagsAlike, WriterType, FileType
<1>2. FlagsAlike(CommitLevel(x), x)
  <2>1. PICK y : y = UnsafePushLevel(x, LevelOf(x.latest.uid), x.levelSize)
    OBVIOUS
  <2>2. PICK m, p : CommitLevel(x) = [y EXCEPT !.levelSize = 0, !.maxShort = m, !.curShort = 0, !.longPtr = p]
    BY <2>1 DEF CommitLevel
  <2>3. CommitLevel(x).file = y.file
    BY <1>1, <2>1, <2>2 DEF WriterType
  <2> QED BY <1>1, <2>1, <2>3 DEF FlagsAlike
<1> QED BY <1>1, <1>2

LEMMA FlagsPushed ==
    ASSUME NEW x \in WriterType, NEW n \in NodeRecord
    PROVE  /\ Push(x, n).file.sorted =
                IF x.latest = Dummy THEN x.file.sorted
                ELSE x.file.sorted /\ (IsNewLevel(x, n) \/ InOrder(x, n))
           /\ Push(x, n).file.indexable =
                IF x.latest = Dummy
                THEN x.file.indexable /\ (IsTerminal(n.uid) \/ IdOf(n.uid) = MaxId)
                ELSE x.file.indexable /\ Follows(x, n, IsNewLevel(x, n))
<1> DEFINE first == x.latest = Dummy
           new == ~first /\ LevelOf(x.latest.uid) # LevelOf(n.uid)
           checked == Flagged(x, n, first, new)
           c == IF new THEN CommitLevel(checked) ELSE checked
           bottom == c.longPtr = Nil /\ IsNode(n.uid)
           long == Cardinality({s \in {"low", "high"} : IsLong(c, n[s])})
           short == Cardinality({s \in {"low", "high"} : IsNode(n[s]) /\ ~IsLong(c, n[s])})
           term == [v \in BOOLEAN |-> One(IsTerminal(n.uid) /\ Value(n.uid) = v)]
           y == [c EXCEPT !.file.terminals = [v \in BOOLEAN |-> @[v] + term[v]],
                          !.atBottom = [v \in BOOLEAN |-> @[v] + One(bottom) * TerminalsOf(n, v)],
                          !.long = @ + long, !.curShort = @ + short,
                          !.latest = n, !.levelSize = @ + 1]
<1>1. Push(x, n) = UnsafePushNode(y, n)
  BY DEF Push
<1>2. first \in BOOLEAN /\ new \in BOOLEAN /\ new = IsNewLevel(x, n)
  BY Zenon DEF IsNewLevel
<1>3. /\ checked.file.sorted = IF first THEN x.file.sorted
                                ELSE x.file.sorted /\ (new \/ InOrder(x, n))
      /\ checked.file.indexable = IF first
                                  THEN x.file.indexable /\ (IsTerminal(n.uid) \/ IdOf(n.uid) = MaxId)
                                  ELSE x.file.indexable /\ Follows(x, n, new)
  <2> HIDE DEF first, new
  <2>1. FlagsOf(checked, x, n, first, new)
    BY <1>2, FlagsSet, Zenon
  <2> QED BY <2>1, Zenon DEF FlagsOf
<1>4. checked \in WriterType
  <2> HIDE DEF first, new
  <2> QED BY <1>2, FlaggedIs, Zenon
<1> HIDE DEF first, new, checked
<1>5. c \in WriterType /\ FlagsAlike(c, checked)
  <2>1. CommitLevel(checked) \in WriterType
    BY <1>4, CommitLevelIs, Zenon
  <2>2. FlagsAlike(CommitLevel(checked), checked)
    BY <1>4, LevelKeepsFlags
  <2> QED BY <1>4, <2>1, <2>2 DEF FlagsAlike
<1>6. PICK t, a, m, o, k :
        y = [c EXCEPT !.file.terminals = t, !.atBottom = a, !.long = m, !.curShort = o,
                      !.latest = n, !.levelSize = k]
  BY DEF y
<1> HIDE DEF c, y
<1>7. FlagsAlike(y, c) /\ DOMAIN y = DOMAIN c /\ DOMAIN y.file = DOMAIN c.file
  BY <1>5, <1>6 DEF FlagsAlike, WriterType, FileType
<1>8. PICK s, u : UnsafePushNode(y, n) = [y EXCEPT !.file.nodes = s, !.file.terminals = u]
  BY DEF UnsafePushNode
<1>9. FlagsAlike(UnsafePushNode(y, n), y)
  BY <1>5, <1>7, <1>8 DEF FlagsAlike, WriterType, FileType
<1>10. /\ Push(x, n).file.sorted = checked.file.sorted
       /\ Push(x, n).file.indexable = checked.file.indexable
  BY <1>1, <1>5, <1>7, <1>9 DEF FlagsAlike
<1> QED BY <1>2, <1>3, <1>10, Zenon DEF first

LEMMA FlagsClosed ==
    ASSUME NEW x \in WriterType, x.open
    PROVE  FlagsAlike(Closed(x), x)
<1> DEFINE c == LevelCommitted(x)
           y == IF x.latest = Dummy THEN x ELSE WithCut1(c)
<1>1. FlagsAlike(c, x) /\ DOMAIN c = DOMAIN x /\ DOMAIN c.file = DOMAIN x.file
  <2>1. c = x \/ \E s, wid : c = [x EXCEPT !.file.levels = s, !.file.width = wid]
    BY DEF LevelCommitted, UnsafePushLevel, WriterType, FileType
  <2>2. CASE c = x
    BY <2>2 DEF FlagsAlike
  <2>3. ASSUME NEW s, NEW wid, c = [x EXCEPT !.file.levels = s, !.file.width = wid]
        PROVE  FlagsAlike(c, x) /\ DOMAIN c = DOMAIN x /\ DOMAIN c.file = DOMAIN x.file
    <3> HIDE DEF c
    <3> QED BY <2>3 DEF FlagsAlike, WriterType, FileType
  <2> HIDE DEF c
  <2> QED BY <2>1, <2>2, <2>3
<1> HIDE DEF c
<1>2. FlagsAlike(y, x) /\ DOMAIN y = DOMAIN x /\ DOMAIN y.file = DOMAIN x.file
  <2>1. PICK s, k : WithCut1(c) = [c EXCEPT !.levelSize = 0, !.maxShort = s, !.file.cut1 = k]
    BY DEF WithCut1
  <2>2. FlagsAlike(WithCut1(c), c) /\ DOMAIN WithCut1(c) = DOMAIN c
        /\ DOMAIN WithCut1(c).file = DOMAIN c.file
    BY <1>1, <2>1 DEF FlagsAlike, WriterType, FileType
  <2> QED BY <1>1, <2>2 DEF FlagsAlike
<1>3. Closed(x) = [y EXCEPT !.open = FALSE, !.file = Fixup(y.file)]
  BY DEF Closed, c
<1> HIDE DEF y
<1>4. PICK c1, c2 : Fixup(y.file) = [y.file EXCEPT !.cut1 = c1, !.cut2 = c2]
  BY DEF Fixup
<1>5. /\ Fixup(y.file).sorted = y.file.sorted
      /\ Fixup(y.file).indexable = y.file.indexable
  BY <1>2, <1>4 DEF WriterType, FileType
<1>6. Closed(x).file = Fixup(y.file)
  BY <1>2, <1>3 DEF WriterType
<1> QED BY <1>2, <1>5, <1>6 DEF FlagsAlike

(* The flags of an open writer say whether its nodes are in order and      *)
(* without a gap, if it was attached in the way that sets them at all.     *)
FlagsTell(x) ==
    /\ x.file.sorted <=> client.attach = "constructor" /\ IsOrdered(NodesOf(x.file))
    /\ x.file.indexable <=> client.attach = "constructor" /\ IsContiguous(NodesOf(x.file))

FlagsInv ==
    /\ zdd \in BOOLEAN
    /\ w.open /\ (Fresh(w) \/ Filled(w)) => FlagsTell(w)
    /\ w.open /\ Filled(w) => PlainDiagram(NodesOf(w.file))
    /\ CanonicalFlagsAreRight

LEMMA FlagsStart == Init => FlagsInv
<1> SUFFICES ASSUME Init PROVE FlagsInv
  OBVIOUS
<1>1. ~attached /\ zdd \in BOOLEAN
  BY ClientsAssumption DEF Init
<1>2. ~w.open
  BY OpenedIs DEF Init, WriterType
<1> QED BY <1>1, <1>2 DEF FlagsInv, CanonicalFlagsAreRight, Complete

LEMMA AttachKeepsFlags ==
    ASSUME zdd' \in BOOLEAN, client' = client, client \in Clients, Attach
    PROVE  FlagsInv'
<1>1. Fresh(w') /\ w'.open /\ ~Filled(w')
  BY OpenedIsFresh, OpenedIs, ConstructedIs, WritersDiffer DEF Attach
<1>2. NodesOf(w'.file) = {}
  BY <1>1 DEF Fresh, NodesOf
<1>3. client.attach \in {"constructor", "open"}
  BY ClientsAssumption
<1>4. CASE client.attach = "constructor"
  <2>1. w' = Constructed(EmptyFile)
    BY <1>4 DEF Attach
  <2>2. HasPushed(Opened(EmptyFile)) = FALSE
    BY OpenedIs DEF HasPushed
  <2>3. w'.file.sorted /\ w'.file.indexable
    BY <2>1, <2>2 DEF Constructed, Opened, EmptyFile
  <2> QED BY <1>1, <1>2, <1>4, <2>3, OrderOfNone
          DEF FlagsInv, FlagsTell, CanonicalFlagsAreRight, Complete
<1>5. CASE client.attach = "open"
  <2>1. w' = Opened(EmptyFile)
    BY <1>5 DEF Attach
  <2>2. ~w'.file.sorted /\ ~w'.file.indexable
    BY <2>1 DEF Opened, EmptyFile
  <2> QED BY <1>1, <1>2, <1>5, <2>2 DEF FlagsInv, FlagsTell, CanonicalFlagsAreRight, Complete
<1> QED BY <1>3, <1>4, <1>5

LEMMA PushTerminalKeepsFlags ==
    ASSUME WriterInv, zdd' \in BOOLEAN, NEW v \in BOOLEAN, PushTerminal(v)
    PROVE  FlagsInv'
<1>1. w.open /\ w.latest = Dummy /\ w' = Push(w, TerminalNode(v))
  BY DEF PushTerminal
<1>2. Fresh(w)
  BY <1>1, WritersDiffer, DummyIsInner, InnerIs DEF WriterInv, OneTerminal, Filled, HoldsNodes
<1>3. OneTerminal(w') /\ w'.open
  BY <1>1, <1>2, TerminalPush
<1> QED BY <1>3, WritersDiffer DEF FlagsInv, CanonicalFlagsAreRight, Complete

(* A client pushes a node on top of what it has pushed, with children of   *)
(* it, unless it has closed the file.                                      *)
LEMMA PushedIsOnTop ==
    ASSUME Fresh(w) \/ Filled(w), NEW l \in Level, NEW i \in 0 .. MaxId, MayPush(l, i),
           NEW low \in Children(l), NEW high \in Children(l)
    PROVE  LET n == Node(Uid(l, i), low, high)
           IN  /\ IsInner(n) /\ LevelOf(n.uid) = l /\ IdOf(n.uid) = i
               /\ Filled(w) => n.uid < w.latest.uid
               /\ IsTopNode(n, NodesOf(w.file))
               /\ \A s \in Sides : (\E v \in BOOLEAN : n[s] = Terminal(v))
                                   \/ \E m \in NodesOf(w.file) : m.uid = n[s]
<1>1. PICK n : n = Node(Uid(l, i), low, high)
  OBVIOUS
<1>2. l \in Nat /\ l < Levels
  BY DiagramAssumption DEF Level
<1>3. /\ low \in Nat /\ low # Nil /\ high \in Nat /\ Uid(l, i) \in Nat
      /\ LevelOf(Uid(l, i)) = l /\ IdOf(Uid(l, i)) = i
  BY <1>2, ChildrenAre, UidIs
<1>4. IsInner(n) /\ n.uid = Uid(l, i) /\ n.low = low /\ n.high = high
  BY <1>1, <1>3, NodeIs DEF IsInner
<1>5. ASSUME NEW p \in Children(l)
      PROVE  \/ \E v \in BOOLEAN : p = Terminal(v)
             \/ \E m \in NodesOf(w.file) : m.uid = p /\ l < LevelOf(m.uid)
  <2>1. CASE \E m \in InnerNodes(w.file) : LevelOf(m.uid) > l /\ p = m.uid
    <3>1. PICK m \in InnerNodes(w.file) : LevelOf(m.uid) > l /\ p = m.uid
      BY <2>1
    <3>2. m \in NodesOf(w.file)
      BY DEF InnerNodes
    <3>3. LevelOf(m.uid) \in Nat
      <4>1. ~Fresh(w)
        BY <3>2 DEF Fresh, NodesOf
      <4> QED BY <3>2, <4>1, NodesHaveLevels DEF Filled
    <3> QED BY <1>2, <3>1, <3>2, <3>3
  <2> QED BY <2>1 DEF Children
<1>6. \A s \in Sides : n[s] \in {low, high}
  BY <1>4 DEF Sides
<1>7. \A s \in Sides : \/ \E v \in BOOLEAN : n[s] = Terminal(v)
                       \/ \E m \in NodesOf(w.file) : m.uid = n[s] /\ l < LevelOf(m.uid)
  BY <1>5, <1>6
<1>8. Filled(w) => n.uid < w.latest.uid /\ \A m \in NodesOf(w.file) : n.uid < m.uid
  <2> SUFFICES ASSUME Filled(w)
               PROVE  n.uid < w.latest.uid /\ \A m \in NodesOf(w.file) : n.uid < m.uid
    OBVIOUS
  <2>1. IsInner(w.latest) /\ w.latest # Dummy
    BY InnerIs DEF Filled, HoldsNodes
  <2>2. PICK k \in Level, j \in 0 .. MaxId : w.latest.uid = Uid(k, j)
    BY <2>1 DEF IsInner
  <2>3. k \in Nat /\ LevelOf(w.latest.uid) = k /\ IdOf(w.latest.uid) = j
    BY <2>2, UidIs, DiagramAssumption DEF Level
  <2>4. k > l \/ (k = l /\ i < j)
    BY <1>2, <2>1, <2>3 DEF MayPush
  <2>5. n.uid < w.latest.uid
    BY <1>2, <1>4, <2>2, <2>3, <2>4, UidsAreOrdered
  <2> QED BY <1>4, <2>5, NextPush
<1>9. Fresh(w) => NodesOf(w.file) = {}
  BY DEF Fresh, NodesOf
<1>10. IsTopNode(n, NodesOf(w.file))
  <2>1. \A m \in NodesOf(w.file) : n.uid < m.uid
    BY <1>8, <1>9
  <2>2. \A s \in Sides : \/ IsTerminal(n[s])
                         \/ \E m \in NodesOf(w.file) : m.uid = n[s] /\ LevelOf(n.uid) < LevelOf(m.uid)
    BY <1>3, <1>4, <1>7, PointersAre
  <2> QED BY <1>4, <2>1, <2>2 DEF IsTopNode
<1> QED BY <1>1, <1>3, <1>4, <1>7, <1>8, <1>10

LEMMA PushNodeKeepsFlags ==
    ASSUME WriterInv, FlagsInv, zdd' \in BOOLEAN, client' = client,
           NEW l \in Level, NEW i \in 0 .. MaxId, PushNode(l, i)
    PROVE  FlagsInv'
<1>1. PICK low \in Children(l), high \in Children(l) :
        w' = Push(w, Node(Uid(l, i), low, high))
  BY DEF PushNode
<1>2. w.open /\ ~IsTerminal(w.latest.uid) /\ MayPush(l, i)
  BY DEF PushNode
<1>3. Fresh(w) \/ Filled(w)
  BY <1>2, TerminalIs DEF WriterInv, OneTerminal
<1>4. PICK n : n = Node(Uid(l, i), low, high)
  OBVIOUS
<1> DEFINE N == NodesOf(w.file)
<1>5. /\ IsInner(n) /\ LevelOf(n.uid) = l /\ IdOf(n.uid) = i
      /\ Filled(w) => n.uid < w.latest.uid
      /\ IsTopNode(n, N)
      /\ \A s \in Sides : (\E v \in BOOLEAN : n[s] = Terminal(v)) \/ \E m \in N : m.uid = n[s]
  BY <1>2, <1>3, <1>4, PushedIsOnTop
<1>6. w \in WriterType /\ n \in NodeRecord /\ ~IsTerminal(n.uid) /\ w' = Push(w, n)
  BY <1>1, <1>3, <1>4, <1>5, InnerIs DEF Fresh, Filled
<1>7. /\ w'.file.sorted = IF w.latest = Dummy THEN w.file.sorted
                          ELSE w.file.sorted /\ (IsNewLevel(w, n) \/ InOrder(w, n))
      /\ w'.file.indexable = IF w.latest = Dummy
                             THEN w.file.indexable /\ (IsTerminal(n.uid) \/ IdOf(n.uid) = MaxId)
                             ELSE w.file.indexable /\ Follows(w, n, IsNewLevel(w, n))
  BY <1>6, FlagsPushed
<1>8. FlagsTell(w)
  BY <1>2, <1>3 DEF FlagsInv
<1>9. PlainDiagram(N \cup {n})
  <2>1. PlainDiagram(N) \/ N = {}
    BY <1>2, <1>3 DEF FlagsInv, Fresh, NodesOf
  <2> QED BY <1>5, <2>1, PlainGrows
<1>10. CASE Fresh(w)
  <2>1. N = {} /\ w.latest = Dummy
    BY <1>10 DEF Fresh, NodesOf
  <2>2. NodesOf(w'.file) = {n} /\ Filled(w') /\ w'.open
    BY <1>2, <1>5, <1>6, <1>10, FirstPush
  <2>3. FlagsTell(w)' 
    BY <1>6, <1>7, <1>8, <2>1, <2>2, <1>5, OrderOfOne, OrderOfNone DEF FlagsTell
  <2> QED BY <1>9, <2>1, <2>2, <2>3 DEF FlagsInv, CanonicalFlagsAreRight, Complete
<1>11. CASE Filled(w)
  <2>1. /\ HoldsNodes(N) /\ w.latest \in N /\ \A m \in N : m = w.latest \/ m.uid > w.latest.uid
        /\ w.latest # Dummy /\ w.latest \in NodeRecord
    BY <1>11, InnerIs DEF Filled, HoldsNodes
  <2>2. NodesOf(w'.file) = N \cup {n} /\ Filled(w') /\ w'.open
    BY <1>2, <1>5, <1>6, <1>11, NextPush
  <2>3. /\ IsOrdered(N \cup {n}) <=>
             IsOrdered(N) /\ (LevelOf(w.latest.uid) # LevelOf(n.uid) \/ Precedes(w.latest, n))
        /\ IsContiguous(N \cup {n}) <=>
             /\ IsContiguous(N)
             /\ IF LevelOf(w.latest.uid) # LevelOf(n.uid) THEN IdOf(n.uid) = MaxId
                                                          ELSE IdOf(n.uid) = IdOf(w.latest.uid) - 1
    BY <1>5, <1>11, <2>1, OrderGrows
  <2>4. InOrder(w, n) <=> Precedes(w.latest, n)
    BY <1>6, <2>1 DEF InOrder, Precedes, NodeRecord
  <2>5. PICK new \in BOOLEAN : new = (LevelOf(w.latest.uid) # LevelOf(n.uid))
    OBVIOUS
  <2>6. IsNewLevel(w, n) = new
    BY <2>1, <2>5 DEF IsNewLevel
  <2>7. /\ w'.file.sorted = (w.file.sorted /\ (new \/ InOrder(w, n)))
        /\ w'.file.indexable = (w.file.indexable /\ Follows(w, n, new))
    BY <1>7, <2>1, <2>6
  <2>8. Follows(w, n, new) <=> IF new THEN IdOf(n.uid) = MaxId ELSE IdOf(n.uid) = IdOf(w.latest.uid) - 1
    BY DEF Follows
  <2>9. FlagsTell(w)'
    BY <1>8, <2>2, <2>3, <2>4, <2>5, <2>7, <2>8 DEF FlagsTell
  <2> QED BY <1>9, <2>2, <2>9 DEF FlagsInv, CanonicalFlagsAreRight, Complete
<1> QED BY <1>3, <1>10, <1>11

LEMMA CloseKeepsFlags ==
    ASSUME WriterInv, FlagsInv, zdd' = zdd, client' = client, Close
    PROVE  FlagsInv'
<1>1. w.open /\ w' = Closed(w) /\ zdd' \in BOOLEAN
  BY DEF Close, FlagsInv
<1>2. CASE Fresh(w) \/ OneTerminal(w)
  <2>1. ~w'.open /\ InnerNodes(w'.file) = {}
    BY <1>1, <1>2, EmptyIsExact
  <2>2. Cardinality(Roots(InnerNodes(w'.file))) # 1
    <3>1. Roots(InnerNodes(w'.file)) = {}
      BY <2>1 DEF Roots
    <3>2. Cardinality(Roots(InnerNodes(w'.file))) = 0
      BY <3>1, FS_EmptySet
    <3> QED BY <3>2
  <2> QED BY <1>1, <2>1, <2>2 DEF FlagsInv, CanonicalFlagsAreRight, FlagsMeanCanonical, OneRoot
<1>3. CASE Filled(w)
  <2> DEFINE N == NodesOf(w.file)
             r == CHOOSE n \in Roots(N) : TRUE
  <2>1. ~w'.open /\ NodesOf(w'.file) = N
    BY <1>1, <1>3, ClosedIsExact
  <2>2. HoldsNodes(N) /\ PlainDiagram(N) /\ FlagsTell(w) /\ w \in WriterType
    BY <1>1, <1>3 DEF Filled, FlagsInv
  <2>3. InnerNodes(w'.file) = N
    BY <2>1, <2>2, InnerOfHeld
  <2>4. w'.file.sorted = w.file.sorted /\ w'.file.indexable = w.file.indexable
    BY <1>1, <2>2, FlagsClosed DEF FlagsAlike
  <2>5. ASSUME Cardinality(Roots(N)) = 1
        PROVE  HasRoot(N, r)
    BY <2>2, <2>5, TheChosenRoot DEF HoldsNodes
  <2>6. zdd \in BOOLEAN
    BY DEF FlagsInv
  <2>7. ASSUME Cardinality(Roots(N)) = 1, w.file.sorted, w.file.indexable, Reduced(N)
        PROVE  N = CanonicalNodes(Denotes(N, r.uid))
    <3>1. IsOrdered(N) /\ IsContiguous(N)
      BY <2>2, <2>7 DEF FlagsTell
    <3> QED BY <2>2, <2>5, <2>6, <2>7, <3>1, NumberedDiagramIsCanonical
  <2>8. ASSUME Cardinality(Roots(N)) = 1, N = CanonicalNodes(Denotes(N, r.uid)),
               client.attach = "constructor"
        PROVE  w.file.sorted /\ w.file.indexable
    <3>1. IsOrdered(N) /\ IsContiguous(N)
      BY <2>2, <2>5, <2>6, <2>8, CanonicalIsNumbered
    <3> QED BY <2>2, <2>8, <3>1 DEF FlagsTell
  <2>9. /\ InnerNodes(w.file)' = N /\ w'.file.sorted = w.file.sorted
        /\ w'.file.indexable = w.file.indexable /\ zdd' = zdd /\ client' = client
    BY <2>3, <2>4
  <2> HIDE DEF N
  <2>10. FlagsMeanCanonical(w.file)'
    BY <2>7, <2>9 DEF FlagsMeanCanonical, CanonicalNodes, Denotes, Reduced, ReductionRule, r
  <2>11. (client.attach = "constructor" /\ OneRoot =>
             LET inner == InnerNodes(w.file)
             IN  inner = CanonicalNodes(Denotes(inner, (CHOOSE n \in Roots(inner) : TRUE).uid))
                     => w.file.sorted /\ w.file.indexable)'
    BY <2>8, <2>9 DEF CanonicalNodes, Denotes, OneRoot, r
  <2> QED BY <1>1, <2>1, <2>10, <2>11 DEF FlagsInv, CanonicalFlagsAreRight
<1> QED BY <1>1, <1>2, <1>3 DEF WriterInv

LEMMA FlagsKept ==
    ASSUME WriterInv, FlagsInv, client \in Clients, [Next]_vars
    PROVE  FlagsInv'
<1>1. zdd' = zdd /\ client' = client /\ zdd' \in BOOLEAN
  BY DEF Next, vars, FlagsInv
<1>2. CASE Attach
  BY <1>1, <1>2, AttachKeepsFlags
<1>3. CASE \E v \in BOOLEAN : PushTerminal(v)
  BY <1>1, <1>3, PushTerminalKeepsFlags
<1>4. CASE \E l \in Level, i \in 0 .. MaxId : PushNode(l, i)
  BY <1>1, <1>4, PushNodeKeepsFlags
<1>5. CASE Close
  BY <1>1, <1>5, CloseKeepsFlags
<1>6. CASE UNCHANGED vars
  <2>1. w' = w /\ attached' = attached
    BY <1>6 DEF vars
  <2>2. FlagsTell(w)' <=> FlagsTell(w)
    BY <1>1, <2>1 DEF FlagsTell
  <2>3. CanonicalFlagsAreRight' <=> CanonicalFlagsAreRight
    BY <1>1, <2>1 DEF CanonicalFlagsAreRight, Complete, OneRoot, FlagsMeanCanonical,
                      CanonicalNodes, Denotes, Reduced, ReductionRule
  <2> QED BY <1>1, <2>1, <2>2, <2>3 DEF FlagsInv
<1> QED BY <1>2, <1>3, <1>4, <1>5, <1>6 DEF Next

(* A closed file with both canonicity flags and a reduced diagram with one *)
(* root has exactly the nodes of the one canonical diagram of its function *)
(* - comparing two such files node by node decides whether their functions *)
(* are equal, as pred.cpp does - and a writer attached by its constructor  *)
(* leaves the flags set on every canonical file (node_ofstream.h, push).   *)
THEOREM ClosedFilesAreCanonical == Spec => []CanonicalFlagsAreRight
<1> DEFINE I == client \in Clients /\ WriterInv /\ FlagsInv
<1>1. Init => I
  BY WriterStarts, FlagsStart DEF Init
<1>2. I /\ [Next]_vars => I'
  BY WriterKeeps, FlagsKept DEF Next, vars
<1>3. I => CanonicalFlagsAreRight
  BY DEF FlagsInv
<1> HIDE DEF I
<1> QED BY <1>1, <1>2, <1>3, PTL DEF Spec
=============================================================================
