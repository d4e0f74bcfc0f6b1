-------------------------- MODULE NodeFile_proofs --------------------------
(***************************************************************************)
(* Lemmas about pointers, about the writer of nodes, and about the cuts it *)
(* leaves in a file, for every number of levels and of identifiers on one. *)
(***************************************************************************)
EXTENDS NodeFile, FiniteSetTheorems, SequenceTheorems, TLAPS

-----------------------------------------------------------------------------
(* Pointers                                                                *)

LEMMA MultiplesAreOrdered ==
    ASSUME NEW k \in Nat, NEW l \in Nat, NEW m \in Nat, l <= m
    PROVE  l * k <= m * k
<1>1. PICK d \in Nat : m = l + d
  BY m - l \in Nat
<1>2. m * k = l * k + d * k /\ d * k \in Nat /\ l * k \in Nat
  BY <1>1
<1> QED BY <1>2

LEMMA DivMod ==
    ASSUME NEW k \in Nat, NEW l \in Nat, NEW j \in 0 .. k - 1
    PROVE  (l * k + j) \div k = l /\ (l * k + j) % k = j
<1>1. l * k \in Nat
  OBVIOUS
<1>2. (l * k + j) \in Nat /\ k > 0
  BY <1>1
<1> DEFINE q == (l * k + j) \div k
           r == (l * k + j) % k
<1>3. q \in Int /\ r \in 0 .. k - 1 /\ l * k + j = k * q + r
  BY <1>2
<1> QED BY <1>3

(* A level and an identifier on it are what a uid is made of.              *)
LEMMA UidIs ==
    ASSUME NEW l \in Nat, NEW i \in 0 .. MaxId
    PROVE  /\ Uid(l, i) \in Nat /\ Uid(l, i) % 4 = 0
           /\ LevelOf(Uid(l, i)) = l /\ IdOf(Uid(l, i)) = i
<1> DEFINE k == 4 * (MaxId + 1)
<1>1. k \in Nat /\ MaxId \in Nat /\ 4 * i \in 0 .. k - 1
  BY DiagramAssumption
<1>2. PICK q \in Nat : q = l * (MaxId + 1)
  BY <1>1
<1>3. l * k = 4 * q
  BY <1>1, <1>2
<1>4. Uid(l, i) = 4 * (q + i) /\ Uid(l, i) = l * k + 4 * i
  BY <1>2, <1>3 DEF Uid
<1>5. Uid(1, 0) = k
  BY <1>1 DEF Uid
<1>6. (l * k + 4 * i) \div k = l /\ (l * k + 4 * i) % k = 4 * i
  BY <1>1, DivMod
<1>7. LevelOf(Uid(l, i)) = l
  BY <1>4, <1>5, <1>6 DEF LevelOf
<1>8. IdOf(Uid(l, i)) = (4 * i) \div 4
  BY <1>4, <1>5, <1>6 DEF IdOf
<1>9. (4 * i) \div 4 = i
  OBVIOUS
<1>10. Uid(l, i) \in Nat /\ Uid(l, i) % 4 = 0
  BY <1>2, <1>4
<1> QED BY <1>7, <1>8, <1>9, <1>10

(* Uids are ordered by their levels first.                                 *)
LEMMA UidsAreOrdered ==
    ASSUME NEW l \in Nat, NEW m \in Nat, NEW i \in 0 .. MaxId, NEW j \in 0 .. MaxId
    PROVE  Uid(l, i) < Uid(m, j) <=> l < m \/ (l = m /\ i < j)
<1> DEFINE k == MaxId + 1
<1>1. k \in Nat /\ MaxId \in Nat
  BY DiagramAssumption
<1>2. PICK a \in Nat, b \in Nat : a = l * k /\ b = m * k
  BY <1>1
<1>3. Uid(l, i) = 4 * (a + i) /\ Uid(m, j) = 4 * (b + j)
  BY <1>2 DEF Uid
<1>4. CASE l = m
  BY <1>2, <1>3, <1>4
<1>5. CASE l < m
  <2>1. (l + 1) * k <= m * k /\ (l + 1) * k = a + k
    BY <1>1, <1>2, <1>5, MultiplesAreOrdered
  <2> QED BY <1>1, <1>2, <1>3, <1>5, <2>1
<1>6. CASE m < l
  <2>1. (m + 1) * k <= l * k /\ (m + 1) * k = b + k
    BY <1>1, <1>2, <1>6, MultiplesAreOrdered
  <2> QED BY <1>1, <1>2, <1>3, <1>6, <2>1
<1> QED BY <1>4, <1>5, <1>6

(* A uid of a level is a node; terminals are above all nodes, nil is none. *)
LEMMA PointersAre ==
    /\ \A l \in Level, i \in 0 .. MaxId : IsNode(Uid(l, i)) /\ ~IsTerminal(Uid(l, i))
    /\ \A v \in BOOLEAN : /\ Terminal(v) \in Nat /\ IsTerminal(Terminal(v))
                          /\ ~IsNode(Terminal(v)) /\ Terminal(v) % 4 \in {0, 2}
    /\ Nil \in Nat /\ ~IsNode(Nil) /\ ~IsTerminal(Nil)
    /\ Uid(0, 0) = 0
<1>1. Levels \in Nat /\ MaxId \in Nat /\ 0 \in 0 .. MaxId
  BY DiagramAssumption
<1>2. PICK t \in Nat : t = Uid(Levels, 0) /\ t % 4 = 0
  BY <1>1, UidIs
<1>3. Terminal(FALSE) = t /\ Terminal(TRUE) = t + 2
  BY <1>2 DEF Terminal
<1>0. \A p : (IsNode(p) <=> p < t) /\ (IsTerminal(p) <=> t <= p /\ p < Nil)
  BY <1>3, Zenon DEF IsNode, IsTerminal
<1>4. Nil \in Nat /\ Nil = t + 4 * (MaxId + 1)
  <2>1. PICK q \in Nat : q = Levels * (MaxId + 1)
    BY <1>1
  <2>2. (Levels + 1) * (MaxId + 1) = q + (MaxId + 1)
    BY <1>1, <2>1
  <2>3. t = 4 * (q + 0) /\ Nil = 4 * (q + (MaxId + 1) + 0)
    BY <1>2, <2>1, <2>2 DEF Uid, Nil
  <2> QED BY <1>1, <2>1, <2>3
<1>5. ASSUME NEW l \in Level, NEW i \in 0 .. MaxId
      PROVE  IsNode(Uid(l, i)) /\ ~IsTerminal(Uid(l, i))
  <2>1. l \in Nat /\ l < Levels
    BY <1>1 DEF Level
  <2>2. Uid(l, i) < Uid(Levels, 0) /\ Uid(l, i) \in Nat
    BY <1>1, <2>1, UidsAreOrdered, UidIs
  <2> QED BY <1>0, <1>2, <2>2
<1>6. ASSUME NEW v \in BOOLEAN
      PROVE  /\ Terminal(v) \in Nat /\ Terminal(v) % 4 \in {0, 2}
             /\ IsTerminal(Terminal(v)) /\ ~IsNode(Terminal(v))
  <2>1. PICK p : p = Terminal(v)
    OBVIOUS
  <2>2. p = t \/ p = t + 2
    BY <1>3, <2>1
  <2>3. p \in Nat /\ t <= p /\ p < Nil
    BY <1>1, <1>4, <2>2
  <2>4. p % 4 \in {0, 2}
    BY <1>2, <2>2
  <2>5. IsTerminal(p) /\ ~IsNode(p)
    BY <1>0, <1>2, <1>4, <2>3
  <2> QED BY <2>1, <2>3, <2>4, <2>5
<1>8. ~IsNode(Nil) /\ ~IsTerminal(Nil)
  <2>1. t <= Nil
    BY <1>1, <1>4
  <2> QED BY <1>0, <1>2, <1>4, <2>1
<1>9. Uid(0, 0) = 0
  BY <1>1 DEF Uid
<1> QED BY <1>4, <1>5, <1>6, <1>8, <1>9

-----------------------------------------------------------------------------
(* The writer                                                              *)

NodeRecord == [uid : Nat, low : Nat, high : Nat]
LevelRecord == [level : Nat, width : Nat]

FileType ==
    [nodes : Seq(NodeRecord), levels : Seq(LevelRecord), sorted : BOOLEAN, indexable : BOOLEAN,
     width : Nat, terminals : [BOOLEAN -> Nat],
     cut1 : [CutKinds -> Nat], cut2 : [CutKinds -> Nat]]

WriterType ==
    [open : BOOLEAN, file : FileType, latest : NodeRecord, levelSize : Nat,
     atBottom : [BOOLEAN -> Nat], maxShort : Nat, curShort : Nat, longPtr : Nat, long : Nat]

(* Whether a node is the first on a level other than that of the latest.   *)
IsNewLevel(w, n) == w.latest # Dummy /\ LevelOf(w.latest.uid) # LevelOf(n.uid)

LEMMA BiggerIs ==
    ASSUME NEW a \in Nat, NEW b \in Nat
    PROVE  Bigger(a, b) \in Nat /\ Bigger(a, b) >= a /\ Bigger(a, b) >= b
           /\ Bigger(a, b) \in {a, b}
BY DEF Bigger

LEMMA NodeIs ==
    ASSUME NEW u \in Nat, NEW low \in Nat, NEW high \in Nat
    PROVE  /\ Node(u, low, high) \in NodeRecord
           /\ Node(u, low, high).uid = u
           /\ Node(u, low, high).low = low /\ Node(u, low, high).high = high
BY DEF Node, NodeRecord

LEMMA DummyIs == Dummy \in NodeRecord /\ Dummy.uid = 0 /\ Dummy.low = Nil /\ Dummy.high = Nil
BY PointersAre, NodeIs DEF Dummy

LEMMA LevelsOfUids ==
    ASSUME NEW p \in Nat
    PROVE  LevelOf(p) \in Nat
<1>1. MaxId \in Nat
  BY DiagramAssumption
<1>2. Uid(1, 0) \in Nat /\ Uid(1, 0) > 0
  BY <1>1 DEF Uid
<1>3. p \div Uid(1, 0) \in Nat
  BY <1>2
<1> QED BY <1>3 DEF LevelOf

LEMMA OpenedIs ==
    /\ Opened(EmptyFile) \in WriterType /\ Opened(EmptyFile).open
    /\ Opened(EmptyFile).file.nodes = << >> /\ Opened(EmptyFile).file.levels = << >>
    /\ Opened(EmptyFile).latest = Dummy /\ Opened(EmptyFile).levelSize = 0
    /\ Opened(EmptyFile).file.width = 0
    /\ Opened(EmptyFile).file.terminals = [v \in BOOLEAN |-> 0]
<1>1. EmptyFile \in FileType /\ EmptyFile.nodes = << >> /\ EmptyFile.levels = << >>
      /\ EmptyFile.width = 0 /\ EmptyFile.terminals = [v \in BOOLEAN |-> 0]
  BY CutAssumption DEF EmptyFile, FileType
<1> QED BY <1>1, DummyIs, PointersAre DEF Opened, WriterType

LEMMA ConstructedIs ==
    /\ Constructed(EmptyFile) \in WriterType /\ Constructed(EmptyFile).open
    /\ Constructed(EmptyFile).file.nodes = << >> /\ Constructed(EmptyFile).file.levels = << >>
    /\ Constructed(EmptyFile).latest = Dummy /\ Constructed(EmptyFile).levelSize = 0
    /\ Constructed(EmptyFile).file.width = 0
    /\ Constructed(EmptyFile).file.terminals = [v \in BOOLEAN |-> 0]
<1>1. PICK w \in WriterType : w = Opened(EmptyFile)
  BY OpenedIs
<1>2. PICK c \in BOOLEAN : c = ~HasPushed(w)
  BY Zenon
<1>3. PICK f : f = [w.file EXCEPT !.sorted = c, !.indexable = c]
  OBVIOUS
<1>4. Constructed(EmptyFile) = [w EXCEPT !.file = f]
  BY <1>1, <1>2, <1>3, Zenon DEF Constructed
<1>5. f \in FileType /\ f.nodes = w.file.nodes /\ f.levels = w.file.levels
      /\ f.width = w.file.width /\ f.terminals = w.file.terminals
  BY <1>3 DEF WriterType, FileType
<1>6. [w EXCEPT !.file = f] \in WriterType
  BY <1>5 DEF WriterType
<1>7. /\ [w EXCEPT !.file = f].file = f /\ [w EXCEPT !.file = f].open = w.open
      /\ [w EXCEPT !.file = f].latest = w.latest
      /\ [w EXCEPT !.file = f].levelSize = w.levelSize
  BY DEF WriterType
<1> QED BY <1>1, <1>4, <1>5, <1>6, <1>7, OpenedIs

(* Equal in what is counted of the arcs.                                   *)
CountAlike(x, w) ==
    /\ x.atBottom = w.atBottom /\ x.maxShort = w.maxShort /\ x.curShort = w.curShort
    /\ x.longPtr = w.longPtr /\ x.long = w.long

(* Equal in all but the flags.                                             *)
AreAlike(x, w) ==
    /\ CountAlike(x, w) /\ x.file.cut2 = w.file.cut2
    /\ x.open = w.open /\ x.latest = w.latest /\ x.levelSize = w.levelSize
    /\ x.file.nodes = w.file.nodes /\ x.file.levels = w.file.levels
    /\ x.file.width = w.file.width /\ x.file.terminals = w.file.terminals

LEMMA FileReplaced ==
    ASSUME NEW w \in WriterType, NEW f \in FileType
    PROVE  /\ [w EXCEPT !.file = f] \in WriterType
           /\ [w EXCEPT !.file = f].file = f /\ [w EXCEPT !.file = f].open = w.open
           /\ [w EXCEPT !.file = f].latest = w.latest
           /\ [w EXCEPT !.file = f].levelSize = w.levelSize
           /\ CountAlike([w EXCEPT !.file = f], w)
BY DEF WriterType, CountAlike

LEMMA FlaggedIs ==
    ASSUME NEW w \in WriterType, NEW n \in NodeRecord, NEW first \in BOOLEAN,
           NEW newLevel \in BOOLEAN
    PROVE  Flagged(w, n, first, newLevel) \in WriterType /\ AreAlike(Flagged(w, n, first, newLevel), w)
<1>1. PICK f \in FileType : f = w.file
  BY DEF WriterType
<1>2. PICK a \in BOOLEAN : a = (f.indexable /\ (IsTerminal(n.uid) \/ IdOf(n.uid) = MaxId))
  BY Zenon
<1>3. PICK b \in BOOLEAN : b = (f.sorted /\ (newLevel \/ InOrder(w, n)))
  BY Zenon
<1>4. PICK c \in BOOLEAN : c = (f.indexable /\ Follows(w, n, newLevel))
  BY Zenon
<1>5. PICK g : g = [f EXCEPT !.indexable = a]
  OBVIOUS
<1>6. PICK h : h = [f EXCEPT !.sorted = b, !.indexable = c]
  OBVIOUS
<1>7. Flagged(w, n, first, newLevel) = IF first THEN [w EXCEPT !.file = g] ELSE [w EXCEPT !.file = h]
  BY <1>1, <1>2, <1>3, <1>4, <1>5, <1>6, Zenon DEF Flagged
<1>8. /\ g \in FileType /\ g.nodes = f.nodes /\ g.levels = f.levels
      /\ g.width = f.width /\ g.terminals = f.terminals /\ g.cut2 = f.cut2
  BY <1>5 DEF FileType
<1>9. /\ h \in FileType /\ h.nodes = f.nodes /\ h.levels = f.levels
      /\ h.width = f.width /\ h.terminals = f.terminals /\ h.cut2 = f.cut2
  BY <1>6 DEF FileType
<1>10. CASE first
  BY <1>1, <1>7, <1>8, <1>10, FileReplaced DEF AreAlike
<1>11. CASE ~first
  BY <1>1, <1>7, <1>9, <1>11, FileReplaced DEF AreAlike
<1> QED BY <1>10, <1>11

LEMMA UnsafePushLevelIs ==
    ASSUME NEW w \in WriterType, NEW l \in Nat, NEW wid \in Nat
    PROVE  LET x == UnsafePushLevel(w, l, wid)
           IN  /\ x \in WriterType
               /\ x.open = w.open /\ x.latest = w.latest /\ x.levelSize = w.levelSize
               /\ x.file.nodes = w.file.nodes /\ x.file.terminals = w.file.terminals
               /\ x.file.levels = Append(w.file.levels, [level |-> l, width |-> wid])
               /\ x.file.width = Bigger(w.file.width, wid)
               /\ CountAlike(x, w) /\ x.file.cut2 = w.file.cut2
<1>1. PICK f \in FileType : f = w.file
  BY DEF WriterType
<1>2. PICK r \in LevelRecord : r = [level |-> l, width |-> wid]
  BY DEF LevelRecord
<1>3. PICK m \in Nat : m = Bigger(f.width, wid)
  BY BiggerIs DEF FileType
<1>4. PICK s \in Seq(LevelRecord) : s = Append(f.levels, r)
  BY AppendProperties DEF FileType
<1>5. PICK g : g = [f EXCEPT !.levels = s, !.width = m]
  OBVIOUS
<1>6. UnsafePushLevel(w, l, wid) = [w EXCEPT !.file = g]
  BY <1>1, <1>2, <1>3, <1>4, <1>5, Zenon DEF UnsafePushLevel
<1>7. /\ g \in FileType /\ g.nodes = f.nodes /\ g.levels = s
      /\ g.width = m /\ g.terminals = f.terminals /\ g.cut2 = f.cut2
  BY <1>5 DEF FileType
<1> QED BY <1>1, <1>2, <1>3, <1>4, <1>6, <1>7, FileReplaced

LEMMA CommitLevelIs ==
    ASSUME NEW w \in WriterType
    PROVE  LET x == CommitLevel(w)
           IN  /\ x \in WriterType
               /\ x.open = w.open /\ x.latest = w.latest /\ x.levelSize = 0
               /\ x.file.nodes = w.file.nodes /\ x.file.terminals = w.file.terminals
               /\ x.file.levels = Append(w.file.levels,
                      [level |-> LevelOf(w.latest.uid), width |-> w.levelSize])
               /\ x.file.width = Bigger(w.file.width, w.levelSize)
               /\ x.atBottom = w.atBottom /\ x.long = w.long /\ x.file.cut2 = w.file.cut2
               /\ x.maxShort = Bigger(w.maxShort, w.curShort) /\ x.curShort = 0
               /\ x.longPtr = Uid(LevelOf(w.latest.uid), MaxId)
<1>1. PICK l \in Nat : l = LevelOf(w.latest.uid)
  BY LevelsOfUids DEF WriterType, NodeRecord
<1>2. w.levelSize \in Nat
  BY DEF WriterType
<1>3. PICK y \in WriterType : y = UnsafePushLevel(w, l, w.levelSize)
  BY <1>1, <1>2, UnsafePushLevelIs
<1>4. PICK u \in Nat : u = Uid(l, MaxId)
  BY UidIs, DiagramAssumption
<1>5. PICK m \in Nat : m = Bigger(y.maxShort, w.curShort)
  BY BiggerIs DEF WriterType
<1>6. CommitLevel(w) = [y EXCEPT !.levelSize = 0, !.maxShort = m, !.curShort = 0, !.longPtr = u]
  BY <1>1, <1>3, <1>4, <1>5 DEF CommitLevel, WriterType
<1>7. PICK z : z = [y EXCEPT !.levelSize = 0, !.maxShort = m, !.curShort = 0, !.longPtr = u]
  OBVIOUS
<1>8. /\ z \in WriterType /\ z.open = y.open /\ z.latest = y.latest
      /\ z.levelSize = 0 /\ z.file = y.file
      /\ z.atBottom = y.atBottom /\ z.long = y.long
      /\ z.maxShort = m /\ z.curShort = 0 /\ z.longPtr = u
  BY <1>7 DEF WriterType
<1>9. /\ y.open = w.open /\ y.latest = w.latest
      /\ y.file.nodes = w.file.nodes /\ y.file.terminals = w.file.terminals
      /\ y.file.levels = Append(w.file.levels, [level |-> l, width |-> w.levelSize])
      /\ y.file.width = Bigger(w.file.width, w.levelSize)
      /\ CountAlike(y, w) /\ y.file.cut2 = w.file.cut2
  BY <1>2, <1>3, UnsafePushLevelIs, SMTT(30)
<1>10. CommitLevel(w) = z
  BY <1>6, <1>7
<1>11. /\ y.atBottom = w.atBottom /\ y.long = w.long
       /\ y.maxShort = w.maxShort
  BY <1>9 DEF CountAlike
<1> QED BY <1>1, <1>4, <1>5, <1>8, <1>9, <1>10, <1>11

(* A set of the two children of a node is finite.                          *)
LEMMA SidesAreFinite ==
    ASSUME NEW S, S \subseteq {"low", "high"}
    PROVE  IsFiniteSet(S) /\ Cardinality(S) \in Nat
<1>1. IsFiniteSet({"low", "high"})
  <2>1. IsFiniteSet({"low"})
    BY FS_Singleton, Zenon
  <2>2. IsFiniteSet({"low"} \cup {"high"})
    BY <2>1, FS_AddElement, Zenon
  <2>3. {"low"} \cup {"high"} = {"low", "high"}
    OBVIOUS
  <2> QED BY <2>2, <2>3
<1>2. IsFiniteSet(S)
  BY <1>1, FS_Subset, Zenon
<1> QED BY <1>2, FS_CardinalityType, Zenon

LEMMA TerminalsOfIs ==
    ASSUME NEW n, NEW v \in BOOLEAN
    PROVE  TerminalsOf(n, v) \in Nat
<1>1. \A b \in BOOLEAN : One(b) \in Nat
  BY DEF One
<1>2. PICK x \in BOOLEAN : x = (IsTerminal(n.low) /\ Value(n.low) = v)
  BY Zenon
<1>3. PICK y \in BOOLEAN : y = (IsTerminal(n.high) /\ Value(n.high) = v)
  BY Zenon
<1>4. TerminalsOf(n, v) = One(x) + One(y)
  BY <1>2, <1>3, Zenon DEF TerminalsOf
<1> QED BY <1>1, <1>4

LEMMA UnsafePushNodeIs ==
    ASSUME NEW w \in WriterType, NEW n \in NodeRecord
    PROVE  LET x == UnsafePushNode(w, n)
           IN  /\ x \in WriterType
               /\ x.open = w.open /\ x.latest = w.latest /\ x.levelSize = w.levelSize
               /\ x.file.nodes = Append(w.file.nodes, n)
               /\ x.file.levels = w.file.levels /\ x.file.width = w.file.width
               /\ \A v \in BOOLEAN :
                    x.file.terminals[v] = w.file.terminals[v] + TerminalsOf(n, v)
               /\ CountAlike(x, w) /\ x.file.cut2 = w.file.cut2
<1>1. PICK f \in FileType : f = w.file
  BY DEF WriterType
<1>2. PICK s \in Seq(NodeRecord) : s = Append(f.nodes, n)
  BY AppendProperties DEF FileType
<1>3. PICK t : t = [v \in BOOLEAN |-> f.terminals[v] + TerminalsOf(n, v)]
  OBVIOUS
<1>4. t \in [BOOLEAN -> Nat] /\ \A v \in BOOLEAN : t[v] = f.terminals[v] + TerminalsOf(n, v)
  BY <1>3, TerminalsOfIs DEF FileType
<1>5. PICK g : g = [f EXCEPT !.nodes = s, !.terminals = t]
  OBVIOUS
<1>6. UnsafePushNode(w, n) = [w EXCEPT !.file = g]
  BY <1>1, <1>2, <1>3, <1>5, Zenon DEF UnsafePushNode, WriterType, FileType
<1>7. /\ g \in FileType /\ g.nodes = s /\ g.levels = f.levels
      /\ g.width = f.width /\ g.terminals = t /\ g.cut2 = f.cut2
  BY <1>4, <1>5 DEF FileType
<1> QED BY <1>1, <1>2, <1>4, <1>6, <1>7, FileReplaced

(* The level that arcs from a pushed node pass if they are long, and the    *)
(* children at the end of its long and of its short arcs.                  *)
PtrAfter(w, n) == IF IsNewLevel(w, n) THEN Uid(LevelOf(w.latest.uid), MaxId) ELSE w.longPtr
LongSides(n, p) == {s \in {"low", "high"} : IsNode(n[s]) /\ n[s] > p}
ShortSides(n, p) == {s \in {"low", "high"} : IsNode(n[s]) /\ ~(IsNode(n[s]) /\ n[s] > p)}

LEMMA PushIs ==
    ASSUME NEW w \in WriterType, NEW n \in NodeRecord
    PROVE  LET x == Push(w, n)
               new == IsNewLevel(w, n)
           IN  /\ x \in WriterType
               /\ x.open = w.open /\ x.latest = n
               /\ x.levelSize = IF new THEN 1 ELSE w.levelSize + 1
               /\ x.file.nodes = Append(w.file.nodes, n)
               /\ x.file.levels = IF new
                    THEN Append(w.file.levels,
                                [level |-> LevelOf(w.latest.uid), width |-> w.levelSize])
                    ELSE w.file.levels
               /\ x.file.width = IF new THEN Bigger(w.file.width, w.levelSize) ELSE w.file.width
               /\ \A v \in BOOLEAN :
                    x.file.terminals[v] = w.file.terminals[v]
                        + One(IsTerminal(n.uid) /\ Value(n.uid) = v) + TerminalsOf(n, v)
               /\ x.longPtr = PtrAfter(w, n)
               /\ x.maxShort = IF new THEN Bigger(w.maxShort, w.curShort) ELSE w.maxShort
               /\ x.curShort = (IF new THEN 0 ELSE w.curShort)
                                    + Cardinality(ShortSides(n, PtrAfter(w, n)))
               /\ x.long = w.long + Cardinality(LongSides(n, PtrAfter(w, n)))
               /\ x.file.cut2 = w.file.cut2
               /\ \A v \in BOOLEAN :
                    x.atBottom[v] = w.atBottom[v]
                        + One(PtrAfter(w, n) = Nil /\ IsNode(n.uid)) * TerminalsOf(n, v)
<1> DEFINE first == w.latest = Dummy
           new == ~first /\ LevelOf(w.latest.uid) # LevelOf(n.uid)
           checked == Flagged(w, n, first, new)
           x == IF new THEN CommitLevel(checked) ELSE checked
           bottom == x.longPtr = Nil /\ IsNode(n.uid)
           long == Cardinality({s \in {"low", "high"} : IsLong(x, n[s])})
           short == Cardinality({s \in {"low", "high"} : IsNode(n[s]) /\ ~IsLong(x, n[s])})
           term == [v \in BOOLEAN |-> One(IsTerminal(n.uid) /\ Value(n.uid) = v)]
           y == [x EXCEPT !.file.terminals = [v \in BOOLEAN |-> @[v] + term[v]],
                          !.atBottom = [v \in BOOLEAN |-> @[v] + One(bottom) * TerminalsOf(n, v)],
                          !.long = @ + long, !.curShort = @ + short,
                          !.latest = n, !.levelSize = @ + 1]
<1>1. Push(w, n) = UnsafePushNode(y, n)
  BY DEF Push
<1>2. first \in BOOLEAN /\ new \in BOOLEAN /\ new = IsNewLevel(w, n)
  BY Zenon DEF IsNewLevel
<1>3. bottom \in BOOLEAN
  BY Zenon
<1>4. \A b \in BOOLEAN : One(b) \in Nat
  BY DEF One
<1>5. \A v \in BOOLEAN : term[v] = One(IsTerminal(n.uid) /\ Value(n.uid) = v) /\ term[v] \in Nat
  <2> SUFFICES ASSUME NEW v \in BOOLEAN
               PROVE  term[v] = One(IsTerminal(n.uid) /\ Value(n.uid) = v) /\ term[v] \in Nat
    OBVIOUS
  <2>1. PICK c \in BOOLEAN : c = (IsTerminal(n.uid) /\ Value(n.uid) = v)
    BY Zenon
  <2>2. term[v] = One(IsTerminal(n.uid) /\ Value(n.uid) = v)
    BY Zenon
  <2>3. term[v] = One(c)
    BY <2>1, <2>2, Zenon
  <2> QED BY <1>4, <2>2, <2>3
<1>6. long \in Nat /\ short \in Nat
  <2>1. {s \in {"low", "high"} : IsLong(x, n[s])} \subseteq {"low", "high"}
    OBVIOUS
  <2>2. {s \in {"low", "high"} : IsNode(n[s]) /\ ~IsLong(x, n[s])} \subseteq {"low", "high"}
    OBVIOUS
  <2> QED BY <2>1, <2>2, SidesAreFinite, Zenon
<1> HIDE DEF first, new
<1>7. checked \in WriterType /\ AreAlike(checked, w)
  BY <1>2, FlaggedIs, Zenon
<1> HIDE DEF checked
<1>8. /\ x \in WriterType
      /\ x.open = w.open /\ x.latest = w.latest
      /\ x.levelSize = IF new THEN 0 ELSE w.levelSize
      /\ x.file.nodes = w.file.nodes /\ x.file.terminals = w.file.terminals
      /\ x.file.levels = IF new
           THEN Append(w.file.levels,
                       [level |-> LevelOf(w.latest.uid), width |-> w.levelSize])
           ELSE w.file.levels
      /\ x.file.width = IF new THEN Bigger(w.file.width, w.levelSize) ELSE w.file.width
      /\ x.atBottom = w.atBottom /\ x.long = w.long /\ x.file.cut2 = w.file.cut2
      /\ x.maxShort = IF new THEN Bigger(w.maxShort, w.curShort) ELSE w.maxShort
      /\ x.curShort = IF new THEN 0 ELSE w.curShort
      /\ x.longPtr = IF new THEN Uid(LevelOf(w.latest.uid), MaxId) ELSE w.longPtr
  <2>1. CASE new
    <3>1. PICK c : c = CommitLevel(checked)
      OBVIOUS
    <3>2. /\ c \in WriterType
          /\ c.open = checked.open /\ c.latest = checked.latest /\ c.levelSize = 0
          /\ c.file.nodes = checked.file.nodes /\ c.file.terminals = checked.file.terminals
          /\ c.file.levels = Append(checked.file.levels,
                 [level |-> LevelOf(checked.latest.uid), width |-> checked.levelSize])
          /\ c.file.width = Bigger(checked.file.width, checked.levelSize)
          /\ c.atBottom = checked.atBottom /\ c.long = checked.long
          /\ c.file.cut2 = checked.file.cut2
          /\ c.maxShort = Bigger(checked.maxShort, checked.curShort) /\ c.curShort = 0
          /\ c.longPtr = Uid(LevelOf(checked.latest.uid), MaxId)
      BY <1>7, <3>1, CommitLevelIs, Zenon
    <3>3. x = c
      BY <2>1, <3>1
    <3> HIDE DEF x
    <3> QED BY <1>7, <2>1, <3>2, <3>3 DEF AreAlike, CountAlike
  <2>2. CASE ~new
    BY <1>7, <2>2 DEF AreAlike, CountAlike
  <2> QED BY <1>2, <2>1, <2>2
<1>24. x.longPtr = PtrAfter(w, n)
  BY <1>2, <1>8, Zenon DEF PtrAfter
<1>25. /\ long = Cardinality(LongSides(n, PtrAfter(w, n)))
       /\ short = Cardinality(ShortSides(n, PtrAfter(w, n)))
       /\ bottom = (PtrAfter(w, n) = Nil /\ IsNode(n.uid))
  <2> HIDE DEF x
  <2> QED BY <1>24, Zenon DEF IsLong, LongSides, ShortSides
<1> HIDE DEF x, bottom, long, short, term
<1>9. PICK f \in FileType : f = x.file
  BY <1>8 DEF WriterType
<1>10. PICK t : t = [v \in BOOLEAN |-> f.terminals[v] + term[v]]
  OBVIOUS
<1>11. t \in [BOOLEAN -> Nat] /\ \A v \in BOOLEAN : t[v] = f.terminals[v] + term[v]
  BY <1>5, <1>10 DEF FileType
<1>12. PICK g : g = [f EXCEPT !.terminals = t]
  OBVIOUS
<1>13. /\ g \in FileType /\ g.nodes = f.nodes /\ g.levels = f.levels
       /\ g.width = f.width /\ g.terminals = t /\ g.cut2 = f.cut2
  BY <1>11, <1>12 DEF FileType
<1>14. PICK a : a = [v \in BOOLEAN |-> x.atBottom[v] + One(bottom) * TerminalsOf(n, v)]
  OBVIOUS
<1>15. a \in [BOOLEAN -> Nat]
  <2>1. x.atBottom \in [BOOLEAN -> Nat]
    BY <1>8 DEF WriterType
  <2>2. PICK o \in Nat : o = One(bottom)
    BY <1>3, <1>4
  <2>3. \A v \in BOOLEAN : x.atBottom[v] + o * TerminalsOf(n, v) \in Nat
    BY <2>1, TerminalsOfIs
  <2> QED BY <1>14, <2>2, <2>3
<1>16. PICK m \in Nat, c \in Nat, k \in Nat :
         m = x.long + long /\ c = x.curShort + short /\ k = x.levelSize + 1
  BY <1>6, <1>8 DEF WriterType
<1>17. y = [x EXCEPT !.file = g, !.atBottom = a, !.long = m,
                     !.curShort = c, !.latest = n, !.levelSize = k]
  BY <1>8, <1>9, <1>10, <1>12, <1>14, <1>16 DEF WriterType, FileType
<1> HIDE DEF y
<1>18. /\ y \in WriterType /\ y.open = x.open /\ y.latest = n /\ y.levelSize = k /\ y.file = g
       /\ y.atBottom = a /\ y.long = m /\ y.curShort = c
       /\ y.maxShort = x.maxShort /\ y.longPtr = x.longPtr
  BY <1>8, <1>13, <1>15, <1>17 DEF WriterType
<1>19. PICK z \in WriterType : z = Push(w, n)
  BY <1>1, <1>18, UnsafePushNodeIs
<1>20. /\ z.open = y.open /\ z.latest = n /\ z.levelSize = k
       /\ z.file.nodes = Append(y.file.nodes, n)
       /\ z.file.levels = y.file.levels /\ z.file.width = y.file.width
       /\ \A v \in BOOLEAN : z.file.terminals[v] = y.file.terminals[v] + TerminalsOf(n, v)
       /\ CountAlike(z, y) /\ z.file.cut2 = y.file.cut2
  BY <1>1, <1>18, <1>19, UnsafePushNodeIs, SMTT(30)
<1>21. /\ z.open = w.open /\ z.file.nodes = Append(w.file.nodes, n)
       /\ z.file.levels = x.file.levels /\ z.file.width = x.file.width
  BY <1>8, <1>9, <1>13, <1>18, <1>20
<1>22. \A v \in BOOLEAN : z.file.terminals[v] = w.file.terminals[v]
            + One(IsTerminal(n.uid) /\ Value(n.uid) = v) + TerminalsOf(n, v)
  <2> SUFFICES ASSUME NEW v \in BOOLEAN
               PROVE  z.file.terminals[v] = w.file.terminals[v]
                        + One(IsTerminal(n.uid) /\ Value(n.uid) = v) + TerminalsOf(n, v)
    OBVIOUS
  <2>1. z.file.terminals[v] = y.file.terminals[v] + TerminalsOf(n, v)
    BY <1>20
  <2>2. y.file.terminals[v] = f.terminals[v] + term[v]
    BY <1>11, <1>13, <1>18
  <2>3. f.terminals[v] = w.file.terminals[v]
    BY <1>8, <1>9
  <2> QED BY <1>5, <2>1, <2>2, <2>3
<1>23. z.levelSize = IF new THEN 1 ELSE w.levelSize + 1
  BY <1>8, <1>16, <1>20 DEF WriterType
<1>26. /\ z.longPtr = PtrAfter(w, n) /\ z.maxShort = x.maxShort
       /\ z.long = w.long + Cardinality(LongSides(n, PtrAfter(w, n)))
       /\ z.curShort = (IF new THEN 0 ELSE w.curShort)
                            + Cardinality(ShortSides(n, PtrAfter(w, n)))
       /\ z.atBottom = a
  BY <1>8, <1>16, <1>18, <1>20, <1>24, <1>25, Zenon DEF CountAlike
<1>27. z.file.cut2 = w.file.cut2
  BY <1>8, <1>9, <1>13, <1>18, <1>20
<1>28. ASSUME NEW v \in BOOLEAN
       PROVE  z.atBottom[v] = w.atBottom[v]
                + One(PtrAfter(w, n) = Nil /\ IsNode(n.uid)) * TerminalsOf(n, v)
  BY <1>8, <1>14, <1>25, <1>26, Zenon
<1> QED BY <1>2, <1>8, <1>19, <1>20, <1>21, <1>22, <1>23, <1>26, <1>27, <1>28

(* Closing commits the last level, if there is one, and changes the cuts.  *)
LEMMA ClosedIs ==
    ASSUME NEW w \in WriterType, w.open
    PROVE  LET x == Closed(w)
               last == w.latest # Dummy /\ ~IsTerminal(w.latest.uid)
           IN  /\ ~x.open
               /\ x.file.nodes = w.file.nodes /\ x.file.terminals = w.file.terminals
               /\ x.file.levels = IF last
                    THEN Append(w.file.levels,
                                [level |-> LevelOf(w.latest.uid), width |-> w.levelSize])
                    ELSE w.file.levels
               /\ x.file.width = IF last THEN Bigger(w.file.width, w.levelSize) ELSE w.file.width
<1> DEFINE last == w.latest # Dummy /\ ~IsTerminal(w.latest.uid)
           y == IF w.latest = Dummy THEN w ELSE LevelCommitted(w)
           x == IF w.latest = Dummy THEN w ELSE WithCut1(LevelCommitted(w))
<1>1. Closed(w) = [x EXCEPT !.open = FALSE, !.file = Fixup(x.file)]
  BY DEF Closed
<1>2. last \in BOOLEAN
  BY Zenon
<1>3. PICK l \in Nat, k \in Nat : l = LevelOf(w.latest.uid) /\ k = w.levelSize
  BY LevelsOfUids DEF WriterType, NodeRecord
<1>4. PICK p \in WriterType : p = UnsafePushLevel(w, l, k)
  BY UnsafePushLevelIs
<1>5. /\ p.file.nodes = w.file.nodes /\ p.file.terminals = w.file.terminals
      /\ p.file.levels = Append(w.file.levels, [level |-> l, width |-> k])
      /\ p.file.width = Bigger(w.file.width, k)
  BY <1>4, UnsafePushLevelIs, SMTT(30)
<1>6. y = IF last THEN p ELSE w
  BY <1>3, <1>4, Zenon DEF LevelCommitted
<1>7. PICK q \in WriterType : q = y
  BY <1>4, <1>6
<1>8. /\ q.file.nodes = w.file.nodes /\ q.file.terminals = w.file.terminals
      /\ q.file.levels = IF last THEN Append(w.file.levels, [level |-> l, width |-> k])
                                 ELSE w.file.levels
      /\ q.file.width = IF last THEN Bigger(w.file.width, k) ELSE w.file.width
  <2>1. CASE last
    BY <1>5, <1>6, <1>7, <2>1
  <2>2. CASE ~last
    BY <1>6, <1>7, <2>2
  <2> QED BY <1>2, <2>1, <2>2
<1> HIDE DEF y, last
<1>9. PICK f : /\ f = x.file /\ DOMAIN f = DOMAIN EmptyFile
               /\ f.nodes = q.file.nodes /\ f.levels = q.file.levels
               /\ f.width = q.file.width /\ f.terminals = q.file.terminals
  <2>1. CASE w.latest = Dummy
    <3>1. x = q
      BY <1>7, <2>1 DEF y
    <3>2. DOMAIN q.file = DOMAIN EmptyFile
      BY DEF WriterType, FileType, EmptyFile
    <3> QED BY <3>1, <3>2
  <2>2. CASE w.latest # Dummy
    <3>1. x = WithCut1(q)
      BY <1>7, <2>2 DEF y
    <3>2. PICK s, c : x = [q EXCEPT !.levelSize = 0, !.maxShort = s, !.file.cut1 = c]
      BY <3>1 DEF WithCut1
    <3>3. PICK g : g = [q.file EXCEPT !.cut1 = c]
      OBVIOUS
    <3>4. x.file = g
      BY <3>2, <3>3 DEF WriterType
    <3>5. /\ DOMAIN g = DOMAIN EmptyFile
          /\ g.nodes = q.file.nodes /\ g.levels = q.file.levels
          /\ g.width = q.file.width /\ g.terminals = q.file.terminals
      BY <3>3 DEF WriterType, FileType, EmptyFile
    <3> QED BY <3>4, <3>5
  <2> QED BY <2>1, <2>2
<1>10. "file" \in DOMAIN x /\ "open" \in DOMAIN x
  <2>1. CASE w.latest = Dummy
    BY <2>1 DEF WriterType
  <2>2. CASE w.latest # Dummy
    <3>1. x = WithCut1(q)
      BY <1>7, <2>2 DEF y
    <3> QED BY <3>1 DEF WithCut1, WriterType
  <2> QED BY <2>1, <2>2
<1> HIDE DEF x
<1>11. PICK c1, c2 : Fixup(f) = [f EXCEPT !.cut1 = c1, !.cut2 = c2]
  BY DEF Fixup
<1>12. /\ Fixup(f).nodes = f.nodes /\ Fixup(f).levels = f.levels
       /\ Fixup(f).width = f.width /\ Fixup(f).terminals = f.terminals
  BY <1>9, <1>11 DEF EmptyFile
<1>13. PICK z : z = [x EXCEPT !.open = FALSE, !.file = Fixup(x.file)]
  OBVIOUS
<1>14. ~z.open /\ z.file = Fixup(f)
  BY <1>9, <1>10, <1>13
<1> QED BY <1>1, <1>3, <1>8, <1>9, <1>12, <1>13, <1>14 DEF last

-----------------------------------------------------------------------------
(* Counting nodes and arcs                                                 *)

(* A node of a diagram, and not a terminal or the dummy.                   *)
IsInner(n) ==
    /\ n \in NodeRecord /\ n.low # Nil
    /\ \E l \in Level, i \in 0 .. MaxId : n.uid = Uid(l, i)

HoldsNodes(N) == IsFiniteSet(N) /\ \A n \in N : IsInner(n)
Width(N, l) == Cardinality(OnLevel(N, l))
LevelsIn(N) == {LevelOf(n.uid) : n \in N}

LEMMA InnerIs ==
    ASSUME NEW n, IsInner(n)
    PROVE  /\ n \in NodeRecord /\ IsNode(n.uid) /\ ~IsTerminal(n.uid) /\ n # Dummy
           /\ LevelOf(n.uid) \in Level
<1>1. n \in NodeRecord /\ n # Dummy
  BY DummyIs DEF IsInner
<1>2. PICK l \in Level, i \in 0 .. MaxId : n.uid = Uid(l, i)
  BY DEF IsInner
<1>3. IsNode(n.uid) /\ ~IsTerminal(n.uid)
  BY <1>2, PointersAre
<1>4. l \in Nat
  BY DiagramAssumption DEF Level
<1>5. LevelOf(n.uid) = l
  BY <1>2, <1>4, UidIs
<1> QED BY <1>1, <1>2, <1>3, <1>5

(* A smaller uid is of the same level or of one above.                     *)
LEMMA SmallerIsAbove ==
    ASSUME NEW m, NEW n, IsInner(m), IsInner(n), m.uid < n.uid
    PROVE  LevelOf(m.uid) <= LevelOf(n.uid)
<1>1. PICK l \in Level, i \in 0 .. MaxId : m.uid = Uid(l, i)
  BY DEF IsInner
<1>2. PICK k \in Level, j \in 0 .. MaxId : n.uid = Uid(k, j)
  BY DEF IsInner
<1>3. l \in Nat /\ k \in Nat
  BY DiagramAssumption DEF Level
<1>4. LevelOf(m.uid) = l /\ LevelOf(n.uid) = k
  BY <1>1, <1>2, <1>3, UidIs
<1>5. l < k \/ (l = k /\ i < j)
  BY <1>1, <1>2, <1>3, UidsAreOrdered
<1> QED BY <1>3, <1>4, <1>5

LEMMA WidthsAreCounts ==
    ASSUME NEW N, HoldsNodes(N), NEW l
    PROVE  IsFiniteSet(OnLevel(N, l)) /\ Width(N, l) \in Nat
<1>1. OnLevel(N, l) \subseteq N
  BY DEF OnLevel
<1>2. IsFiniteSet(OnLevel(N, l))
  BY <1>1, FS_Subset, Zenon DEF HoldsNodes
<1> QED BY <1>2, FS_CardinalityType, Zenon DEF Width

(* One more node makes its own level wider.                                *)
LEMMA WidthsGrow ==
    ASSUME NEW N, HoldsNodes(N), NEW n, IsInner(n), n \notin N
    PROVE  /\ HoldsNodes(N \cup {n})
           /\ Width(N \cup {n}, LevelOf(n.uid)) = Width(N, LevelOf(n.uid)) + 1
           /\ \A l : l # LevelOf(n.uid) => Width(N \cup {n}, l) = Width(N, l)
           /\ LevelsIn(N \cup {n}) = LevelsIn(N) \cup {LevelOf(n.uid)}
<1>1. HoldsNodes(N \cup {n})
  BY FS_AddElement, Zenon DEF HoldsNodes
<1>2. OnLevel(N \cup {n}, LevelOf(n.uid)) = OnLevel(N, LevelOf(n.uid)) \cup {n}
  BY DEF OnLevel
<1>3. n \notin OnLevel(N, LevelOf(n.uid))
  BY DEF OnLevel
<1>4. IsFiniteSet(OnLevel(N, LevelOf(n.uid)))
  BY WidthsAreCounts
<1>5. Width(N \cup {n}, LevelOf(n.uid)) = Width(N, LevelOf(n.uid)) + 1
  BY <1>2, <1>3, <1>4, FS_AddElement, Zenon DEF Width
<1>6. ASSUME NEW l, l # LevelOf(n.uid)
      PROVE  Width(N \cup {n}, l) = Width(N, l)
  <2>1. OnLevel(N \cup {n}, l) = OnLevel(N, l)
    BY <1>6 DEF OnLevel
  <2> QED BY <2>1 DEF Width
<1>7. LevelsIn(N \cup {n}) = LevelsIn(N) \cup {LevelOf(n.uid)}
  BY DEF LevelsIn
<1> QED BY <1>1, <1>5, <1>6, <1>7

(* A level without nodes.                                                  *)
LEMMA WidthsStart ==
    ASSUME NEW n, IsInner(n)
    PROVE  /\ HoldsNodes({n}) /\ LevelsIn({n}) = {LevelOf(n.uid)}
           /\ Width({n}, LevelOf(n.uid)) = 1
<1>1. HoldsNodes({n})
  BY FS_Singleton, Zenon DEF HoldsNodes
<1>2. OnLevel({n}, LevelOf(n.uid)) = {n}
  BY DEF OnLevel
<1>3. Width({n}, LevelOf(n.uid)) = 1
  BY <1>2, FS_Singleton, Zenon DEF Width
<1> QED BY <1>1, <1>3 DEF LevelsIn

LEMMA WidthsOfAbsent ==
    ASSUME NEW N, NEW l, l \notin LevelsIn(N)
    PROVE  Width(N, l) = 0
<1>1. OnLevel(N, l) = {}
  BY DEF OnLevel, LevelsIn
<1> QED BY <1>1, FS_EmptySet, Zenon DEF Width

-----------------------------------------------------------------------------
(* Arcs to a terminal                                                      *)

SlotsTo(N, v) == {a \in N \X {"low", "high"} : IsTerminal(a[1][a[2]]) /\ Value(a[1][a[2]]) = v}
SlotTo(n, s, v) == IF IsTerminal(n[s]) /\ Value(n[s]) = v THEN {<<n, s>>} ELSE {}

LEMMA ArcIs ==
    ASSUME NEW n, NEW s, NEW v
    PROVE  /\ IsFiniteSet(SlotTo(n, s, v))
           /\ Cardinality(SlotTo(n, s, v)) = One(IsTerminal(n[s]) /\ Value(n[s]) = v)
<1>1. CASE IsTerminal(n[s]) /\ Value(n[s]) = v
  <2>1. SlotTo(n, s, v) = {<<n, s>>}
    BY <1>1, Zenon DEF SlotTo
  <2>2. IsFiniteSet({<<n, s>>}) /\ Cardinality({<<n, s>>}) = 1
    BY FS_Singleton, Zenon
  <2>3. One(IsTerminal(n[s]) /\ Value(n[s]) = v) = 1
    BY <1>1, Zenon DEF One
  <2> QED BY <2>1, <2>2, <2>3, Zenon
<1>2. CASE ~(IsTerminal(n[s]) /\ Value(n[s]) = v)
  <2>1. SlotTo(n, s, v) = {}
    BY <1>2, Zenon DEF SlotTo
  <2>2. IsFiniteSet({}) /\ Cardinality({}) = 0
    BY FS_EmptySet, Zenon
  <2>3. One(IsTerminal(n[s]) /\ Value(n[s]) = v) = 0
    BY <1>2, Zenon DEF One
  <2> QED BY <2>1, <2>2, <2>3, Zenon
<1> QED BY <1>1, <1>2

LEMMA ArcsAreFinite ==
    ASSUME NEW N, IsFiniteSet(N), NEW v
    PROVE  IsFiniteSet(SlotsTo(N, v)) /\ ArcsTo(N, v) = Cardinality(SlotsTo(N, v))
           /\ ArcsTo(N, v) \in Nat
<1>1. IsFiniteSet({"low", "high"})
  BY SidesAreFinite
<1>2. IsFiniteSet(N \X {"low", "high"})
  BY <1>1, FS_Product, Zenon
<1>3. SlotsTo(N, v) \subseteq N \X {"low", "high"}
  BY DEF SlotsTo
<1>4. IsFiniteSet(SlotsTo(N, v))
  BY <1>2, <1>3, FS_Subset, Zenon
<1> QED BY <1>4, FS_CardinalityType, Zenon DEF ArcsTo, SlotsTo

LEMMA ArcsOfOneMore ==
    ASSUME NEW N, IsFiniteSet(N), NEW n, n \notin N, NEW v \in BOOLEAN
    PROVE  ArcsTo(N \cup {n}, v) = ArcsTo(N, v) + TerminalsOf(n, v)
<1> DEFINE A == SlotsTo(N, v)
           B == SlotTo(n, "low", v)
           C == SlotTo(n, "high", v)
<1>1. SlotsTo(N \cup {n}, v) = (A \cup B) \cup C
  BY DEF SlotsTo, SlotTo
<1>2. A \cap B = {} /\ (A \cup B) \cap C = {}
  <2>1. \A a \in A : a[1] \in N
    BY DEF SlotsTo
  <2>2. \A a \in B : a[1] = n /\ a[2] = "low"
    BY DEF SlotTo
  <2>3. \A a \in C : a[1] = n /\ a[2] = "high"
    BY DEF SlotTo
  <2> HIDE DEF A, B, C
  <2> QED BY <2>1, <2>2, <2>3
<1>3. IsFiniteSet(A) /\ ArcsTo(N, v) = Cardinality(A) /\ ArcsTo(N, v) \in Nat
  BY ArcsAreFinite
<1>4. IsFiniteSet(B) /\ IsFiniteSet(C)
  BY ArcIs
<1> HIDE DEF A, B, C
<1>5. IsFiniteSet(A \cup B) /\ Cardinality(A \cup B) = Cardinality(A) + Cardinality(B)
  <2>1. /\ IsFiniteSet(A \cup B)
        /\ Cardinality(A \cup B) = Cardinality(A) + Cardinality(B) - Cardinality(A \cap B)
    BY <1>3, <1>4, FS_Union, Zenon
  <2>2. Cardinality(A \cap B) = 0
    BY <1>2, FS_EmptySet, Zenon
  <2>3. Cardinality(A) \in Nat /\ Cardinality(B) \in Nat
    BY <1>3, <1>4, FS_CardinalityType, Zenon
  <2> QED BY <2>1, <2>2, <2>3
<1>6. Cardinality((A \cup B) \cup C) = Cardinality(A) + Cardinality(B) + Cardinality(C)
  <2>1. Cardinality((A \cup B) \cup C)
            = Cardinality(A \cup B) + Cardinality(C) - Cardinality((A \cup B) \cap C)
    BY <1>4, <1>5, FS_Union, Zenon
  <2>2. Cardinality((A \cup B) \cap C) = 0
    BY <1>2, FS_EmptySet, Zenon
  <2>3. /\ Cardinality(A) \in Nat /\ Cardinality(B) \in Nat /\ Cardinality(C) \in Nat
    BY <1>3, <1>4, FS_CardinalityType, Zenon
  <2> QED BY <1>5, <2>1, <2>2, <2>3
<1>7. Cardinality(B) + Cardinality(C) = TerminalsOf(n, v)
  BY ArcIs, Zenon DEF TerminalsOf, B, C
<1>8. ArcsTo(N \cup {n}, v) = Cardinality((A \cup B) \cup C)
  BY <1>1, Zenon DEF ArcsTo, SlotsTo
<1>9. Cardinality(A) \in Nat /\ Cardinality(B) \in Nat /\ Cardinality(C) \in Nat
  BY <1>3, <1>4, FS_CardinalityType, Zenon
<1> QED BY <1>3, <1>6, <1>7, <1>8, <1>9

LEMMA ArcsOfNone ==
    ASSUME NEW v
    PROVE  ArcsTo({}, v) = 0
<1>1. SlotsTo({}, v) = {}
  BY DEF SlotsTo
<1> QED BY <1>1, FS_EmptySet, Zenon DEF ArcsTo, SlotsTo

-----------------------------------------------------------------------------
(* The writer's account of the levels in H, all but the latest of them     *)

LevelsMatch(s, N, H) ==
    /\ s \in Seq(LevelRecord)
    /\ {s[i] : i \in DOMAIN s} = {[level |-> l, width |-> Width(N, l)] : l \in H}
    /\ \A i, j \in DOMAIN s : i < j => s[i].level > s[j].level

WidthIs(x, N, H) ==
    /\ x \in Nat
    /\ \A l \in H : Width(N, l) <= x
    /\ x = 0 \/ \E l \in H : x = Width(N, l)

(* It stands while no node is added to these levels.                       *)
LEMMA AccountStands ==
    ASSUME NEW N, NEW M, NEW H, \A l \in H : Width(M, l) = Width(N, l)
    PROVE  /\ \A s : LevelsMatch(s, N, H) => LevelsMatch(s, M, H)
           /\ \A x : WidthIs(x, N, H) => WidthIs(x, M, H)
<1>1. {[level |-> l, width |-> Width(M, l)] : l \in H}
        = {[level |-> l, width |-> Width(N, l)] : l \in H}
  OBVIOUS
<1> QED BY <1>1 DEF LevelsMatch, WidthIs

(* Committing a level above all others.                                    *)
LEMMA AccountGrows ==
    ASSUME NEW N, HoldsNodes(N), NEW H \in SUBSET Nat, NEW l \in Nat, \A k \in H : l < k,
           NEW s, LevelsMatch(s, N, H), NEW x, WidthIs(x, N, H)
    PROVE  /\ LevelsMatch(Append(s, [level |-> l, width |-> Width(N, l)]), N, H \cup {l})
           /\ WidthIs(Bigger(x, Width(N, l)), N, H \cup {l})
<1>1. PICK r : r = [level |-> l, width |-> Width(N, l)]
  OBVIOUS
<1>2. r \in LevelRecord /\ r.level = l
  BY <1>1, WidthsAreCounts DEF LevelRecord
<1>3. PICK t \in Seq(LevelRecord) : t = Append(s, r)
  BY <1>2, AppendProperties DEF LevelsMatch
<1>4. PICK m \in Nat : m = Len(s)
  BY LenProperties DEF LevelsMatch
<1>5. /\ DOMAIN s = 1 .. m /\ DOMAIN t = 1 .. m + 1 /\ t[m + 1] = r
      /\ \A i \in 1 .. m : t[i] = s[i]
  BY <1>2, <1>3, <1>4, AppendProperties, LenProperties DEF LevelsMatch
<1>6. {t[i] : i \in DOMAIN t} = {s[i] : i \in DOMAIN s} \cup {r}
  <2>1. 1 .. m + 1 = (1 .. m) \cup {m + 1}
    BY <1>4
  <2> QED BY <1>5, <2>1
<1>7. {t[i] : i \in DOMAIN t} = {[level |-> k, width |-> Width(N, k)] : k \in H \cup {l}}
  BY <1>1, <1>6 DEF LevelsMatch
<1>8. ASSUME NEW i \in DOMAIN t, NEW j \in DOMAIN t, i < j
      PROVE  t[i].level > t[j].level
  <2>1. CASE j \in 1 .. m
    BY <1>4, <1>5, <1>8, <2>1 DEF LevelsMatch
  <2>2. CASE j = m + 1
    <3>1. i \in 1 .. m /\ t[i] = s[i]
      BY <1>4, <1>5, <1>8, <2>2
    <3>2. PICK k \in H : s[i] = [level |-> k, width |-> Width(N, k)]
      BY <1>5, <3>1 DEF LevelsMatch
    <3> QED BY <1>2, <1>5, <2>2, <3>1, <3>2
  <2> QED BY <1>4, <1>5, <2>1, <2>2
<1>9. LevelsMatch(t, N, H \cup {l})
  BY <1>3, <1>7, <1>8 DEF LevelsMatch
<1>10. PICK y \in Nat : y = Width(N, l)
  BY WidthsAreCounts
<1>11. PICK z \in Nat : z = Bigger(x, y) /\ z >= x /\ z >= y /\ z \in {x, y}
  BY BiggerIs DEF WidthIs
<1>12. WidthIs(z, N, H \cup {l})
  <2>1. \A k \in H \cup {l} : Width(N, k) <= z
    <3> SUFFICES ASSUME NEW k \in H \cup {l} PROVE Width(N, k) <= z
      OBVIOUS
    <3>1. Width(N, k) \in Nat
      BY WidthsAreCounts
    <3>2. CASE k \in H
      BY <1>11, <3>1, <3>2 DEF WidthIs
    <3>3. CASE k = l
      BY <1>10, <1>11, <3>3
    <3> QED BY <3>2, <3>3
  <2>2. z = 0 \/ \E k \in H \cup {l} : z = Width(N, k)
    BY <1>10, <1>11 DEF WidthIs
  <2> QED BY <2>1, <2>2 DEF WidthIs
<1> QED BY <1>1, <1>3, <1>9, <1>10, <1>11, <1>12

-----------------------------------------------------------------------------
(* A writer that was given nodes in the order it requires                  *)

UidsFall(s) == \A i, j \in DOMAIN s : i < j => s[i].uid > s[j].uid

(* The levels below that of the latest node: those the writer committed.   *)
Committed(w) == LevelsIn(NodesOf(w.file)) \ {LevelOf(w.latest.uid)}

Filled(w) ==
    /\ w \in WriterType
    /\ HoldsNodes(NodesOf(w.file)) /\ UidsFall(w.file.nodes)
    /\ w.latest \in NodesOf(w.file)
    /\ \A n \in NodesOf(w.file) : n = w.latest \/ n.uid > w.latest.uid
    /\ w.levelSize = Width(NodesOf(w.file), LevelOf(w.latest.uid))
    /\ LevelsMatch(w.file.levels, NodesOf(w.file), Committed(w))
    /\ WidthIs(w.file.width, NodesOf(w.file), Committed(w))
    /\ \A v \in BOOLEAN : w.file.terminals[v] = ArcsTo(NodesOf(w.file), v)

Fresh(w) ==
    /\ w \in WriterType
    /\ w.file.nodes = << >> /\ w.file.levels = << >>
    /\ w.latest = Dummy /\ w.levelSize = 0 /\ w.file.width = 0
    /\ w.file.terminals = [v \in BOOLEAN |-> 0]

LEMMA OpenedIsFresh ==
    Fresh(Opened(EmptyFile)) /\ Fresh(Constructed(EmptyFile))
BY OpenedIs, ConstructedIs DEF Fresh

LEMMA NodesOfAppended ==
    ASSUME NEW w \in WriterType, NEW x, NEW n \in NodeRecord,
           x.file.nodes = Append(w.file.nodes, n)
    PROVE  /\ NodesOf(x.file) = NodesOf(w.file) \cup {n}
           /\ (UidsFall(w.file.nodes) /\ \A m \in NodesOf(w.file) : m.uid > n.uid)
                => UidsFall(x.file.nodes)
<1>1. PICK s \in Seq(NodeRecord) : s = w.file.nodes
  BY DEF WriterType, FileType
<1>2. PICK t \in Seq(NodeRecord) : t = Append(s, n)
  BY AppendProperties
<1>3. PICK m \in Nat : m = Len(s)
  BY LenProperties
<1>4. /\ DOMAIN s = 1 .. m /\ DOMAIN t = 1 .. m + 1 /\ t[m + 1] = n
      /\ \A i \in 1 .. m : t[i] = s[i]
  BY <1>1, <1>2, <1>3, AppendProperties, LenProperties
<1>5. NodesOf(x.file) = {t[i] : i \in 1 .. m + 1} /\ NodesOf(w.file) = {s[i] : i \in 1 .. m}
  BY <1>1, <1>2, <1>4 DEF NodesOf
<1>6. NodesOf(x.file) = NodesOf(w.file) \cup {n}
  <2>1. 1 .. m + 1 = (1 .. m) \cup {m + 1}
    BY <1>3
  <2> QED BY <1>4, <1>5, <2>1
<1>7. ASSUME UidsFall(w.file.nodes), \A k \in NodesOf(w.file) : k.uid > n.uid
      PROVE  UidsFall(x.file.nodes)
  <2> SUFFICES ASSUME NEW i \in 1 .. m + 1, NEW j \in 1 .. m + 1, i < j
               PROVE  t[i].uid > t[j].uid
    BY <1>1, <1>2, <1>4 DEF UidsFall
  <2>1. i \in 1 .. m
    BY <1>3
  <2>2. CASE j \in 1 .. m
    BY <1>1, <1>4, <1>7, <2>1, <2>2 DEF UidsFall
  <2>3. CASE j = m + 1
    BY <1>4, <1>5, <1>7, <2>1, <2>3
  <2>4. j \in 1 .. m \/ j = m + 1
    <3>1. \A k \in Nat : \A l \in 1 .. k + 1 : l \in 1 .. k \/ l = k + 1
      OBVIOUS
    <3> QED BY <3>1, Zenon
  <2> QED BY <2>2, <2>3, <2>4, Zenon
<1> QED BY <1>6, <1>7

(* The first node.                                                         *)
LEMMA FirstPush ==
    ASSUME NEW w, Fresh(w), NEW n, IsInner(n)
    PROVE  /\ Filled(Push(w, n))
           /\ NodesOf(Push(w, n).file) = {n} /\ Push(w, n).latest = n
           /\ Push(w, n).open = w.open
<1>1. n \in NodeRecord /\ w \in WriterType
  BY InnerIs DEF Fresh
<1>2. ~IsNewLevel(w, n)
  BY DEF Fresh, IsNewLevel
<1>3. PICK x \in WriterType : x = Push(w, n)
  BY <1>1, PushIs
<1>4. /\ x.open = w.open /\ x.latest = n /\ x.levelSize = 1
      /\ x.file.nodes = Append(w.file.nodes, n)
      /\ x.file.levels = << >> /\ x.file.width = 0
  <2>1. PICK new \in BOOLEAN : new = IsNewLevel(w, n)
    BY Zenon DEF IsNewLevel
  <2>2. ~new
    BY <1>2, <2>1
  <2>3. /\ x.open = w.open /\ x.latest = n
        /\ x.levelSize = IF new THEN 1 ELSE w.levelSize + 1
        /\ x.file.nodes = Append(w.file.nodes, n)
        /\ x.file.levels = IF new
             THEN Append(w.file.levels,
                         [level |-> LevelOf(w.latest.uid), width |-> w.levelSize])
             ELSE w.file.levels
        /\ x.file.width = IF new THEN Bigger(w.file.width, w.levelSize) ELSE w.file.width
    BY <1>1, <1>3, <2>1, PushIs, ZenonT(40)
  <2> QED BY <2>2, <2>3 DEF Fresh
<1>5. NodesOf(w.file) = {} /\ UidsFall(w.file.nodes)
  BY DEF NodesOf, UidsFall, Fresh
<1>6. NodesOf(x.file) = {n} /\ UidsFall(x.file.nodes)
  <2>1. /\ NodesOf(x.file) = NodesOf(w.file) \cup {n}
        /\ (UidsFall(w.file.nodes) /\ \A m \in NodesOf(w.file) : m.uid > n.uid)
              => UidsFall(x.file.nodes)
    <3>1. x.file.nodes = Append(w.file.nodes, n)
      BY <1>4
    <3> QED BY <1>1, <3>1, NodesOfAppended, Zenon
  <2> QED BY <1>5, <2>1
<1>7. HoldsNodes({n}) /\ LevelsIn({n}) = {LevelOf(n.uid)} /\ Width({n}, LevelOf(n.uid)) = 1
  BY WidthsStart
<1>8. Committed(x) = {}
  BY <1>4, <1>6, <1>7 DEF Committed
<1>9. LevelsMatch(x.file.levels, {n}, {}) /\ WidthIs(x.file.width, {n}, {})
  <2>1. << >> \in Seq(LevelRecord) /\ DOMAIN << >> = {}
    OBVIOUS
  <2> QED BY <1>4, <2>1 DEF LevelsMatch, WidthIs
<1>10. ASSUME NEW v \in BOOLEAN
       PROVE  x.file.terminals[v] = ArcsTo({n}, v)
  <2>1. ~IsTerminal(n.uid)
    BY InnerIs
  <2>2. One(IsTerminal(n.uid) /\ Value(n.uid) = v) = 0
    BY <2>1, Zenon DEF One
  <2>3. w.file.terminals[v] = 0
    BY DEF Fresh
  <2>4. TerminalsOf(n, v) \in Nat
    BY TerminalsOfIs
  <2>5. x.file.terminals[v] = w.file.terminals[v]
            + One(IsTerminal(n.uid) /\ Value(n.uid) = v) + TerminalsOf(n, v)
    BY <1>1, <1>3, PushIs
  <2>6. x.file.terminals[v] = TerminalsOf(n, v)
    BY <2>2, <2>3, <2>4, <2>5
  <2>7. ArcsTo({} \cup {n}, v) = ArcsTo({}, v) + TerminalsOf(n, v)
    <3>1. IsFiniteSet({}) /\ n \notin {}
      BY FS_EmptySet, Zenon
    <3> QED BY <3>1, ArcsOfOneMore
  <2>8. ArcsTo({}, v) = 0 /\ {} \cup {n} = {n}
    BY ArcsOfNone
  <2> QED BY <2>4, <2>6, <2>7, <2>8
<1>11. Filled(x)
  BY <1>3, <1>4, <1>6, <1>7, <1>8, <1>9, <1>10 DEF Filled
<1> QED BY <1>3, <1>4, <1>6, <1>11

(* The next node, on the level of the latest or on one above.              *)
LEMMA NextPush ==
    ASSUME NEW w, Filled(w), NEW n, IsInner(n), n.uid < w.latest.uid
    PROVE  /\ Filled(Push(w, n))
           /\ NodesOf(Push(w, n).file) = NodesOf(w.file) \cup {n} /\ Push(w, n).latest = n
           /\ Push(w, n).open = w.open
           /\ n \notin NodesOf(w.file) /\ \A m \in NodesOf(w.file) : n.uid < m.uid
<1> DEFINE N == NodesOf(w.file)
           M == N \cup {n}
           L == LevelOf(w.latest.uid)
           K == LevelOf(n.uid)
           new == IsNewLevel(w, n)
<1>1. n \in NodeRecord /\ w \in WriterType /\ w.latest \in N /\ HoldsNodes(N)
  BY InnerIs DEF Filled
<1>2. IsInner(w.latest) /\ L \in Nat /\ K \in Nat /\ \A l \in Level : l \in Nat
  <2>1. \A l \in Level : l \in Nat
    BY DiagramAssumption DEF Level
  <2> QED BY <1>1, <2>1, InnerIs DEF HoldsNodes
<1>3. K <= L
  BY <1>2, SmallerIsAbove
<1>4. \A m \in N : m \in NodeRecord /\ m.uid \in Nat /\ n.uid < m.uid
  <2> SUFFICES ASSUME NEW m \in N PROVE m \in NodeRecord /\ m.uid \in Nat /\ n.uid < m.uid
    OBVIOUS
  <2>1. m \in NodeRecord /\ w.latest \in NodeRecord
    BY <1>1, <1>2, InnerIs DEF HoldsNodes
  <2>2. m.uid \in Nat /\ w.latest.uid \in Nat /\ n.uid \in Nat
    BY <1>1, <2>1 DEF NodeRecord
  <2>3. m = w.latest \/ m.uid > w.latest.uid
    BY DEF Filled
  <2> QED BY <2>1, <2>2, <2>3
<1>5. n \notin N
  <2>1. n.uid \in Nat
    BY <1>1 DEF NodeRecord
  <2> QED BY <1>4, <2>1
<1>6. \A l \in LevelsIn(N) : l \in Nat /\ L <= l
  <2> SUFFICES ASSUME NEW m \in N PROVE LevelOf(m.uid) \in Nat /\ L <= LevelOf(m.uid)
    BY DEF LevelsIn
  <2>1. IsInner(m)
    BY <1>1 DEF HoldsNodes
  <2>2. LevelOf(m.uid) \in Nat
    BY <1>2, <2>1, InnerIs
  <2>3. m = w.latest \/ w.latest.uid < m.uid
    <3>1. m.uid \in Nat /\ w.latest.uid \in Nat
      BY <1>1, <1>4
    <3> QED BY <3>1 DEF Filled
  <2> QED BY <1>2, <2>1, <2>2, <2>3, SmallerIsAbove
<1>7. new <=> K # L
  BY <1>2, InnerIs DEF IsNewLevel
<1>8. PICK x \in WriterType : x = Push(w, n)
  BY <1>1, PushIs
<1>9. /\ x.open = w.open /\ x.latest = n
      /\ x.levelSize = IF new THEN 1 ELSE w.levelSize + 1
      /\ x.file.nodes = Append(w.file.nodes, n)
      /\ x.file.levels = IF new
           THEN Append(w.file.levels, [level |-> L, width |-> w.levelSize])
           ELSE w.file.levels
      /\ x.file.width = IF new THEN Bigger(w.file.width, w.levelSize) ELSE w.file.width
      /\ \A v \in BOOLEAN :
            x.file.terminals[v] = w.file.terminals[v]
                + One(IsTerminal(n.uid) /\ Value(n.uid) = v) + TerminalsOf(n, v)
  BY <1>1, <1>8, PushIs
<1>10. NodesOf(x.file) = M /\ UidsFall(x.file.nodes)
  <2>1. UidsFall(w.file.nodes) /\ \A m \in NodesOf(w.file) : m.uid > n.uid
    <3>1. n.uid \in Nat
      BY <1>1 DEF NodeRecord
    <3> QED BY <1>4, <3>1 DEF Filled
  <2>2. x.file.nodes = Append(w.file.nodes, n)
    BY <1>9
  <2> QED BY <1>1, <2>1, <2>2, NodesOfAppended, Zenon
<1>11. /\ HoldsNodes(M) /\ Width(M, K) = Width(N, K) + 1
       /\ \A l : l # K => Width(M, l) = Width(N, l)
       /\ LevelsIn(M) = LevelsIn(N) \cup {K}
  BY <1>1, <1>5, WidthsGrow
<1>12. L \in LevelsIn(N) /\ w.levelSize = Width(N, L)
  BY <1>1 DEF LevelsIn, Filled
<1>13. \A m \in M : m = x.latest \/ m.uid > x.latest.uid
  <2>1. n.uid \in Nat
    BY <1>1 DEF NodeRecord
  <2> QED BY <1>4, <1>9, <2>1
<1>14. ASSUME NEW v \in BOOLEAN
       PROVE  x.file.terminals[v] = ArcsTo(M, v)
  <2>1. ~IsTerminal(n.uid)
    BY InnerIs
  <2>2. One(IsTerminal(n.uid) /\ Value(n.uid) = v) = 0
    BY <2>1, Zenon DEF One
  <2>3. w.file.terminals[v] = ArcsTo(N, v)
    BY DEF Filled
  <2>4. TerminalsOf(n, v) \in Nat
    BY TerminalsOfIs
  <2>5. x.file.terminals[v] = w.file.terminals[v]
            + One(IsTerminal(n.uid) /\ Value(n.uid) = v) + TerminalsOf(n, v)
    BY <1>9
  <2>6. IsFiniteSet(N) /\ ArcsTo(N, v) \in Nat
    BY <1>1, ArcsAreFinite DEF HoldsNodes
  <2>7. ArcsTo(M, v) = ArcsTo(N, v) + TerminalsOf(n, v)
    BY <1>5, <2>6, ArcsOfOneMore
  <2> QED BY <2>2, <2>3, <2>4, <2>5, <2>6, <2>7
<1>15. LevelsMatch(w.file.levels, N, LevelsIn(N) \ {L}) /\ WidthIs(w.file.width, N, LevelsIn(N) \ {L})
  BY DEF Filled, Committed
<1>16. ASSUME K = L
       PROVE  /\ x.levelSize = Width(M, K)
              /\ LevelsMatch(x.file.levels, M, Committed(x))
              /\ WidthIs(x.file.width, M, Committed(x))
  <2>1. Committed(x) = LevelsIn(N) \ {L}
    BY <1>9, <1>10, <1>11, <1>12, <1>16 DEF Committed
  <2>2. \A l \in LevelsIn(N) \ {L} : Width(M, l) = Width(N, l)
    BY <1>11, <1>16
  <2>3. LevelsMatch(w.file.levels, M, LevelsIn(N) \ {L}) /\ WidthIs(w.file.width, M, LevelsIn(N) \ {L})
    BY <1>15, <2>2, AccountStands
  <2>4. x.levelSize = Width(M, K)
    BY <1>7, <1>9, <1>11, <1>12, <1>16
  <2>5. x.file.levels = w.file.levels /\ x.file.width = w.file.width
    BY <1>7, <1>9, <1>16
  <2> QED BY <2>1, <2>3, <2>4, <2>5
<1>17. ASSUME K # L
       PROVE  /\ x.levelSize = Width(M, K)
              /\ LevelsMatch(x.file.levels, M, Committed(x))
              /\ WidthIs(x.file.width, M, Committed(x))
  <2>1. K \notin LevelsIn(N)
    BY <1>2, <1>3, <1>6, <1>17
  <2>2. (LevelsIn(N) \ {L}) \cup {L} = LevelsIn(N)
    BY <1>12
  <2>3. Committed(x) = LevelsIn(N)
    BY <1>9, <1>10, <1>11, <2>1 DEF Committed
  <2>4. \A l \in LevelsIn(N) \ {L} : L < l
    BY <1>2, <1>6
  <2>5. /\ LevelsMatch(x.file.levels, N, LevelsIn(N))
        /\ WidthIs(x.file.width, N, LevelsIn(N))
    <3>1. LevelsIn(N) \ {L} \in SUBSET Nat /\ L \in Nat
      BY <1>2, <1>6
    <3>2. /\ LevelsMatch(Append(w.file.levels, [level |-> L, width |-> Width(N, L)]), N,
                         (LevelsIn(N) \ {L}) \cup {L})
          /\ WidthIs(Bigger(w.file.width, Width(N, L)), N, (LevelsIn(N) \ {L}) \cup {L})
      BY <1>1, <1>15, <2>4, <3>1, AccountGrows, Zenon
    <3> QED BY <1>7, <1>9, <1>12, <1>17, <2>2, <3>2
  <2>6. \A l \in LevelsIn(N) : Width(M, l) = Width(N, l)
    BY <1>11, <2>1
  <2>7. /\ LevelsMatch(x.file.levels, M, LevelsIn(N))
        /\ WidthIs(x.file.width, M, LevelsIn(N))
    BY <2>5, <2>6, AccountStands
  <2>8. x.levelSize = Width(M, K)
    <3>1. Width(N, K) = 0
      BY <2>1, WidthsOfAbsent
    <3> QED BY <1>7, <1>9, <1>11, <1>17, <3>1
  <2> QED BY <2>3, <2>7, <2>8
<1>18. Filled(x)
  <2>1. /\ x.levelSize = Width(M, LevelOf(x.latest.uid))
        /\ LevelsMatch(x.file.levels, M, Committed(x))
        /\ WidthIs(x.file.width, M, Committed(x))
    BY <1>9, <1>16, <1>17, Zenon
  <2>2. x.latest \in M
    BY <1>9
  <2> HIDE DEF M
  <2> QED BY <1>10, <1>11, <1>13, <1>14, <2>1, <2>2, Zenon DEF Filled
<1> QED BY <1>4, <1>5, <1>8, <1>9, <1>10, <1>18

-----------------------------------------------------------------------------
(* Closing such a writer                                                   *)

LEMMA MaxOfIs ==
    ASSUME NEW S, S \subseteq Int, NEW x \in S, \A y \in S : y <= x
    PROVE  MaxOf(S) = x
<1>1. \E z \in S : \A y \in S : y <= z
  OBVIOUS
<1>2. MaxOf(S) \in S /\ \A y \in S : y <= MaxOf(S)
  BY <1>1 DEF MaxOf
<1>3. PICK m \in S : m = MaxOf(S) /\ x <= m /\ m <= x
  BY <1>2
<1>4. m \in Int /\ x \in Int
  OBVIOUS
<1>5. m = x
  BY <1>3, <1>4
<1> QED BY <1>3, <1>5

LEMMA InnerOfHeld ==
    ASSUME NEW f, HoldsNodes(NodesOf(f))
    PROVE  InnerNodes(f) = NodesOf(f)
BY InnerIs DEF HoldsNodes, InnerNodes

(* What is committed of all levels is what an exact file has.              *)
LEMMA ExactIs ==
    ASSUME NEW f, HoldsNodes(NodesOf(f)),
           LevelsMatch(f.levels, NodesOf(f), LevelsIn(NodesOf(f))),
           WidthIs(f.width, NodesOf(f), LevelsIn(NodesOf(f))),
           NodesOf(f) # {} => \A v \in BOOLEAN : f.terminals[v] = ArcsTo(NodesOf(f), v)
    PROVE  CountsAreExact(f)
<1> DEFINE N == NodesOf(f)
           H == LevelsIn(N)
           S == {Width(N, l) : l \in H} \cup {0}
<1>1. InnerNodes(f) = N
  BY InnerOfHeld
<1>2. \A l \in H : Width(N, l) \in Nat
  BY WidthsAreCounts
<1>3. S \subseteq Int /\ f.width \in S /\ \A y \in S : y <= f.width
  BY <1>2 DEF WidthIs
<1>4. MaxOf(S) = f.width
  <2> HIDE DEF S
  <2> QED BY <1>3, MaxOfIs
<1>5. f.width = MaxOf({Cardinality(OnLevel(N, l)) : l \in H} \cup {0})
  BY <1>4, Zenon DEF Width
<1>6. /\ {f.levels[i] : i \in DOMAIN f.levels} =
            {[level |-> l, width |-> Cardinality(OnLevel(N, l))] : l \in H}
      /\ \A i, j \in DOMAIN f.levels : i < j => f.levels[i].level > f.levels[j].level
  BY Zenon DEF LevelsMatch, Width
<1> HIDE DEF N
<1>7. N # {} => \A v \in BOOLEAN : f.terminals[v] = ArcsTo(N, v)
  BY DEF N
<1> QED BY <1>1, <1>5, <1>6, <1>7, Zenon DEF CountsAreExact, LevelsIn

LEMMA ClosedIsExact ==
    ASSUME NEW w, Filled(w), w.open
    PROVE  /\ CountsAreExact(Closed(w).file) /\ ~Closed(w).open
           /\ NodesOf(Closed(w).file) = NodesOf(w.file)
           /\ Closed(w).file.nodes = w.file.nodes
<1> DEFINE N == NodesOf(w.file)
           H == LevelsIn(N)
           L == LevelOf(w.latest.uid)
           f == Closed(w).file
<1>1. w \in WriterType /\ HoldsNodes(N) /\ w.latest \in N
  BY DEF Filled
<1>2. IsInner(w.latest) /\ w.latest # Dummy /\ ~IsTerminal(w.latest.uid) /\ L \in Level
  BY <1>1, InnerIs DEF HoldsNodes
<1>3. PICK last \in BOOLEAN : last = (w.latest # Dummy /\ ~IsTerminal(w.latest.uid))
  BY Zenon
<1>4. last
  BY <1>2, <1>3
<1>5. /\ ~Closed(w).open
      /\ f.nodes = w.file.nodes /\ f.terminals = w.file.terminals
      /\ f.levels = Append(w.file.levels, [level |-> L, width |-> w.levelSize])
      /\ f.width = Bigger(w.file.width, w.levelSize)
  <2>1. /\ ~Closed(w).open
        /\ f.nodes = w.file.nodes /\ f.terminals = w.file.terminals
        /\ f.levels = IF last
             THEN Append(w.file.levels, [level |-> L, width |-> w.levelSize])
             ELSE w.file.levels
        /\ f.width = IF last THEN Bigger(w.file.width, w.levelSize) ELSE w.file.width
    BY <1>1, <1>3, ClosedIs, Zenon
  <2> QED BY <1>4, <2>1
<1>6. NodesOf(f) = N
  BY <1>5 DEF NodesOf
<1>7. L \in H /\ w.levelSize = Width(N, L)
  BY <1>1 DEF LevelsIn, Filled
<1>8. /\ LevelsMatch(w.file.levels, N, H \ {L}) /\ WidthIs(w.file.width, N, H \ {L})
  BY DEF Filled, Committed
<1>9. \A l \in H : l \in Nat /\ L <= l
  <2> SUFFICES ASSUME NEW m \in N PROVE LevelOf(m.uid) \in Nat /\ L <= LevelOf(m.uid)
    BY DEF LevelsIn
  <2>1. \A l \in Level : l \in Nat
    BY DiagramAssumption DEF Level
  <2>2. IsInner(m) /\ m \in NodeRecord /\ LevelOf(m.uid) \in Nat
    BY <1>1, <2>1, InnerIs DEF HoldsNodes
  <2>3. m.uid \in Nat /\ w.latest.uid \in Nat
    BY <1>2, <2>2, InnerIs DEF NodeRecord
  <2>4. m = w.latest \/ w.latest.uid < m.uid
    BY <2>3 DEF Filled
  <2> QED BY <1>2, <2>2, <2>4, SmallerIsAbove
<1>10. LevelsMatch(f.levels, N, H) /\ WidthIs(f.width, N, H)
  <2>1. L \in Nat /\ H \ {L} \in SUBSET Nat /\ \A k \in H \ {L} : L < k
    BY <1>7, <1>9
  <2>2. /\ LevelsMatch(Append(w.file.levels, [level |-> L, width |-> Width(N, L)]), N,
                       (H \ {L}) \cup {L})
        /\ WidthIs(Bigger(w.file.width, Width(N, L)), N, (H \ {L}) \cup {L})
    BY <1>1, <1>8, <2>1, AccountGrows, Zenon
  <2>3. (H \ {L}) \cup {L} = H
    BY <1>7
  <2> QED BY <1>5, <1>7, <2>2, <2>3
<1>11. \A v \in BOOLEAN : f.terminals[v] = ArcsTo(N, v)
  BY <1>5 DEF Filled
<1>12. CountsAreExact(f)
  <2> HIDE DEF f, N, H
  <2> QED BY <1>1, <1>6, <1>10, <1>11, ExactIs, Zenon DEF N, H
<1> QED BY <1>5, <1>6, <1>12

(* Writers of no node at all, or of one terminal.                          *)
LEMMA NoNodesAreExact ==
    ASSUME NEW f, InnerNodes(f) = {}, f.levels = << >>, f.width = 0
    PROVE  CountsAreExact(f)
<1>1. DOMAIN f.levels = {}
  OBVIOUS
<1>2. MaxOf({} \cup {0}) = 0
  BY MaxOfIs
<1>3. {LevelOf(n.uid) : n \in {}} = {}
  OBVIOUS
<1>4. {Cardinality(OnLevel({}, l)) : l \in {}} = {}
  OBVIOUS
<1>5. {f.levels[i] : i \in DOMAIN f.levels}
        = {[level |-> l, width |-> Cardinality(OnLevel({}, l))] : l \in {}}
  BY <1>1
<1> QED BY <1>1, <1>2, <1>3, <1>4, <1>5, Zenon DEF CountsAreExact

OneTerminal(w) ==
    /\ w \in WriterType
    /\ \E v \in BOOLEAN : w.file.nodes = <<TerminalNode(v)>> /\ w.latest = TerminalNode(v)
    /\ w.file.levels = << >> /\ w.file.width = 0

LEMMA TerminalIs ==
    ASSUME NEW v \in BOOLEAN
    PROVE  /\ TerminalNode(v) \in NodeRecord /\ IsTerminal(TerminalNode(v).uid)
           /\ ~IsNode(TerminalNode(v).uid)
BY PointersAre, NodeIs DEF TerminalNode

LEMMA TerminalPush ==
    ASSUME NEW w, Fresh(w), NEW v \in BOOLEAN
    PROVE  OneTerminal(Push(w, TerminalNode(v))) /\ Push(w, TerminalNode(v)).open = w.open
<1> DEFINE n == TerminalNode(v)
<1>1. n \in NodeRecord /\ w \in WriterType
  BY TerminalIs DEF Fresh
<1>2. PICK x \in WriterType : x = Push(w, n)
  BY <1>1, PushIs
<1>3. PICK new \in BOOLEAN : new = IsNewLevel(w, n)
  BY Zenon DEF IsNewLevel
<1>4. ~new
  BY <1>3 DEF Fresh, IsNewLevel
<1> HIDE DEF n
<1>5. /\ x.open = w.open /\ x.latest = n
      /\ x.file.nodes = Append(w.file.nodes, n)
      /\ x.file.levels = IF new
           THEN Append(w.file.levels,
                       [level |-> LevelOf(w.latest.uid), width |-> w.levelSize])
           ELSE w.file.levels
      /\ x.file.width = IF new THEN Bigger(w.file.width, w.levelSize) ELSE w.file.width
  BY <1>1, <1>2, <1>3, PushIs, ZenonT(40)
<1>6. x.file.nodes = <<n>>
  BY <1>5 DEF Fresh
<1> QED BY <1>2, <1>4, <1>5, <1>6 DEF OneTerminal, Fresh, n

LEMMA EmptyIsExact ==
    ASSUME NEW w, w.open, Fresh(w) \/ OneTerminal(w)
    PROVE  /\ CountsAreExact(Closed(w).file) /\ ~Closed(w).open
           /\ InnerNodes(Closed(w).file) = {}
           /\ Closed(w).file.nodes = w.file.nodes
<1>1. w \in WriterType
  BY DEF Fresh, OneTerminal
<1>2. PICK last \in BOOLEAN : last = (w.latest # Dummy /\ ~IsTerminal(w.latest.uid))
  BY Zenon
<1>3. ~last
  BY <1>2, TerminalIs DEF Fresh, OneTerminal
<1>4. /\ ~Closed(w).open
      /\ Closed(w).file.nodes = w.file.nodes
      /\ Closed(w).file.levels = << >> /\ Closed(w).file.width = 0
  <2>1. /\ ~Closed(w).open
        /\ Closed(w).file.nodes = w.file.nodes
        /\ Closed(w).file.levels = IF last
             THEN Append(w.file.levels,
                         [level |-> LevelOf(w.latest.uid), width |-> w.levelSize])
             ELSE w.file.levels
        /\ Closed(w).file.width = IF last THEN Bigger(w.file.width, w.levelSize) ELSE w.file.width
    BY <1>1, <1>2, ClosedIs, Zenon
  <2> QED BY <1>3, <2>1 DEF Fresh, OneTerminal
<1>5. InnerNodes(Closed(w).file) = {}
  <2>1. CASE Fresh(w)
    BY <1>4, <2>1 DEF Fresh, InnerNodes, NodesOf
  <2>2. CASE OneTerminal(w)
    <3>1. PICK v \in BOOLEAN : w.file.nodes = <<TerminalNode(v)>>
      BY <2>2 DEF OneTerminal
    <3>2. NodesOf(Closed(w).file) = {TerminalNode(v)}
      BY <1>4, <3>1 DEF NodesOf
    <3> QED BY <3>2, TerminalIs DEF InnerNodes
  <2> QED BY <2>1, <2>2
<1> QED BY <1>4, <1>5, NoNodesAreExact

(***************************************************************************)
(* Why the cuts a writer of nodes leaves in a file's meta data are at      *)
(* least the largest of the diagram in the file: first what is true of the *)
(* cuts of every diagram, then what the writer's counters say of the nodes *)
(* it was given so far.                                                    *)
(***************************************************************************)

-----------------------------------------------------------------------------
(* Counting                                                                *)

LEMMA PartsAreFewer ==
    ASSUME NEW T, IsFiniteSet(T), NEW S, S \subseteq T
    PROVE  IsFiniteSet(S) /\ Cardinality(S) \in Nat /\ Cardinality(T) \in Nat
           /\ Cardinality(S) <= Cardinality(T)
<1>1. IsFiniteSet(S) /\ Cardinality(S) <= Cardinality(T)
  BY FS_Subset, Zenon
<1> QED BY <1>1, FS_CardinalityType, Zenon

LEMMA PartsAdd ==
    ASSUME NEW S, IsFiniteSet(S), NEW T, IsFiniteSet(T), S \cap T = {}
    PROVE  /\ IsFiniteSet(S \cup T)
           /\ Cardinality(S) \in Nat /\ Cardinality(T) \in Nat
           /\ Cardinality(S \cup T) = Cardinality(S) + Cardinality(T)
<1>1. /\ IsFiniteSet(S \cup T)
      /\ Cardinality(S \cup T) = Cardinality(S) + Cardinality(T) - Cardinality(S \cap T)
  BY FS_Union, Zenon
<1>2. Cardinality(S \cap T) = 0
  BY FS_EmptySet, Zenon
<1>3. Cardinality(S) \in Nat /\ Cardinality(T) \in Nat
  BY FS_CardinalityType, Zenon
<1> QED BY <1>1, <1>2, <1>3

LEMMA PartsFit ==
    ASSUME NEW U, IsFiniteSet(U), NEW S, S \subseteq U, NEW T, T \subseteq U, S \cap T = {}
    PROVE  /\ Cardinality(S) \in Nat /\ Cardinality(T) \in Nat /\ Cardinality(U) \in Nat
           /\ Cardinality(S) + Cardinality(T) <= Cardinality(U)
<1>1. IsFiniteSet(S) /\ IsFiniteSet(T)
  BY PartsAreFewer
<1>2. IsFiniteSet(S \cup T) /\ Cardinality(S \cup T) = Cardinality(S) + Cardinality(T)
  BY <1>1, PartsAdd
<1>3. S \cup T \subseteq U
  OBVIOUS
<1>4. Cardinality(S \cup T) <= Cardinality(U)
  BY <1>3, PartsAreFewer
<1>5. Cardinality(S) \in Nat /\ Cardinality(T) \in Nat /\ Cardinality(U) \in Nat
  BY PartsAreFewer
<1> QED BY <1>2, <1>4, <1>5

-----------------------------------------------------------------------------
(* Arcs across a cut                                                       *)

Sides == {"low", "high"}
SidesIn(N) == N \X Sides
EndOf(a) == a[1][a[2]]

(* Nodes with unique identifiers and children among them on deeper levels. *)
HoldsDiagram(N) ==
    /\ HoldsNodes(N)
    /\ \A m, n \in N : m.uid = n.uid => m = n
    /\ \A n \in N, s \in Sides :
          \/ IsTerminal(n[s])
          \/ \E m \in N : m.uid = n[s] /\ LevelOf(n.uid) < LevelOf(m.uid)

ArcsInto(U, V) == {a \in SidesIn(U) : IsNode(EndOf(a)) /\ \E n \in V : n.uid = EndOf(a)}
NodeArcsOut(U) == {a \in SidesIn(U) : IsNode(EndOf(a)) /\ \A n \in U : n.uid # EndOf(a)}
Across(U, k) == {a \in SidesIn(U) : Counted(EndOf(a), U, k)}

LEMMA ArcsOfIs ==
    ASSUME NEW N, IsFiniteSet(N)
    PROVE  /\ IsFiniteSet(SidesIn(N)) /\ Cardinality(N) \in Nat
           /\ Cardinality(SidesIn(N)) = 2 * Cardinality(N)
<1>1. IsFiniteSet(Sides) /\ Cardinality(Sides) = 2
  <2>1. IsFiniteSet({"low"}) /\ Cardinality({"low"}) = 1
    BY FS_Singleton, Zenon
  <2>2. IsFiniteSet({"high"}) /\ Cardinality({"high"}) = 1
    BY FS_Singleton, Zenon
  <2>3. {"low"} \cap {"high"} = {} /\ Sides = {"low"} \cup {"high"}
    BY DEF Sides
  <2> HIDE DEF Sides
  <2>4. IsFiniteSet({"low"} \cup {"high"})
        /\ Cardinality({"low"} \cup {"high"}) = Cardinality({"low"}) + Cardinality({"high"})
    BY <2>1, <2>2, <2>3, PartsAdd, Zenon
  <2> QED BY <2>1, <2>2, <2>3, <2>4
<1>2. /\ IsFiniteSet(N \X Sides)
      /\ Cardinality(N \X Sides) = Cardinality(N) * Cardinality(Sides)
  BY <1>1, FS_Product, Zenon
<1>3. Cardinality(N) \in Nat
  BY FS_CardinalityType, Zenon
<1> QED BY <1>1, <1>2, <1>3 DEF SidesIn

LEMMA CutSizeIs ==
    ASSUME NEW N, NEW U, NEW k
    PROVE  CutSize(N, U, k) = IF U = {} THEN 1 ELSE Cardinality(Across(U, k))
BY Zenon DEF CutSize, Across, SidesIn, EndOf, Sides

(* The arcs across a cut go to nodes or to terminals of the kind.          *)
LEMMA CrossingIs ==
    ASSUME NEW U, IsFiniteSet(U), NEW k
    PROVE  /\ Across(U, k) \subseteq SidesIn(U) /\ IsFiniteSet(Across(U, k))
           /\ Cardinality(Across(U, k)) \in Nat
<1>1. Across(U, k) \subseteq SidesIn(U)
  BY DEF Across
<1> QED BY <1>1, ArcsOfIs, PartsAreFewer, Zenon

(* One arc more than there are nodes on the upper side is the most that    *)
(* can cross a cut: all nodes but the root have an arc from above.         *)
LEMMA CutIsWithinNodes ==
    ASSUME NEW U, IsFiniteSet(U), \A n \in U : IsInner(n),
           \A m, n \in U : m.uid = n.uid => m = n,
           NEW r, \A n \in U \ {r} : \E a \in SidesIn(U) : EndOf(a) = n.uid,
           NEW k
    PROVE  Cardinality(Across(U, k)) <= Cardinality(U) + 1
<1> DEFINE In == ArcsInto(U, U)
           V == U \ {r}
           f == [n \in V |-> CHOOSE a \in SidesIn(U) : EndOf(a) = n.uid]
<1>1. IsFiniteSet(SidesIn(U)) /\ Cardinality(SidesIn(U)) = 2 * Cardinality(U) /\ Cardinality(U) \in Nat
  BY ArcsOfIs
<1>2. In \subseteq SidesIn(U) /\ IsFiniteSet(In) /\ Cardinality(In) \in Nat
  <2>1. In \subseteq SidesIn(U)
    BY DEF ArcsInto
  <2> QED BY <1>1, <2>1, PartsAreFewer, Zenon
<1>3. \A n \in V : f[n] \in In /\ EndOf(f[n]) = n.uid
  <2> SUFFICES ASSUME NEW n \in V
               PROVE  f[n] \in In /\ EndOf(f[n]) = n.uid
    OBVIOUS
  <2>1. f[n] \in SidesIn(U) /\ EndOf(f[n]) = n.uid
    BY Zenon
  <2>2. IsNode(n.uid)
    BY InnerIs
  <2> HIDE DEF f
  <2> QED BY <2>1, <2>2, Zenon DEF ArcsInto
<1>4. f \in Injection(V, In)
  <2>1. f \in [V -> In]
    BY <1>3
  <2>2. ASSUME NEW m \in V, NEW n \in V, f[m] = f[n]
        PROVE  m = n
    <3> HIDE DEF f
    <3> QED BY <1>3, <2>2
  <2> HIDE DEF f
  <2> QED BY <2>1, <2>2, Zenon DEF Injection, IsInjective
<1> HIDE DEF In, f
<1>5. IsFiniteSet(V) /\ Cardinality(V) >= Cardinality(U) - 1
  <2>1. /\ IsFiniteSet(V)
        /\ Cardinality(V) = IF r \in U THEN Cardinality(U) - 1 ELSE Cardinality(U)
    BY <1>1, FS_RemoveElement, Zenon
  <2>2. PICK c \in Nat : c = Cardinality(U)
    BY <1>1, FS_CardinalityType, Zenon
  <2>3. c >= c - 1 /\ c - 1 >= c - 1
    BY <2>2
  <2> QED BY <2>1, <2>2, <2>3, Zenon
<1>6. Cardinality(V) <= Cardinality(In)
  BY <1>2, <1>4, FS_Injection, Zenon
<1>7. Cardinality(V) \in Nat
  BY <1>5, FS_CardinalityType, Zenon
<1>8. Across(U, k) \cap In = {}
  BY DEF Across, In, ArcsInto, Counted
<1>9. Cardinality(Across(U, k)) + Cardinality(In) <= Cardinality(SidesIn(U))
      /\ Cardinality(Across(U, k)) \in Nat
  BY <1>1, <1>2, <1>8, CrossingIs, PartsFit, Zenon
<1> QED BY <1>1, <1>2, <1>5, <1>6, <1>7, <1>9

-----------------------------------------------------------------------------
(* Arcs to terminals across a cut                                          *)

OfKind(k, f, t) == (IF Includes(k, FALSE) THEN f ELSE 0) + (IF Includes(k, TRUE) THEN t ELSE 0)
ToTerminals(U, k) == OfKind(k, ArcsTo(U, FALSE), ArcsTo(U, TRUE))

LEMMA OfKindIs ==
    ASSUME NEW k, NEW f \in Nat, NEW t \in Nat
    PROVE  /\ OfKind(k, f, t) \in Nat
           /\ \A g, h \in Nat : g <= f /\ h <= t => OfKind(k, g, h) <= OfKind(k, f, t)
<1>1. PICK b \in BOOLEAN, c \in BOOLEAN : b = Includes(k, FALSE) /\ c = Includes(k, TRUE)
  BY Zenon DEF Includes
<1>2. \A g, h : OfKind(k, g, h) = (IF b THEN g ELSE 0) + (IF c THEN h ELSE 0)
  BY <1>1, Zenon DEF OfKind
<1> QED BY <1>2

LEMMA KindsAdd ==
    ASSUME NEW k, NEW f \in Nat, NEW t \in Nat, NEW g \in Nat, NEW h \in Nat
    PROVE  OfKind(k, f + g, t + h) = OfKind(k, f, t) + OfKind(k, g, h)
<1>1. PICK b \in BOOLEAN, c \in BOOLEAN : b = Includes(k, FALSE) /\ c = Includes(k, TRUE)
  BY Zenon DEF Includes
<1>2. \A x, y : OfKind(k, x, y) = (IF b THEN x ELSE 0) + (IF c THEN y ELSE 0)
  BY <1>1, Zenon DEF OfKind
<1> QED BY <1>2

LEMMA KindOfArc ==
    ASSUME NEW k, NEW p
    PROVE  Includes(k, Value(p)) <=> \/ Value(p) /\ Includes(k, TRUE)
                                     \/ ~Value(p) /\ Includes(k, FALSE)
<1>1. CASE Value(p)
  BY <1>1, Zenon DEF Includes
<1>2. CASE ~Value(p)
  BY <1>2, Zenon DEF Includes
<1> QED BY <1>1, <1>2

LEMMA SlotsAre ==
    ASSUME NEW U
    PROVE  /\ \A a : a \in SlotsTo(U, TRUE) <=> /\ a \in SidesIn(U) /\ IsTerminal(EndOf(a))
                                                /\ Value(EndOf(a))
           /\ \A a : a \in SlotsTo(U, FALSE) <=> /\ a \in SidesIn(U) /\ IsTerminal(EndOf(a))
                                                 /\ ~Value(EndOf(a))
<1>1. \A p : (Value(p) = TRUE <=> Value(p)) /\ (Value(p) = FALSE <=> ~Value(p))
  BY Zenon DEF Value
<1> QED BY <1>1, Zenon DEF SlotsTo, SidesIn, EndOf, Sides

LEMMA NodesAreNoTerminals == \A p \in Int : ~(IsNode(p) /\ IsTerminal(p))
<1>1. PICK t \in Nat : t = Terminal(FALSE)
  BY PointersAre, Zenon
<1>2. \A p : (IsNode(p) => p < t) /\ (IsTerminal(p) => t <= p)
  BY <1>1, Zenon DEF IsNode, IsTerminal
<1> QED BY <1>2

LEMMA EndsAre ==
    ASSUME NEW U, \A n \in U : n \in NodeRecord, NEW a \in SidesIn(U)
    PROVE  EndOf(a) \in Nat /\ a[1] \in U /\ a[2] \in Sides
<1>1. a[1] \in U /\ a[2] \in Sides
  BY DEF SidesIn
<1>2. \A n \in NodeRecord : n["low"] \in Nat /\ n["high"] \in Nat
  BY DEF NodeRecord
<1> QED BY <1>1, <1>2 DEF EndOf, Sides

LEMMA CrossingSplits ==
    ASSUME NEW U, IsFiniteSet(U), \A n \in U : n \in NodeRecord,
           \A a \in SidesIn(U) : IsNode(EndOf(a)) \/ IsTerminal(EndOf(a)),
           NEW k
    PROVE  /\ Cardinality(NodeArcsOut(U)) \in Nat /\ ToTerminals(U, k) \in Nat
           /\ Cardinality(Across(U, k)) = Cardinality(NodeArcsOut(U)) + ToTerminals(U, k)
<1> DEFINE O == NodeArcsOut(U)
           F == IF Includes(k, FALSE) THEN SlotsTo(U, FALSE) ELSE {}
           T == IF Includes(k, TRUE) THEN SlotsTo(U, TRUE) ELSE {}
<1>1. IsFiniteSet(O)
  <2>1. O \subseteq SidesIn(U)
    BY DEF NodeArcsOut
  <2> QED BY <2>1, ArcsOfIs, PartsAreFewer, Zenon
<1>2. /\ IsFiniteSet(SlotsTo(U, FALSE)) /\ ArcsTo(U, FALSE) = Cardinality(SlotsTo(U, FALSE))
      /\ IsFiniteSet(SlotsTo(U, TRUE)) /\ ArcsTo(U, TRUE) = Cardinality(SlotsTo(U, TRUE))
      /\ ArcsTo(U, FALSE) \in Nat /\ ArcsTo(U, TRUE) \in Nat
  BY ArcsAreFinite, Zenon
<1>3. IsFiniteSet(F) /\ Cardinality(F) = IF Includes(k, FALSE) THEN ArcsTo(U, FALSE) ELSE 0
  BY <1>2, FS_EmptySet, Zenon
<1>4. IsFiniteSet(T) /\ Cardinality(T) = IF Includes(k, TRUE) THEN ArcsTo(U, TRUE) ELSE 0
  BY <1>2, FS_EmptySet, Zenon
<1>5. \A a \in SidesIn(U) : ~(IsNode(EndOf(a)) /\ IsTerminal(EndOf(a)))
  <2>1. \A a \in SidesIn(U) : EndOf(a) \in Int
    BY EndsAre
  <2> QED BY <2>1, NodesAreNoTerminals, Zenon
<1>6. Across(U, k) = (O \cup F) \cup T
  <2>1. \A a : a \in F <=> /\ a \in SidesIn(U) /\ IsTerminal(EndOf(a))
                           /\ ~Value(EndOf(a)) /\ Includes(k, FALSE)
    BY SlotsAre, Zenon
  <2>2. \A a : a \in T <=> /\ a \in SidesIn(U) /\ IsTerminal(EndOf(a))
                           /\ Value(EndOf(a)) /\ Includes(k, TRUE)
    BY SlotsAre, Zenon
  <2>3. \A a : a \in O <=> /\ a \in SidesIn(U) /\ IsNode(EndOf(a))
                           /\ \A n \in U : n.uid # EndOf(a)
    BY Zenon DEF NodeArcsOut
  <2>4. \A a : a \in Across(U, k) <=>
            /\ a \in SidesIn(U)
            /\ IF IsNode(EndOf(a)) THEN \A n \in U : n.uid # EndOf(a)
                                   ELSE Includes(k, Value(EndOf(a)))
    BY Zenon DEF Across, Counted
  <2> HIDE DEF O, F, T
  <2>5. ASSUME NEW a
        PROVE  a \in Across(U, k) <=> a \in O \/ a \in F \/ a \in T
    <3>1. CASE a \in SidesIn(U) /\ IsNode(EndOf(a))
      BY <1>5, <2>1, <2>2, <2>3, <2>4, <3>1, Zenon
    <3>2. CASE a \in SidesIn(U) /\ ~IsNode(EndOf(a))
      BY <2>1, <2>2, <2>3, <2>4, <3>2, KindOfArc, Zenon
    <3>3. CASE a \notin SidesIn(U)
      BY <2>1, <2>2, <2>3, <2>4, <3>3, Zenon
    <3> QED BY <3>1, <3>2, <3>3, Zenon
  <2> QED BY <2>5, Zenon
<1>7. O \cap F = {} /\ (O \cup F) \cap T = {}
  BY <1>5, SlotsAre, Zenon DEF NodeArcsOut
<1>8. ToTerminals(U, k) = Cardinality(F) + Cardinality(T)
  BY <1>3, <1>4, Zenon DEF ToTerminals, OfKind
<1> HIDE DEF O, F, T
<1>9. /\ IsFiniteSet(O \cup F) /\ Cardinality(O) \in Nat /\ Cardinality(F) \in Nat
      /\ Cardinality(O \cup F) = Cardinality(O) + Cardinality(F)
  BY <1>1, <1>3, <1>7, PartsAdd, Zenon
<1>10. Cardinality(T) \in Nat
       /\ Cardinality((O \cup F) \cup T) = Cardinality(O \cup F) + Cardinality(T)
  BY <1>4, <1>7, <1>9, PartsAdd, Zenon
<1>11. Cardinality(Across(U, k)) = Cardinality(O) + (Cardinality(F) + Cardinality(T))
  BY <1>6, <1>9, <1>10
<1>12. Cardinality(O) \in Nat /\ ToTerminals(U, k) \in Nat
  BY <1>8, <1>9, <1>10
<1> QED BY <1>8, <1>11, <1>12 DEF O

(* No more arcs cross a cut than there are, without those to a terminal    *)
(* that the kind excludes.                                                 *)
LEMMA CutIsWithinArcs ==
    ASSUME NEW N, IsFiniteSet(N), \A n \in N : n \in NodeRecord, NEW U, U \subseteq N, NEW k
    PROVE  Cardinality(Across(U, k))
              <= 2 * Cardinality(N) - (IF Includes(k, FALSE) THEN 0 ELSE ArcsTo(N, FALSE))
                                    - (IF Includes(k, TRUE) THEN 0 ELSE ArcsTo(N, TRUE))
<1> DEFINE C == Across(U, k)
           F == IF Includes(k, FALSE) THEN {} ELSE SlotsTo(N, FALSE)
           T == IF Includes(k, TRUE) THEN {} ELSE SlotsTo(N, TRUE)
<1>1. /\ IsFiniteSet(SidesIn(N)) /\ Cardinality(SidesIn(N)) = 2 * Cardinality(N)
      /\ Cardinality(N) \in Nat
  BY ArcsOfIs
<1>2. /\ IsFiniteSet(SlotsTo(N, FALSE)) /\ ArcsTo(N, FALSE) = Cardinality(SlotsTo(N, FALSE))
      /\ IsFiniteSet(SlotsTo(N, TRUE)) /\ ArcsTo(N, TRUE) = Cardinality(SlotsTo(N, TRUE))
  BY ArcsAreFinite, Zenon
<1>3. IsFiniteSet(F) /\ Cardinality(F) = IF Includes(k, FALSE) THEN 0 ELSE ArcsTo(N, FALSE)
  BY <1>2, FS_EmptySet, Zenon
<1>4. IsFiniteSet(T) /\ Cardinality(T) = IF Includes(k, TRUE) THEN 0 ELSE ArcsTo(N, TRUE)
  BY <1>2, FS_EmptySet, Zenon
<1>5. SidesIn(U) \subseteq SidesIn(N)
  BY DEF SidesIn
<1>6. IsFiniteSet(U)
  BY PartsAreFewer, Zenon
<1>7. C \subseteq SidesIn(N) /\ IsFiniteSet(C)
  BY <1>5, <1>6, CrossingIs, Zenon
<1>8. F \subseteq SidesIn(N) /\ T \subseteq SidesIn(N)
  BY SlotsAre, Zenon
<1>9. \A a \in SidesIn(N) : ~(IsNode(EndOf(a)) /\ IsTerminal(EndOf(a)))
  <2>1. \A a \in SidesIn(N) : EndOf(a) \in Int
    BY EndsAre
  <2> QED BY <2>1, NodesAreNoTerminals, Zenon
<1>10. ASSUME NEW a \in C
       PROVE  a \notin F /\ a \notin T
  <2>1. CASE IsNode(EndOf(a))
    BY <1>7, <1>9, <2>1, SlotsAre, Zenon
  <2>2. CASE ~IsNode(EndOf(a))
    <3>1. Includes(k, Value(EndOf(a)))
      BY <2>2, Zenon DEF Across, Counted
    <3> QED BY <3>1, KindOfArc, SlotsAre, Zenon
  <2> QED BY <2>1, <2>2, Zenon
<1>11. C \cap F = {} /\ (C \cup F) \cap T = {}
  BY <1>10, SlotsAre, Zenon
<1> HIDE DEF C, F, T
<1>12. /\ IsFiniteSet(C \cup F) /\ Cardinality(C) \in Nat /\ Cardinality(F) \in Nat
       /\ Cardinality(C \cup F) = Cardinality(C) + Cardinality(F)
  BY <1>3, <1>7, <1>11, PartsAdd, Zenon
<1>13. C \cup F \subseteq SidesIn(N)
  BY <1>7, <1>8, Zenon
<1>14. Cardinality(C \cup F) + Cardinality(T) <= Cardinality(SidesIn(N))
       /\ Cardinality(T) \in Nat
  BY <1>1, <1>8, <1>11, <1>13, PartsFit, Zenon
<1>15. Cardinality(C) <= 2 * Cardinality(N) - Cardinality(F) - Cardinality(T)
  BY <1>1, <1>12, <1>14
<1> QED BY <1>3, <1>4, <1>15 DEF C

LEMMA SlotsAdd ==
    ASSUME NEW U, IsFiniteSet(U), NEW V, IsFiniteSet(V), U \cap V = {}, NEW v
    PROVE  /\ ArcsTo(U, v) \in Nat /\ ArcsTo(V, v) \in Nat
           /\ ArcsTo(U \cup V, v) = ArcsTo(U, v) + ArcsTo(V, v)
<1>1. /\ IsFiniteSet(SlotsTo(U, v)) /\ ArcsTo(U, v) = Cardinality(SlotsTo(U, v))
      /\ IsFiniteSet(SlotsTo(V, v)) /\ ArcsTo(V, v) = Cardinality(SlotsTo(V, v))
      /\ ArcsTo(U, v) \in Nat /\ ArcsTo(V, v) \in Nat
  BY ArcsAreFinite, Zenon
<1>2. SlotsTo(U \cup V, v) = SlotsTo(U, v) \cup SlotsTo(V, v)
  BY DEF SlotsTo
<1>3. SlotsTo(U, v) \cap SlotsTo(V, v) = {}
  <2>1. \A W : \A a \in SlotsTo(W, v) : a[1] \in W
    BY DEF SlotsTo
  <2> QED BY <2>1
<1>4. Cardinality(SlotsTo(U, v) \cup SlotsTo(V, v))
        = Cardinality(SlotsTo(U, v)) + Cardinality(SlotsTo(V, v))
  BY <1>1, <1>3, PartsAdd, Zenon
<1>5. IsFiniteSet(U \cup V)
  BY PartsAdd
<1>6. ArcsTo(U \cup V, v) = Cardinality(SlotsTo(U \cup V, v))
  BY <1>5, ArcsAreFinite, Zenon
<1> QED BY <1>1, <1>2, <1>4, <1>6

LEMMA TerminalsAdd ==
    ASSUME NEW U, IsFiniteSet(U), NEW V, IsFiniteSet(V), U \cap V = {}, NEW k
    PROVE  /\ ToTerminals(U, k) \in Nat /\ ToTerminals(V, k) \in Nat
           /\ ToTerminals(U \cup V, k) = ToTerminals(U, k) + ToTerminals(V, k)
<1>1. PICK f \in Nat, t \in Nat, g \in Nat, h \in Nat :
        /\ f = ArcsTo(U, FALSE) /\ t = ArcsTo(U, TRUE)
        /\ g = ArcsTo(V, FALSE) /\ h = ArcsTo(V, TRUE)
  BY ArcsAreFinite, Zenon
<1>2. ArcsTo(U \cup V, FALSE) = f + g /\ ArcsTo(U \cup V, TRUE) = t + h
  <2>1. \A v : ArcsTo(U \cup V, v) = ArcsTo(U, v) + ArcsTo(V, v)
    BY SlotsAdd
  <2> QED BY <1>1, <2>1, Zenon
<1>3. OfKind(k, f + g, t + h) = OfKind(k, f, t) + OfKind(k, g, h)
      /\ OfKind(k, f, t) \in Nat /\ OfKind(k, g, h) \in Nat
  <2>1. OfKind(k, f + g, t + h) = OfKind(k, f, t) + OfKind(k, g, h)
    BY KindsAdd
  <2>2. OfKind(k, f, t) \in Nat /\ OfKind(k, g, h) \in Nat
    BY OfKindIs
  <2> QED BY <2>1, <2>2
<1> QED BY <1>1, <1>2, <1>3, Zenon DEF ToTerminals

(* At most two arcs a node.                                                *)
LEMMA TerminalsOfNodes ==
    ASSUME NEW U, IsFiniteSet(U), \A n \in U : n \in NodeRecord,
           \A a \in SidesIn(U) : IsNode(EndOf(a)) \/ IsTerminal(EndOf(a)), NEW k
    PROVE  Cardinality(NodeArcsOut(U)) + ToTerminals(U, k) <= 2 * Cardinality(U)
<1>1. Cardinality(Across(U, k)) <= Cardinality(SidesIn(U))
  BY CrossingIs, ArcsOfIs, PartsAreFewer, Zenon
<1> QED BY <1>1, ArcsOfIs, CrossingSplits

-----------------------------------------------------------------------------
(* Cuts between levels                                                     *)

LEMMA LeastExists ==
    ASSUME NEW S, S \subseteq Nat, S # {}
    PROVE  \E m \in S : \A x \in S : m <= x
<1>1. PICK m \in S : \A x \in S : ~(<<x, m>> \in OpToRel(<, Nat))
  BY NatLessThanWellFounded, WFMin
<1>2. \A x \in S : x < m => <<x, m>> \in OpToRel(<, Nat)
  BY Zenon DEF OpToRel
<1>3. \A x \in S : ~(x < m) /\ x \in Nat /\ m \in Nat
  BY <1>1, <1>2
<1> QED BY <1>3

LEMMA GreatestExists ==
    ASSUME NEW S, S \subseteq Nat, S # {}, NEW b \in Nat, \A x \in S : x <= b
    PROVE  \E m \in S : \A x \in S : x <= m
<1> DEFINE D == {b - x : x \in S}
<1>1. D \subseteq Nat /\ D # {}
  <2>1. \A x \in S : b - x \in Nat
    OBVIOUS
  <2> QED BY <2>1
<1>2. PICK d \in D : \A e \in D : d <= e
  BY <1>1, LeastExists
<1>3. PICK m \in S : d = b - m
  OBVIOUS
<1>4. \A x \in S : b - m <= b - x
  BY <1>2, <1>3
<1> QED BY <1>4

LEMMA NodesHaveLevels ==
    ASSUME NEW N, HoldsNodes(N), NEW n \in N
    PROVE  /\ LevelOf(n.uid) \in Nat /\ LevelOf(n.uid) < Levels
           /\ n \in NodeRecord /\ n.uid \in Nat /\ IsNode(n.uid)
<1>1. n \in NodeRecord /\ LevelOf(n.uid) \in Level /\ IsNode(n.uid)
  BY InnerIs DEF HoldsNodes
<1> QED BY <1>1, DiagramAssumption DEF Level, NodeRecord

LEMMA EndsInDiagram ==
    ASSUME NEW N, HoldsDiagram(N), NEW a \in SidesIn(N)
    PROVE  /\ a[1] \in N /\ a[2] \in Sides /\ EndOf(a) \in Nat
           /\ IsNode(EndOf(a)) <=> ~IsTerminal(EndOf(a))
           /\ IsNode(EndOf(a)) => \E m \in N : /\ m.uid = EndOf(a)
                                               /\ LevelOf(a[1].uid) < LevelOf(m.uid)
<1>1. a[1] \in N /\ a[2] \in Sides /\ EndOf(a) \in Nat
  BY EndsAre, NodesHaveLevels DEF HoldsDiagram
<1>2. ~(IsNode(EndOf(a)) /\ IsTerminal(EndOf(a)))
  BY <1>1, NodesAreNoTerminals
<1>3. \/ IsTerminal(EndOf(a))
      \/ \E m \in N : m.uid = EndOf(a) /\ LevelOf(a[1].uid) < LevelOf(m.uid)
  BY <1>1, Zenon DEF HoldsDiagram, EndOf
<1>4. \A m \in N : IsNode(m.uid)
  BY NodesHaveLevels DEF HoldsDiagram
<1> QED BY <1>1, <1>2, <1>3, <1>4, Zenon

LEMMA PartOfDiagram ==
    ASSUME NEW N, HoldsDiagram(N), NEW U, U \subseteq N
    PROVE  /\ IsFiniteSet(U) /\ \A n \in U : IsInner(n) /\ n \in NodeRecord
           /\ \A a \in SidesIn(U) : a \in SidesIn(N)
           /\ \A a \in SidesIn(U) : IsNode(EndOf(a)) \/ IsTerminal(EndOf(a))
<1>1. \A a \in SidesIn(U) : a \in SidesIn(N)
  BY DEF SidesIn
<1>2. IsFiniteSet(U)
  BY PartsAreFewer, Zenon DEF HoldsDiagram, HoldsNodes
<1>3. \A n \in U : IsInner(n) /\ n \in NodeRecord
  BY InnerIs DEF HoldsDiagram, HoldsNodes
<1> QED BY <1>1, <1>2, <1>3, EndsInDiagram, Zenon

(* An arc that passes a level with nodes, and the two kinds of arcs.       *)
Passes(N, a) ==
    \E m \in N : LevelOf(a[1].uid) < LevelOf(m.uid) /\ LevelOf(m.uid) < LevelOf(EndOf(a))
ShortArcs(N, l) == {a \in SidesIn(OnLevel(N, l)) : IsNode(EndOf(a)) /\ ~Passes(N, a)}
LongArcs(N) == {a \in SidesIn(N) : IsNode(EndOf(a)) /\ Passes(N, a)}

LEMMA ArcsOfKindAre ==
    ASSUME NEW N, IsFiniteSet(N), NEW l
    PROVE  /\ IsFiniteSet(ShortArcs(N, l)) /\ Cardinality(ShortArcs(N, l)) \in Nat
           /\ IsFiniteSet(LongArcs(N)) /\ Cardinality(LongArcs(N)) \in Nat
<1>1. ShortArcs(N, l) \subseteq SidesIn(N) /\ LongArcs(N) \subseteq SidesIn(N)
  BY DEF ShortArcs, LongArcs, SidesIn, OnLevel
<1> QED BY <1>1, ArcsOfIs, PartsAreFewer, Zenon

(* What crosses between two levels is a short arc of the level above the   *)
(* cut or a long arc.                                                      *)
LEMMA CutBetweenLevels ==
    ASSUME NEW N, HoldsDiagram(N), NEW l \in Nat, Above(N, l) # {},
           NEW s \in Nat, \A j \in LevelsIn(N) : Cardinality(ShortArcs(N, j)) <= s
    PROVE  Cardinality(NodeArcsOut(Above(N, l))) <= s + Cardinality(LongArcs(N))
<1> DEFINE A == Above(N, l)
           H == {LevelOf(n.uid) : n \in A}
<1>1. IsFiniteSet(N) /\ \A n \in N : LevelOf(n.uid) \in Nat
  BY NodesHaveLevels DEF HoldsDiagram, HoldsNodes
<1>2. A \subseteq N /\ \A n \in N : n \in A <=> LevelOf(n.uid) < l
  BY DEF Above
<1>3. PICK j \in H : \A i \in H : i <= j
  <2>1. H \subseteq Nat /\ H # {} /\ \A i \in H : i <= l
    BY <1>1, <1>2
  <2> QED BY <2>1, GreatestExists
<1>4. PICK q \in N : LevelOf(q.uid) = j /\ j < l /\ j \in Nat
  BY <1>1, <1>2
<1>5. ASSUME NEW a \in NodeArcsOut(A)
      PROVE  a \in ShortArcs(N, j) \cup LongArcs(N)
  <2>1. a \in SidesIn(A) /\ IsNode(EndOf(a)) /\ \A n \in A : n.uid # EndOf(a)
    BY DEF NodeArcsOut
  <2>2. a \in SidesIn(N) /\ a[1] \in A
    BY <1>2, <2>1 DEF SidesIn
  <2>3. PICK m \in N : m.uid = EndOf(a) /\ LevelOf(a[1].uid) < LevelOf(m.uid)
    BY <2>1, <2>2, EndsInDiagram
  <2>4. LevelOf(m.uid) >= l
    BY <1>1, <1>2, <2>1, <2>3
  <2>5. LevelOf(a[1].uid) <= j /\ LevelOf(a[1].uid) \in Nat
    BY <1>1, <1>2, <1>3, <2>2
  <2>6. CASE Passes(N, a)
    BY <2>1, <2>2, <2>6 DEF LongArcs
  <2>7. CASE ~Passes(N, a)
    <3>1. ~(LevelOf(a[1].uid) < j)
      <4>1. LevelOf(q.uid) < LevelOf(EndOf(a))
        BY <1>1, <1>4, <2>3, <2>4
      <4> QED BY <1>4, <2>7, <4>1 DEF Passes
    <3>2. a[1] \in OnLevel(N, j)
      BY <1>2, <1>4, <2>2, <2>5, <3>1 DEF OnLevel
    <3>3. a \in SidesIn(OnLevel(N, j))
      BY <2>2, <3>2 DEF SidesIn
    <3> QED BY <2>1, <2>7, <3>3 DEF ShortArcs
  <2> QED BY <2>6, <2>7
<1> HIDE DEF A, H
<1>6. /\ IsFiniteSet(ShortArcs(N, j)) /\ Cardinality(ShortArcs(N, j)) \in Nat
      /\ IsFiniteSet(LongArcs(N)) /\ Cardinality(LongArcs(N)) \in Nat
  BY <1>1, ArcsOfKindAre
<1>7. ShortArcs(N, j) \cap LongArcs(N) = {}
  BY DEF ShortArcs, LongArcs
<1>8. IsFiniteSet(ShortArcs(N, j) \cup LongArcs(N))
      /\ Cardinality(ShortArcs(N, j) \cup LongArcs(N))
            = Cardinality(ShortArcs(N, j)) + Cardinality(LongArcs(N))
  BY <1>6, <1>7, PartsAdd, Zenon
<1>9. /\ Cardinality(NodeArcsOut(A)) \in Nat
      /\ Cardinality(NodeArcsOut(A)) <= Cardinality(ShortArcs(N, j) \cup LongArcs(N))
  <2>1. NodeArcsOut(A) \subseteq ShortArcs(N, j) \cup LongArcs(N)
    BY <1>5
  <2> QED BY <1>8, <2>1, PartsAreFewer, Zenon
<1>10. Cardinality(ShortArcs(N, j)) <= s
  BY <1>4 DEF LevelsIn
<1> QED BY <1>6, <1>8, <1>9, <1>10 DEF A

(* The nodes of the lowest level.                                          *)
Bottom(N) == {n \in N : \A m \in N : LevelOf(m.uid) <= LevelOf(n.uid)}

LEMMA TerminalsAreFewer ==
    ASSUME NEW V, IsFiniteSet(V), NEW U, U \subseteq V, NEW k
    PROVE  ToTerminals(U, k) \in Nat /\ ToTerminals(V, k) \in Nat
           /\ ToTerminals(U, k) <= ToTerminals(V, k)
<1>1. IsFiniteSet(U) /\ IsFiniteSet(V \ U)
  BY PartsAreFewer, V \ U \subseteq V, Zenon
<1>2. U \cap (V \ U) = {} /\ U \cup (V \ U) = V
  OBVIOUS
<1>3. PICK W : W = V \ U
  OBVIOUS
<1>4. /\ ToTerminals(U, k) \in Nat /\ ToTerminals(W, k) \in Nat
      /\ ToTerminals(U \cup W, k) = ToTerminals(U, k) + ToTerminals(W, k)
  BY <1>1, <1>2, <1>3, TerminalsAdd
<1>5. U \cup W = V
  BY <1>2, <1>3
<1>6. ToTerminals(V, k) = ToTerminals(U, k) + ToTerminals(W, k)
  BY <1>4, <1>5, Zenon
<1> QED BY <1>4, <1>6

(* The 1-level cuts: above the bottom level, the arcs between nodes and    *)
(* the terminal arcs of all nodes above the bottom; and all terminal arcs. *)
LEMMA OneLevelCutsAreWithin ==
    ASSUME NEW N, HoldsDiagram(N), NEW k,
           NEW s \in Nat, \A j \in LevelsIn(N) : Cardinality(ShortArcs(N, j)) <= s,
           NEW l \in Nat, Above(N, l) # {},
           NEW x \in Nat, x >= ToTerminals(N, k),
           x >= s + Cardinality(LongArcs(N)) + ToTerminals(N \ Bottom(N), k)
    PROVE  Cardinality(Across(Above(N, l), k)) <= x
<1> DEFINE A == Above(N, l)
<1>1. A \subseteq N /\ IsFiniteSet(N) /\ \A n \in N : LevelOf(n.uid) \in Nat
  BY NodesHaveLevels DEF HoldsDiagram, HoldsNodes, Above
<1>2. /\ Cardinality(NodeArcsOut(A)) \in Nat /\ ToTerminals(A, k) \in Nat
      /\ Cardinality(Across(A, k)) = Cardinality(NodeArcsOut(A)) + ToTerminals(A, k)
  BY <1>1, CrossingSplits, PartOfDiagram
<1>3. CASE \E n \in N : LevelOf(n.uid) >= l
  <2>1. A \subseteq N \ Bottom(N) /\ IsFiniteSet(N \ Bottom(N))
    <3>1. PICK n \in N : LevelOf(n.uid) >= l
      BY <1>3
    <3>2. \A m \in A : LevelOf(m.uid) < l /\ LevelOf(m.uid) \in Nat
      BY <1>1 DEF Above
    <3>3. A \subseteq N \ Bottom(N)
      BY <1>1, <3>1, <3>2 DEF Bottom
    <3> QED BY <1>1, <3>3, PartsAreFewer, N \ Bottom(N) \subseteq N, Zenon
  <2>2. /\ ToTerminals(A, k) <= ToTerminals(N \ Bottom(N), k)
        /\ ToTerminals(N \ Bottom(N), k) \in Nat
    BY <2>1, TerminalsAreFewer, Zenon
  <2>3. Cardinality(NodeArcsOut(A)) <= s + Cardinality(LongArcs(N))
    BY CutBetweenLevels
  <2>4. Cardinality(LongArcs(N)) \in Nat
    BY <1>1, ArcsOfKindAre
  <2> HIDE DEF A
  <2> QED BY <1>2, <2>2, <2>3, <2>4 DEF A
<1>4. CASE ~\E n \in N : LevelOf(n.uid) >= l
  <2>1. A = N
    BY <1>1, <1>4 DEF Above
  <2>2. NodeArcsOut(N) = {}
    <3>1. \A a \in SidesIn(N) : IsNode(EndOf(a)) => \E m \in N : m.uid = EndOf(a)
      BY EndsInDiagram
    <3> QED BY <3>1 DEF NodeArcsOut
  <2>3. Cardinality(NodeArcsOut(A)) = 0
    BY <2>1, <2>2, FS_EmptySet, Zenon
  <2> HIDE DEF A
  <2> QED BY <1>2, <2>1, <2>3 DEF A
<1> QED BY <1>3, <1>4

-----------------------------------------------------------------------------
(* Cuts through the nodes of a level                                       *)

(* Every node but r has an arc from another.                               *)
HasRoot(N, r) == r \in N /\ \A n \in N \ {r} : \E a \in SidesIn(N) : EndOf(a) = n.uid

LEMMA ParentsAreAbove ==
    ASSUME NEW N, HoldsDiagram(N), NEW a \in SidesIn(N), NEW n \in N, EndOf(a) = n.uid
    PROVE  IsNode(EndOf(a)) /\ LevelOf(a[1].uid) < LevelOf(n.uid)
<1>1. IsNode(EndOf(a))
  BY NodesHaveLevels DEF HoldsDiagram
<1>2. PICK m \in N : m.uid = EndOf(a) /\ LevelOf(a[1].uid) < LevelOf(m.uid)
  BY <1>1, EndsInDiagram
<1> QED BY <1>1, <1>2

LEMMA RootIsOnTop ==
    ASSUME NEW N, HoldsDiagram(N), NEW r, HasRoot(N, r), NEW n \in N
    PROVE  LevelOf(r.uid) <= LevelOf(n.uid)
<1> DEFINE H == {LevelOf(m.uid) : m \in N}
<1>1. \A m \in N : LevelOf(m.uid) \in Nat
  BY NodesHaveLevels DEF HoldsDiagram
<1>2. PICK j \in H : \A i \in H : j <= i
  <2>1. H \subseteq Nat /\ H # {}
    BY <1>1
  <2> QED BY <2>1, LeastExists
<1>3. PICK m \in N : LevelOf(m.uid) = j
  OBVIOUS
<1>4. m = r
  <2> SUFFICES ASSUME m # r PROVE FALSE
    OBVIOUS
  <2>1. PICK a \in SidesIn(N) : EndOf(a) = m.uid
    BY DEF HasRoot
  <2>2. LevelOf(a[1].uid) < LevelOf(m.uid) /\ a[1] \in N
    BY <2>1, ParentsAreAbove, EndsInDiagram
  <2>3. j <= LevelOf(a[1].uid)
    BY <1>2, <2>2
  <2>4. j \in Nat /\ LevelOf(a[1].uid) \in Nat
    BY <1>1, <1>3, <2>2
  <2> QED BY <1>3, <2>2, <2>3, <2>4
<1> QED BY <1>1, <1>2, <1>3, <1>4

(* A part with all nodes above it has no more than its nodes and one arc   *)
(* out of it.                                                              *)
LEMMA PartsHaveParents ==
    ASSUME NEW N, HoldsDiagram(N), NEW r, HasRoot(N, r), NEW l, l \in Nat,
           NEW S, S \subseteq OnLevel(N, l), NEW k
    PROVE  LET U == Above(N, l) \cup S
           IN  /\ U \subseteq N /\ Cardinality(N) \in Nat
               /\ Cardinality(Across(U, k)) \in Nat
               /\ Cardinality(Across(U, k)) <= Cardinality(N) + 1
<1> DEFINE U == Above(N, l) \cup S
<1>1. U \subseteq N /\ IsFiniteSet(N)
  BY DEF Above, OnLevel, HoldsDiagram, HoldsNodes
<1>2. \A n \in N : LevelOf(n.uid) \in Nat
  BY NodesHaveLevels DEF HoldsDiagram
<1>3. ASSUME NEW n \in U \ {r}
      PROVE  \E a \in SidesIn(U) : EndOf(a) = n.uid
  <2>1. PICK a \in SidesIn(N) : EndOf(a) = n.uid
    BY <1>1 DEF HasRoot
  <2>2. LevelOf(a[1].uid) < LevelOf(n.uid) /\ a[1] \in N
    BY <1>1, <2>1, ParentsAreAbove, EndsInDiagram
  <2>3. LevelOf(n.uid) <= l
    BY <1>2 DEF Above, OnLevel
  <2>4. a[1] \in U
    BY <1>1, <1>2, <2>2, <2>3 DEF Above
  <2>5. a \in SidesIn(U)
    BY <2>1, <2>4 DEF SidesIn
  <2> QED BY <2>1, <2>5
<1>4. IsFiniteSet(U) /\ Cardinality(U) <= Cardinality(N)
      /\ Cardinality(U) \in Nat /\ Cardinality(N) \in Nat
  BY <1>1, PartsAreFewer, Zenon
<1>5. \A n \in U : IsInner(n)
  BY <1>1, PartOfDiagram
<1>6. \A m, n \in U : m.uid = n.uid => m = n
  BY <1>1, Zenon DEF HoldsDiagram
<1> HIDE DEF U
<1>7. Cardinality(Across(U, k)) <= Cardinality(U) + 1 /\ Cardinality(Across(U, k)) \in Nat
  BY <1>3, <1>4, <1>5, <1>6, CutIsWithinNodes, CrossingIs, Zenon
<1>8. Cardinality(Across(U, k)) <= Cardinality(N) + 1
  BY <1>4, <1>7
<1> QED BY <1>1, <1>4, <1>7, <1>8 DEF U

(* The nodes S of a level have an arc each from above.                     *)
LEMMA LevelBelow ==
    ASSUME NEW N, HoldsDiagram(N), NEW l \in Nat
    PROVE  Above(N, l + 1) = Above(N, l) \cup OnLevel(N, l)
<1>1. \A n \in N : LevelOf(n.uid) \in Nat
  BY NodesHaveLevels DEF HoldsDiagram
<1>2. \A n \in N : LevelOf(n.uid) < l + 1 <=> LevelOf(n.uid) < l \/ LevelOf(n.uid) = l
  BY <1>1
<1> QED BY <1>2 DEF Above, OnLevel

LEMMA CutThroughLevel ==
    ASSUME NEW N, HoldsDiagram(N), NEW r, HasRoot(N, r), NEW l, l \in Nat,
           NEW S, S \subseteq OnLevel(N, l), Above(N, l) # {}
    PROVE  /\ Cardinality(NodeArcsOut(Above(N, l))) \in Nat
           /\ Cardinality(S) \in Nat /\ Cardinality(NodeArcsOut(S)) \in Nat
           /\ Cardinality(NodeArcsOut(Above(N, l) \cup S)) \in Nat
           /\ Cardinality(NodeArcsOut(Above(N, l) \cup S)) + Cardinality(S)
                <= Cardinality(NodeArcsOut(Above(N, l))) + Cardinality(NodeArcsOut(S))
           /\ Cardinality(NodeArcsOut(Above(N, l + 1))) \in Nat
           /\ Cardinality(NodeArcsOut(Above(N, l) \cup S)) + Cardinality(S)
                <= Cardinality(NodeArcsOut(Above(N, l)))
                       + Cardinality(NodeArcsOut(Above(N, l + 1)))
<1> DEFINE A == Above(N, l)
           B == Above(N, l + 1)
           U == A \cup S
           In == ArcsInto(A, S)
           f == [n \in S |-> CHOOSE a \in SidesIn(A) : EndOf(a) = n.uid]
<1>1. /\ IsFiniteSet(N) /\ A \subseteq N /\ S \subseteq N /\ U \subseteq N
      /\ \A n \in N : LevelOf(n.uid) \in Nat /\ IsNode(n.uid)
      /\ \A n \in S : LevelOf(n.uid) = l
      /\ \A n \in N : n \in A <=> LevelOf(n.uid) < l
      /\ U \subseteq B /\ B \subseteq N
      /\ \A n \in N : n \in B <=> LevelOf(n.uid) < l \/ LevelOf(n.uid) = l
  BY NodesHaveLevels, LevelBelow DEF Above, OnLevel, HoldsDiagram, HoldsNodes
<1>2. /\ IsFiniteSet(A) /\ IsFiniteSet(S) /\ IsFiniteSet(U)
      /\ IsFiniteSet(SidesIn(A)) /\ IsFiniteSet(SidesIn(S)) /\ IsFiniteSet(SidesIn(U))
      /\ IsFiniteSet(SidesIn(B))
  BY <1>1, PartsAreFewer, ArcsOfIs, Zenon
<1>3. r \notin S
  <2>1. PICK n \in A : TRUE
    OBVIOUS
  <2>2. LevelOf(r.uid) <= LevelOf(n.uid) /\ r \in N
    BY <1>1, <2>1, RootIsOnTop DEF HasRoot
  <2> QED BY <1>1, <2>1, <2>2
<1>4. ASSUME NEW n \in S
      PROVE  \E a \in SidesIn(A) : EndOf(a) = n.uid
  <2>1. PICK a \in SidesIn(N) : EndOf(a) = n.uid
    BY <1>1, <1>3 DEF HasRoot
  <2>2. LevelOf(a[1].uid) < LevelOf(n.uid) /\ a[1] \in N
    BY <1>1, <2>1, ParentsAreAbove, EndsInDiagram
  <2>3. a[1] \in A
    BY <1>1, <2>2
  <2>4. a \in SidesIn(A)
    BY <2>1, <2>3 DEF SidesIn
  <2> QED BY <2>1, <2>4
<1> HIDE DEF A, B, U
<1>5. \A n \in S : f[n] \in In /\ EndOf(f[n]) = n.uid
  <2> SUFFICES ASSUME NEW n \in S
               PROVE  f[n] \in In /\ EndOf(f[n]) = n.uid
    OBVIOUS
  <2>1. f[n] \in SidesIn(A) /\ EndOf(f[n]) = n.uid
    BY <1>4, Zenon
  <2>2. IsNode(n.uid)
    BY <1>1
  <2> HIDE DEF f
  <2> QED BY <2>1, <2>2, Zenon DEF ArcsInto
<1>6. f \in Injection(S, In)
  <2>1. f \in [S -> In]
    BY <1>5
  <2>2. ASSUME NEW m \in S, NEW n \in S, f[m] = f[n]
        PROVE  m = n
    <3> HIDE DEF f
    <3>1. m.uid = n.uid /\ m \in N /\ n \in N
      BY <1>1, <1>5, <2>2
    <3> QED BY <3>1, Zenon DEF HoldsDiagram
  <2> HIDE DEF f
  <2> QED BY <2>1, <2>2, Zenon DEF Injection, IsInjective
<1> HIDE DEF f
<1>7. In \subseteq NodeArcsOut(A)
  <2> SUFFICES ASSUME NEW a \in In PROVE a \in NodeArcsOut(A)
    OBVIOUS
  <2>1. a \in SidesIn(A) /\ IsNode(EndOf(a)) /\ \E n \in S : n.uid = EndOf(a)
    BY DEF ArcsInto
  <2>2. PICK n \in S : n.uid = EndOf(a)
    BY <2>1
  <2>3. \A m \in A : m.uid # EndOf(a)
    <3> SUFFICES ASSUME NEW m \in A, m.uid = EndOf(a) PROVE FALSE
      OBVIOUS
    <3>1. m.uid = n.uid /\ m \in N /\ n \in N
      BY <1>1, <2>2
    <3>2. LevelOf(m.uid) < l /\ LevelOf(n.uid) = l /\ LevelOf(n.uid) \in Nat
      BY <1>1, <3>1
    <3> QED BY <3>1, <3>2
  <2> QED BY <2>1, <2>3 DEF NodeArcsOut
<1>8. NodeArcsOut(U) \subseteq (NodeArcsOut(A) \ In) \cup NodeArcsOut(S)
  <2> SUFFICES ASSUME NEW a \in NodeArcsOut(U)
               PROVE  a \in (NodeArcsOut(A) \ In) \cup NodeArcsOut(S)
    OBVIOUS
  <2>1. a \in SidesIn(U) /\ IsNode(EndOf(a)) /\ \A n \in U : n.uid # EndOf(a)
    BY DEF NodeArcsOut
  <2>2. A \subseteq U /\ S \subseteq U /\ (a \in SidesIn(A) \/ a \in SidesIn(S))
    BY <2>1 DEF U, SidesIn
  <2>3. a \notin In
    BY <2>1, <2>2 DEF ArcsInto
  <2> QED BY <2>1, <2>2, <2>3 DEF NodeArcsOut
<1>9. NodeArcsOut(U) \subseteq (NodeArcsOut(A) \ In) \cup NodeArcsOut(B)
  <2> SUFFICES ASSUME NEW a \in NodeArcsOut(U), a \notin NodeArcsOut(B)
               PROVE  a \in NodeArcsOut(A) \ In
    OBVIOUS
  <2>1. /\ a \in SidesIn(U) /\ IsNode(EndOf(a)) /\ \A n \in U : n.uid # EndOf(a)
        /\ a \in SidesIn(N) /\ a \in SidesIn(B) /\ a[1] \in U /\ a[2] \in Sides
    BY <1>1 DEF NodeArcsOut, SidesIn
  <2>2. PICK n \in B : n.uid = EndOf(a)
    BY <2>1 DEF NodeArcsOut
  <2>3. n \notin A /\ n \in N /\ LevelOf(n.uid) = l
    <3>1. n \notin U /\ n \in N /\ (LevelOf(n.uid) < l \/ LevelOf(n.uid) = l)
      BY <1>1, <2>1, <2>2
    <3> QED BY <1>1, <3>1 DEF U
  <2>4. LevelOf(a[1].uid) < LevelOf(n.uid)
    BY <2>1, <2>2, <2>3, ParentsAreAbove
  <2>5. a[1] \in A
    BY <1>1, <2>1, <2>3, <2>4
  <2>6. A \subseteq U /\ S \subseteq U
    BY DEF U
  <2>7. a \in SidesIn(A)
    BY <2>1, <2>5 DEF SidesIn
  <2> QED BY <2>1, <2>6, <2>7 DEF NodeArcsOut, ArcsInto
<1>10. /\ IsFiniteSet(NodeArcsOut(A)) /\ Cardinality(NodeArcsOut(A)) \in Nat
       /\ IsFiniteSet(NodeArcsOut(S)) /\ Cardinality(NodeArcsOut(S)) \in Nat
       /\ IsFiniteSet(NodeArcsOut(B)) /\ Cardinality(NodeArcsOut(B)) \in Nat
       /\ IsFiniteSet(NodeArcsOut(U)) /\ Cardinality(NodeArcsOut(U)) \in Nat
       /\ IsFiniteSet(In) /\ Cardinality(In) \in Nat
  <2>1. \A W : NodeArcsOut(W) \subseteq SidesIn(W)
    BY DEF NodeArcsOut
  <2>2. In \subseteq SidesIn(A)
    BY DEF ArcsInto
  <2> QED BY <1>2, <2>1, <2>2, PartsAreFewer, Zenon
<1>11. Cardinality(S) <= Cardinality(In) /\ Cardinality(S) \in Nat
  BY <1>2, <1>6, <1>10, FS_Injection, FS_CardinalityType, Zenon
<1> HIDE DEF In
<1>12. /\ IsFiniteSet(NodeArcsOut(A) \ In) /\ Cardinality(NodeArcsOut(A) \ In) \in Nat
       /\ Cardinality(NodeArcsOut(A) \ In) + Cardinality(In) <= Cardinality(NodeArcsOut(A))
  <2>1. NodeArcsOut(A) \ In \subseteq NodeArcsOut(A) /\ (NodeArcsOut(A) \ In) \cap In = {}
    OBVIOUS
  <2> QED BY <1>7, <1>10, <2>1, PartsFit, PartsAreFewer, Zenon
<1>13. ASSUME NEW Y, IsFiniteSet(Y), NodeArcsOut(U) \subseteq (NodeArcsOut(A) \ In) \cup Y
       PROVE  Cardinality(NodeArcsOut(U)) + Cardinality(S)
                <= Cardinality(NodeArcsOut(A)) + Cardinality(Y)
  <2>1. PICK X : X = NodeArcsOut(A) \ In
    OBVIOUS
  <2>2. IsFiniteSet(X \cup Y)
        /\ Cardinality(X \cup Y) = Cardinality(X) + Cardinality(Y) - Cardinality(X \cap Y)
    BY <1>12, <1>13, <2>1, FS_Union
  <2>3. X \cap Y \subseteq X
    OBVIOUS
  <2>4. Cardinality(X \cap Y) \in Nat /\ Cardinality(X) \in Nat /\ Cardinality(Y) \in Nat
    BY <1>12, <1>13, <2>1, <2>3, PartsAreFewer, FS_CardinalityType, Zenon
  <2>5. Cardinality(NodeArcsOut(U)) <= Cardinality(X \cup Y) /\ Cardinality(X \cup Y) \in Nat
    BY <1>13, <2>1, <2>2, PartsAreFewer, Zenon
  <2> QED BY <1>10, <1>11, <1>12, <2>1, <2>2, <2>4, <2>5
<1>14. /\ Cardinality(NodeArcsOut(U)) + Cardinality(S)
            <= Cardinality(NodeArcsOut(A)) + Cardinality(NodeArcsOut(S))
       /\ Cardinality(NodeArcsOut(U)) + Cardinality(S)
            <= Cardinality(NodeArcsOut(A)) + Cardinality(NodeArcsOut(B))
  BY <1>8, <1>9, <1>10, <1>13, Zenon
<1> QED BY <1>10, <1>11, <1>14 DEF A, B, U

LEMMA NoTerminalsInside ==
    ASSUME NEW U
    PROVE  ToTerminals(U, "Internal") = 0
BY DEF ToTerminals, OfKind, Includes

(* No 2-level cut is more than half the 1-level cut of arcs to nodes above *)
(* the 1-level cut.  Of the nodes S moved to the upper side, each replaces *)
(* one arc, at least, by two at the most: |S| arcs more than above them.   *)
(* The arcs that end on the level, other than in S, are those the cut has  *)
(* more than the one below the level: i - |S| at the most.                 *)
LEMMA TwoLevelCutIsWithin ==
    ASSUME NEW N, HoldsDiagram(N), NEW r, HasRoot(N, r), NEW l \in Nat,
           NEW S, S \subseteq OnLevel(N, l), Above(N, l) # {}, NEW k,
           NEW c \in Nat, NEW i \in Nat,
           Cardinality(Across(Above(N, l), k)) <= c,
           Cardinality(Across(Above(N, l + 1), k)) <= c,
           Cardinality(Across(Above(N, l), "Internal")) <= i
    PROVE  2 * Cardinality(Across(Above(N, l) \cup S, k)) <= 2 * c + i
<1> DEFINE A == Above(N, l)
           B == Above(N, l + 1)
           U == A \cup S
<1>1. /\ IsFiniteSet(N) /\ A \subseteq N /\ S \subseteq N /\ B \subseteq N /\ U \subseteq N
      /\ A \cap S = {} /\ U \subseteq B
  <2>1. \A n \in N : LevelOf(n.uid) \in Nat
    BY NodesHaveLevels DEF HoldsDiagram
  <2> QED BY <2>1, LevelBelow DEF Above, OnLevel, HoldsDiagram, HoldsNodes
<1>2. IsFiniteSet(A) /\ IsFiniteSet(S) /\ IsFiniteSet(B) /\ IsFiniteSet(U)
  BY <1>1, PartsAreFewer, Zenon
<1>3. PICK o \in Nat, s \in Nat, g \in Nat, u \in Nat, b \in Nat :
        /\ o = Cardinality(NodeArcsOut(A)) /\ s = Cardinality(S)
        /\ g = Cardinality(NodeArcsOut(S)) /\ u = Cardinality(NodeArcsOut(U))
        /\ b = Cardinality(NodeArcsOut(B))
        /\ u + s <= o + g /\ u + s <= o + b
  <2>1. /\ Cardinality(NodeArcsOut(A)) \in Nat
        /\ Cardinality(S) \in Nat /\ Cardinality(NodeArcsOut(S)) \in Nat
        /\ Cardinality(NodeArcsOut(U)) \in Nat /\ Cardinality(NodeArcsOut(B)) \in Nat
        /\ Cardinality(NodeArcsOut(U)) + Cardinality(S)
             <= Cardinality(NodeArcsOut(A)) + Cardinality(NodeArcsOut(S))
        /\ Cardinality(NodeArcsOut(U)) + Cardinality(S)
             <= Cardinality(NodeArcsOut(A)) + Cardinality(NodeArcsOut(B))
    BY CutThroughLevel
  <2> QED BY <2>1
<1>4. \A W \in SUBSET N : \A kind :
        /\ Cardinality(NodeArcsOut(W)) \in Nat /\ ToTerminals(W, kind) \in Nat
        /\ Cardinality(Across(W, kind)) = Cardinality(NodeArcsOut(W)) + ToTerminals(W, kind)
  BY CrossingSplits, PartOfDiagram
<1> HIDE DEF A, B, U
<1>5. PICK a \in Nat, t \in Nat :
        a = ToTerminals(A, k) /\ t = ToTerminals(S, k) /\ ToTerminals(U, k) = a + t
  <2>1. U = A \cup S
    BY DEF U
  <2>2. /\ ToTerminals(A, k) \in Nat /\ ToTerminals(S, k) \in Nat
        /\ ToTerminals(A \cup S, k) = ToTerminals(A, k) + ToTerminals(S, k)
    BY <1>1, <1>2, TerminalsAdd
  <2> QED BY <2>1, <2>2
<1>6. /\ Cardinality(Across(U, k)) = u + (a + t)
      /\ o + a <= c
  <2>1. /\ Cardinality(Across(U, k)) = Cardinality(NodeArcsOut(U)) + ToTerminals(U, k)
        /\ Cardinality(Across(A, k)) = Cardinality(NodeArcsOut(A)) + ToTerminals(A, k)
    BY <1>1, <1>4
  <2>2. Cardinality(Across(A, k)) <= c
    BY DEF A
  <2> QED BY <1>3, <1>5, <2>1, <2>2
<1>7. g + t <= 2 * s
  <2>1. Cardinality(NodeArcsOut(S)) + ToTerminals(S, k) <= 2 * Cardinality(S)
    BY <1>1, <1>2, TerminalsOfNodes, PartOfDiagram
  <2> QED BY <1>3, <1>5, <2>1
<1>8. o <= i
  <2>1. Cardinality(Across(A, "Internal")) = Cardinality(NodeArcsOut(A)) + 0
    BY <1>1, <1>4, NoTerminalsInside
  <2>2. Cardinality(Across(A, "Internal")) <= i
    BY DEF A
  <2> QED BY <1>3, <2>1, <2>2
<1>9. b + (a + t) <= c
  <2>1. Cardinality(Across(B, k)) = Cardinality(NodeArcsOut(B)) + ToTerminals(B, k)
        /\ ToTerminals(B, k) \in Nat
    BY <1>1, <1>4
  <2>2. Cardinality(Across(B, k)) <= c
    BY DEF B
  <2>3. ToTerminals(U, k) <= ToTerminals(B, k)
    BY <1>1, <1>2, TerminalsAreFewer, Zenon
  <2> QED BY <1>3, <1>5, <2>1, <2>2, <2>3
<1>10. u + (a + t) <= c + s
  BY <1>3, <1>6, <1>7
<1>11. u + (a + t) + s <= c + i
  BY <1>3, <1>8, <1>9
<1> QED BY <1>3, <1>5, <1>6, <1>10, <1>11 DEF A, U

-----------------------------------------------------------------------------
(* The cuts of a closed file                                               *)

LEMMA MaxOfIsWithin ==
    ASSUME NEW S, S \subseteq Nat, S # {}, NEW b \in Nat, \A x \in S : x <= b
    PROVE  MaxOf(S) <= b
<1>1. \E x \in S : \A y \in S : y <= x
  BY GreatestExists
<1>2. MaxOf(S) \in S
  BY <1>1 DEF MaxOf
<1> QED BY <1>2

(* The number of nodes and one, which is no larger than cut::max.          *)
LEMMA NodeBoundIs ==
    ASSUME NEW f, Count(f) \in Nat, Count(f) < CutMax
    PROVE  NodeBound(f) = Count(f) + 1
BY CutAssumption DEF NodeBound

LEMMA AllArcsIs ==
    ASSUME NEW f, Count(f) \in Nat, Count(f) < CutMax, f.terminals \in [BOOLEAN -> Nat], NEW k
    PROVE  /\ AllArcs(f, k) \in Int
           /\ \A y \in Nat :
                /\ y <= Count(f) + 1
                /\ y <= 2 * Count(f) - (IF Includes(k, FALSE) THEN 0 ELSE f.terminals[FALSE])
                                     - (IF Includes(k, TRUE) THEN 0 ELSE f.terminals[TRUE])
                => y <= AllArcs(f, k)
<1>1. PICK c \in Nat, m \in Nat : c = Count(f) /\ m = CutMax /\ c < m
  BY CutAssumption
<1>2. PICK g \in BOOLEAN, h \in BOOLEAN : g = Includes(k, FALSE) /\ h = Includes(k, TRUE)
  BY Zenon DEF Includes
<1>3. PICK x \in Nat, y \in Nat : x = f.terminals[FALSE] /\ y = f.terminals[TRUE]
  OBVIOUS
<1>4. AllArcs(f, k) \in {m, 2 * c - (IF g THEN 0 ELSE x) - (IF h THEN 0 ELSE y)}
  BY <1>1, <1>2, <1>3, Zenon DEF AllArcs
<1>5. 2 * Count(f) - (IF Includes(k, FALSE) THEN 0 ELSE f.terminals[FALSE])
                   - (IF Includes(k, TRUE) THEN 0 ELSE f.terminals[TRUE])
        = 2 * c - (IF g THEN 0 ELSE x) - (IF h THEN 0 ELSE y)
  BY <1>1, <1>2, <1>3, Zenon
<1>6. PICK e \in Int : e = 2 * c - (IF g THEN 0 ELSE x) - (IF h THEN 0 ELSE y)
  <2>1. PICK p \in Nat, q \in Nat : p = (IF g THEN 0 ELSE x) /\ q = (IF h THEN 0 ELSE y)
    OBVIOUS
  <2>2. 2 * c - p - q \in Int
    OBVIOUS
  <2> QED BY <2>1, <2>2, Zenon
<1>7. AllArcs(f, k) \in Int /\ (AllArcs(f, k) = m \/ AllArcs(f, k) = e)
  BY <1>4, <1>6
<1>8. \A z \in Nat : z <= c + 1 /\ z <= e => z <= AllArcs(f, k)
  BY <1>1, <1>7
<1>9. e = 2 * Count(f) - (IF Includes(k, FALSE) THEN 0 ELSE f.terminals[FALSE])
                       - (IF Includes(k, TRUE) THEN 0 ELSE f.terminals[TRUE])
  BY <1>5, <1>6
<1> QED BY <1>1, <1>7, <1>8, <1>9, Zenon

(* The 1-level cut of a kind is one of its three bounds, but at least one. *)
LEMMA FixedCut1Is ==
    ASSUME NEW f, ~IsTerminalFile(f), Count(f) \in Nat, Count(f) < CutMax,
           f.terminals \in [BOOLEAN -> Nat], NEW k \in CutKinds, f.cut1[k] \in Nat
    PROVE  /\ FixedCut1(f)[k] \in Nat /\ FixedCut1(f)[k] >= 1
           /\ FixedCut1(f)[k] = 1 \/ FixedCut1(f)[k] <= f.cut1[k]
           /\ \/ FixedCut1(f)[k] >= f.cut1[k]
              \/ FixedCut1(f)[k] >= Count(f) + 1
              \/ FixedCut1(f)[k] >= AllArcs(f, k)
<1>1. PICK x \in Nat, c \in Nat, a \in Int :
        x = f.cut1[k] /\ c = Count(f) /\ a = AllArcs(f, k) /\ NodeBound(f) = c + 1
  BY AllArcsIs, NodeBoundIs
<1>2. FixedCut1(f)[k] = Bigger(1, Smaller(x, Smaller(c + 1, a)))
  BY <1>1, Zenon DEF FixedCut1
<1>3. PICK y \in Int : y = Smaller(c + 1, a) /\ y \in {c + 1, a} /\ y <= c + 1 /\ y <= a
  BY DEF Smaller
<1>4. PICK z \in Int : z = Smaller(x, y) /\ z \in {x, y} /\ z <= x /\ z <= y
  BY DEF Smaller
<1>5. FixedCut1(f)[k] = IF 1 > z THEN 1 ELSE z
  BY <1>2, <1>3, <1>4 DEF Bigger
<1> QED BY <1>1, <1>3, <1>4, <1>5

LEMMA HalfMore ==
    ASSUME NEW i \in Nat
    PROVE  \E d \in Int : d = (i * 3) \div 2 /\ 2 * d <= 3 * i /\ 3 * i <= 2 * d + 1
OBVIOUS

LEMMA FixedCut2Is ==
    ASSUME NEW f, ~IsTerminalFile(f), Count(f) \in Nat, Count(f) < CutMax,
           f.terminals \in [BOOLEAN -> Nat], NEW k \in CutKinds,
           Count(f) = Len(f.levels) \/ f.cut2[k] = CutMax,
           NEW c, c["Internal"] \in Nat, c[k] \in Nat
    PROVE  /\ Count(f) = Len(f.levels) => FixedCut2(f, c)[k] = c[k]
           /\ FixedCut2(f, c)[k] \in Int
           /\ Count(f) # Len(f.levels) =>
                \A y \in Nat : y <= Count(f) + 1 /\ y <= AllArcs(f, k)
                              /\ 2 * y <= 2 * c[k] + c["Internal"] => y <= FixedCut2(f, c)[k]
<1>1. PICK b \in BOOLEAN : b = IsTerminalFile(f)
  BY Zenon DEF IsTerminalFile
<1>2. FixedCut2(f, c)[k] =
        IF b \/ Count(f) = Len(f.levels) THEN c[k]
        ELSE Smaller(Smaller(f.cut2[k], FromCut1(c, k)), Smaller(NodeBound(f), AllArcs(f, k)))
  BY <1>1, Zenon DEF FixedCut2
<1>3. ASSUME Count(f) = Len(f.levels)
      PROVE  FixedCut2(f, c)[k] = c[k]
  BY <1>2, <1>3, Zenon
<1>4. ASSUME Count(f) # Len(f.levels), NEW y \in Nat, y <= Count(f) + 1,
             y <= AllArcs(f, k), 2 * y <= 2 * c[k] + c["Internal"]
      PROVE  y <= FixedCut2(f, c)[k]
  <2>1. PICK n \in Nat, a \in Int, m \in Nat, i \in Nat, o \in Nat :
          /\ n = Count(f) /\ a = AllArcs(f, k) /\ NodeBound(f) = n + 1
          /\ m = CutMax /\ i = c["Internal"] /\ o = c[k]
    BY AllArcsIs, NodeBoundIs, CutAssumption
  <2>2. PICK p \in Int : p = FromCut1(c, k) /\ y <= p
    <3>2. FromCut1(c, k) \in {(i * 3) \div 2 + (o - i), m}
      BY <2>1, Zenon DEF FromCut1
    <3>3. PICK d \in Int : d = (i * 3) \div 2 /\ 2 * d <= 3 * i /\ 3 * i <= 2 * d + 1
      BY HalfMore
    <3>4. 2 * y <= 2 * o + i /\ y <= n + 1 /\ n < m
      BY <1>4, <2>1
    <3>5. y <= d + (o - i) /\ y <= m
      BY <3>3, <3>4
    <3>6. PICK p : p = FromCut1(c, k)
      OBVIOUS
    <3>7. p \in {d + (o - i), m}
      BY <3>2, <3>3, <3>6
    <3>8. p \in Int /\ y <= p
      BY <2>1, <3>3, <3>5, <3>7
    <3> QED BY <3>6, <3>8
  <2>3. FixedCut2(f, c)[k] = Smaller(Smaller(m, p), Smaller(n + 1, a))
    <3>1. ~b /\ f.cut2[k] = CutMax
      BY <1>1, <1>4
    <3> QED BY <1>2, <1>4, <2>1, <2>2, <3>1, Zenon
  <2>4. y <= m
    BY <1>4, <2>1
  <2>5. PICK u \in Int : u = Smaller(m, p) /\ y <= u
    BY <2>1, <2>2, <2>4 DEF Smaller
  <2>6. PICK v \in Int : v = Smaller(n + 1, a) /\ y <= v
    BY <1>4, <2>1 DEF Smaller
  <2> QED BY <2>3, <2>5, <2>6 DEF Smaller
<1>5. ASSUME Count(f) # Len(f.levels)
      PROVE  FixedCut2(f, c)[k] \in Int
  <2>1. /\ AllArcs(f, k) \in Int /\ NodeBound(f) \in Int /\ CutMax \in Int
        /\ c["Internal"] \in Int /\ c[k] \in Int
    <3>1. AllArcs(f, k) \in Int
      BY AllArcsIs
    <3>2. NodeBound(f) \in Int
      BY NodeBoundIs
    <3> QED BY <3>1, <3>2, CutAssumption
  <2>2. FromCut1(c, k) \in Int
    <3>1. PICK i \in Int, o \in Int : i = c["Internal"] /\ o = c[k]
      BY <2>1
    <3>2. FromCut1(c, k) \in {(i * 3) \div 2 + (o - i), CutMax}
      BY <3>1, Zenon DEF FromCut1
    <3> QED BY <2>1, <3>2
  <2>3. \A x, y \in Int : Smaller(x, y) \in Int
    BY DEF Smaller
  <2>4. Smaller(Smaller(f.cut2[k], FromCut1(c, k)), Smaller(NodeBound(f), AllArcs(f, k))) \in Int
    <3>1. f.cut2[k] = CutMax
      BY <1>5
    <3> QED BY <2>1, <2>2, <2>3, <3>1, Zenon
  <2> QED BY <1>2, <1>5, <2>1, <2>4, Zenon
<1> QED BY <1>3, <1>4, <1>5

LEMMA ArcsEnterLevels ==
    ASSUME NEW N, HoldsDiagram(N), NEW r, HasRoot(N, r), NEW n \in N, n # r, NEW k
    PROVE  LET l == LevelOf(n.uid)
           IN  /\ l \in Nat /\ Above(N, l) # {}
               /\ Cardinality(Across(Above(N, l), k)) >= 1
<1> DEFINE l == LevelOf(n.uid)
           A == Above(N, l)
<1>1. PICK a \in SidesIn(N) : EndOf(a) = n.uid
  BY DEF HasRoot
<1>2. IsNode(EndOf(a)) /\ LevelOf(a[1].uid) < l /\ a[1] \in N
  BY <1>1, ParentsAreAbove, EndsInDiagram
<1>3. a[1] \in A /\ a \in SidesIn(A)
  BY <1>1, <1>2 DEF Above, SidesIn
<1>4. l \in Nat
  BY NodesHaveLevels DEF HoldsDiagram
<1>5. ASSUME NEW m \in A
      PROVE  m.uid # n.uid
  <2>1. LevelOf(m.uid) < l
    BY DEF Above
  <2> QED BY <1>4, <2>1
<1> HIDE DEF A, l
<1>6. a \in Across(A, k)
  BY <1>1, <1>2, <1>3, <1>5 DEF Across, Counted
<1>7. IsFiniteSet(A)
  <2>1. A \subseteq N
    BY DEF A, Above
  <2> QED BY <2>1, PartOfDiagram
<1>8. IsFiniteSet(Across(A, k)) /\ Cardinality(Across(A, k)) \in Nat
  BY <1>7, CrossingIs, Zenon
<1>9. Cardinality(Across(A, k)) # 0
  BY <1>6, <1>8, FS_EmptySet, Zenon
<1>10. Cardinality(Across(A, k)) >= 1
  BY <1>8, <1>9
<1> QED BY <1>3, <1>4, <1>10 DEF A, l

LEMMA ManyAreNotOne == \A z \in Nat : z >= 2 => z # 1
OBVIOUS

LEMMA ThereIsABottom ==
    ASSUME NEW N, HoldsDiagram(N), N # {}
    PROVE  \E n \in N : \A m \in N : ~(LevelOf(n.uid) < LevelOf(m.uid))
<1> DEFINE H == {LevelOf(n.uid) : n \in N}
<1>1. IsFiniteSet(N) /\ \A n \in N : LevelOf(n.uid) \in Nat /\ LevelOf(n.uid) < Levels
  BY NodesHaveLevels DEF HoldsDiagram, HoldsNodes
<1>2. PICK j \in H : \A i \in H : i <= j
  <2>1. H \subseteq Nat /\ H # {} /\ Levels \in Nat /\ \A i \in H : i <= Levels
    BY <1>1, DiagramAssumption
  <2> QED BY <2>1, GreatestExists
<1>3. PICK n \in N : LevelOf(n.uid) = j
  OBVIOUS
<1> WITNESS n \in N
<1> SUFFICES ASSUME NEW m \in N PROVE ~(LevelOf(n.uid) < LevelOf(m.uid))
  OBVIOUS
<1>4. LevelOf(m.uid) <= j
  BY <1>2
<1> QED BY <1>1, <1>3, <1>4

(* A node on the lowest level has two arcs to terminals.                   *)
LEMMA TwoArcsToTerminals ==
    ASSUME NEW N, HoldsDiagram(N), N # {}
    PROVE  ArcsTo(N, FALSE) \in Nat /\ ArcsTo(N, TRUE) \in Nat
           /\ ArcsTo(N, FALSE) + ArcsTo(N, TRUE) # 1
<1>1. IsFiniteSet(N)
  BY DEF HoldsDiagram, HoldsNodes
<1>4. PICK n \in N : \A m \in N : ~(LevelOf(n.uid) < LevelOf(m.uid))
  BY ThereIsABottom
<1>5. \A a \in SidesIn({n}) : ~IsNode(EndOf(a)) /\ IsTerminal(EndOf(a))
  <2> SUFFICES ASSUME NEW a \in SidesIn({n})
               PROVE  ~IsNode(EndOf(a)) /\ IsTerminal(EndOf(a))
    OBVIOUS
  <2>1. a \in SidesIn(N) /\ a[1] = n
    BY DEF SidesIn
  <2> QED BY <1>4, <2>1, EndsInDiagram
<1>6. IsFiniteSet({n}) /\ Cardinality({n}) = 1 /\ n \in NodeRecord
  BY FS_Singleton, NodesHaveLevels DEF HoldsDiagram
<1>7. Across({n}, "All") = SidesIn({n})
  BY <1>5 DEF Across, Counted, Includes
<1>8. NodeArcsOut({n}) = {}
  BY <1>5 DEF NodeArcsOut
<1>9. Cardinality(Across({n}, "All")) = 0 + ToTerminals({n}, "All")
      /\ ToTerminals({n}, "All") \in Nat
  <2>1. Cardinality(NodeArcsOut({n})) = 0
    BY <1>8, FS_EmptySet, Zenon
  <2>2. \A m \in {n} : m \in NodeRecord
    BY <1>6
  <2> QED BY <1>5, <1>6, <2>1, <2>2, CrossingSplits, Zenon
<1>10. Cardinality(SidesIn({n})) = 2
  BY <1>6, ArcsOfIs
<1>11. ToTerminals({n}, "All") <= ToTerminals(N, "All")
  BY <1>1, TerminalsAreFewer
<1>12. ArcsTo(N, FALSE) \in Nat /\ ArcsTo(N, TRUE) \in Nat
  BY <1>1, ArcsAreFinite
<1>13. ToTerminals(N, "All") = ArcsTo(N, FALSE) + ArcsTo(N, TRUE)
  BY DEF ToTerminals, OfKind, Includes
<1>14. Cardinality(Across({n}, "All")) = 2
  BY <1>7, <1>10, Zenon
<1>15. ToTerminals({n}, "All") = 2
  BY <1>9, <1>14
<1>16. ToTerminals(N, "All") \in Nat /\ ToTerminals(N, "All") >= 2
  <2>1. ToTerminals(N, "All") \in Nat
    <3>1. \A x, y \in Nat : x + y \in Nat
      OBVIOUS
    <3> QED BY <1>12, <1>13, <3>1, Zenon
  <2>2. 2 <= ToTerminals(N, "All")
    BY <1>11, <1>15, Zenon
  <2> QED BY <2>1, <2>2
<1>17. ToTerminals(N, "All") # 1
  BY <1>16, ManyAreNotOne, Zenon
<1> QED BY <1>12, <1>13, <1>17, Zenon

(* One node on each level.                                                 *)
LEMMA LevelsOfOne ==
    ASSUME NEW N, IsFiniteSet(N), Cardinality(N) = Cardinality(LevelsIn(N)), NEW l,
           NEW S, S \subseteq OnLevel(N, l), S # {}
    PROVE  S = OnLevel(N, l)
<1> DEFINE f == [n \in N |-> LevelOf(n.uid)]
<1>1. f \in [N -> LevelsIn(N)] /\ \A j \in LevelsIn(N) : \E n \in N : f[n] = j
  BY DEF LevelsIn
<1>2. f \in Surjection(N, LevelsIn(N))
  <2> HIDE DEF f
  <2> QED BY <1>1, Zenon DEF Surjection
<1>3. f \in Injection(N, LevelsIn(N))
  <2> HIDE DEF f
  <2> QED BY <1>2, FS_Surjection
<1>4. \A m, n \in N : f[m] = f[n] => m = n
  <2> HIDE DEF f
  <2> QED BY <1>3, Zenon DEF Injection, IsInjective
<1>5. \A m, n \in OnLevel(N, l) : m = n
  BY <1>4 DEF OnLevel
<1> QED BY <1>5

(* What the cuts of a file have to be before they are fixed: those between *)
(* two levels are bounded, and of those through a level nothing is claimed *)
(* yet, unless they are the same for want of levels with two nodes.        *)
BoundsCuts(f) ==
    \A k \in CutKinds :
        /\ \A l \in Nat : Above(NodesOf(f), l) # {} =>
               Cardinality(Across(Above(NodesOf(f), l), k)) <= f.cut1[k]
        /\ Count(f) = Len(f.levels) \/ f.cut2[k] = CutMax

LEMMA FixupIsSound ==
    ASSUME NEW f \in FileType, HoldsDiagram(NodesOf(f)), NEW r, HasRoot(NodesOf(f), r),
           Count(f) = Cardinality(NodesOf(f)), Count(f) < CutMax,
           Len(f.levels) = Cardinality(LevelsIn(NodesOf(f))),
           \A v \in BOOLEAN : f.terminals[v] = ArcsTo(NodesOf(f), v),
           BoundsCuts(f)
    PROVE  CutsAreBounds(Fixup(f))
<1> DEFINE N == NodesOf(f)
           c == FixedCut1(f)
           d == FixedCut2(f, c)
           C(l, S, k) == Cardinality(Across(Above(N, l) \cup S, k))
<1>1. /\ IsFiniteSet(N) /\ r \in N
      /\ \A n \in N : LevelOf(n.uid) \in Nat
      /\ \A n \in N : n \in NodeRecord
  BY NodesHaveLevels DEF HoldsDiagram, HoldsNodes, HasRoot
<1>2. /\ Count(f) \in Nat /\ f.terminals \in [BOOLEAN -> Nat]
      /\ \A k \in CutKinds : f.cut1[k] \in Nat
  <2>1. Cardinality(N) \in Nat
    BY <1>1, FS_CardinalityType
  <2> QED BY <2>1 DEF FileType
<1>3. ~IsTerminalFile(f)
  <2>1. /\ ArcsTo(N, FALSE) \in Nat /\ ArcsTo(N, TRUE) \in Nat
        /\ ArcsTo(N, FALSE) + ArcsTo(N, TRUE) # 1
    BY <1>1, TwoArcsToTerminals
  <2>2. f.terminals[FALSE] = ArcsTo(N, FALSE) /\ f.terminals[TRUE] = ArcsTo(N, TRUE)
    OBVIOUS
  <2> QED BY <2>1, <2>2, Zenon DEF IsTerminalFile
<1>4. "Internal" \in CutKinds
  BY DEF CutKinds
<1>5. \A k \in CutKinds :
        /\ c[k] \in Nat /\ c[k] >= 1
        /\ c[k] = 1 \/ c[k] <= f.cut1[k]
        /\ c[k] >= f.cut1[k] \/ c[k] >= Count(f) + 1 \/ c[k] >= AllArcs(f, k)
        /\ AllArcs(f, k) \in Int
  BY <1>2, <1>3, FixedCut1Is, AllArcsIs
<1>6. ASSUME NEW l \in Nat, NEW S, S \subseteq OnLevel(N, l), NEW k
      PROVE  C(l, S, k) \in Nat /\ C(l, S, k) <= Count(f) + 1 /\ C(l, S, k) <= AllArcs(f, k)
  <2>1. PICK U : U = Above(N, l) \cup S
    OBVIOUS
  <2>2. /\ U \subseteq N /\ Cardinality(Across(U, k)) \in Nat
        /\ Cardinality(Across(U, k)) <= Cardinality(N) + 1
    BY <1>6, <2>1, PartsHaveParents
  <2>3. Cardinality(Across(U, k))
          <= 2 * Cardinality(N) - (IF Includes(k, FALSE) THEN 0 ELSE ArcsTo(N, FALSE))
                                - (IF Includes(k, TRUE) THEN 0 ELSE ArcsTo(N, TRUE))
    BY <1>1, <2>2, CutIsWithinArcs, Zenon
  <2>4. Cardinality(Across(U, k))
          <= 2 * Count(f) - (IF Includes(k, FALSE) THEN 0 ELSE f.terminals[FALSE])
                          - (IF Includes(k, TRUE) THEN 0 ELSE f.terminals[TRUE])
    BY <2>3, Zenon
  <2>5. Cardinality(Across(U, k)) <= Count(f) + 1
    BY <2>2
  <2>6. Cardinality(Across(U, k)) <= AllArcs(f, k)
    BY <1>2, <2>2, <2>4, <2>5, AllArcsIs, Zenon
  <2> QED BY <2>1, <2>2, <2>5, <2>6
<1>7. \A l \in Nat : \A k : {} \subseteq OnLevel(N, l) /\ Above(N, l) \cup {} = Above(N, l)
  OBVIOUS
<1>8. ASSUME NEW l \in Nat, Above(N, l) # {}, NEW k \in CutKinds
      PROVE  /\ Cardinality(Across(Above(N, l), k)) \in Nat
             /\ Cardinality(Across(Above(N, l), k)) <= f.cut1[k]
             /\ Cardinality(Across(Above(N, l), k)) <= c[k]
  <2>1. PICK y \in Nat :
          /\ y = Cardinality(Across(Above(N, l), k))
          /\ y <= Count(f) + 1 /\ y <= AllArcs(f, k)
    BY <1>6, <1>7
  <2>2. y <= f.cut1[k]
    BY <1>8, <2>1 DEF BoundsCuts
  <2> QED BY <1>2, <1>5, <2>1, <2>2
<1> HIDE DEF c, d
<1>9. ASSUME NEW k \in CutKinds, NEW y \in Nat, y <= Count(f) + 1, y <= AllArcs(f, k),
              IF Count(f) = Len(f.levels) THEN y <= c[k]
                                          ELSE 2 * y <= 2 * c[k] + c["Internal"]
       PROVE  y <= d[k]
  <2>1. /\ Count(f) = Len(f.levels) \/ f.cut2[k] = CutMax
        /\ c["Internal"] \in Nat /\ c[k] \in Nat
    BY <1>4, <1>5 DEF BoundsCuts
  <2>2. CASE Count(f) = Len(f.levels)
    <3>1. d[k] = c[k]
      BY <1>2, <1>3, <2>1, <2>2, FixedCut2Is DEF d
    <3> QED BY <1>9, <2>2, <3>1
  <2>3. CASE Count(f) # Len(f.levels)
    BY <1>2, <1>3, <1>9, <2>1, <2>3, FixedCut2Is DEF d
  <2> QED BY <2>2, <2>3
<1>10. ASSUME NEW l \in Nat, Above(N, l) # {}, NEW k \in CutKinds
       PROVE  Cardinality(Across(Above(N, l), k)) <= d[k]
  <2>1. PICK y \in Nat :
          /\ y = Cardinality(Across(Above(N, l), k))
          /\ y <= Count(f) + 1 /\ y <= AllArcs(f, k)
    BY <1>6, <1>7
  <2>2. y <= c[k] /\ c[k] \in Nat /\ c["Internal"] \in Nat
    BY <1>4, <1>5, <1>8, <1>10, <2>1
  <2>3. 2 * y <= 2 * c[k] + c["Internal"]
    BY <2>2
  <2> QED BY <1>9, <2>1, <2>2, <2>3
<1>11. ASSUME NEW l \in Nat, Above(N, l) # {}, NEW k \in CutKinds,
              NEW S, S \subseteq OnLevel(N, l), S # {}
       PROVE  C(l, S, k) <= d[k]
  <2>1. Above(N, l + 1) = Above(N, l) \cup OnLevel(N, l) /\ l + 1 \in Nat
    BY LevelBelow
  <2>2. CASE Count(f) = Len(f.levels)
    <3>1. Above(N, l) \cup S = Above(N, l + 1)
      BY <1>1, <1>11, <2>1, <2>2, LevelsOfOne
    <3>2. Above(N, l + 1) # {}
      BY <1>11, <2>1
    <3> QED BY <1>10, <2>1, <3>1, <3>2
  <2>3. CASE Count(f) # Len(f.levels)
    <3>1. PICK y \in Nat : y = C(l, S, k) /\ y <= Count(f) + 1 /\ y <= AllArcs(f, k)
      BY <1>6, <1>11
    <3>2. PICK o \in Nat, i \in Nat : o = c[k] /\ i = c["Internal"]
      BY <1>4, <1>5
    <3>3. CASE o >= Count(f) + 1 \/ o >= AllArcs(f, k)
      <4>1. y <= o
        BY <1>2, <1>5, <3>1, <3>2, <3>3
      <4>2. 2 * y <= 2 * o + i
        BY <3>1, <3>2, <4>1
      <4> QED BY <1>9, <2>3, <3>1, <3>2, <4>2
    <3>4. CASE o >= f.cut1[k]
      <4>1. Above(N, l + 1) # {}
        BY <1>11, <2>1
      <4>2. /\ Cardinality(Across(Above(N, l), k)) <= o
            /\ Cardinality(Across(Above(N, l + 1), k)) <= o
            /\ Cardinality(Across(Above(N, l), "Internal")) <= i
        BY <1>4, <1>8, <1>11, <2>1, <3>2, <4>1
      <4>3. 2 * C(l, S, k) <= 2 * o + i
        BY <1>11, <4>2, TwoLevelCutIsWithin
      <4> QED BY <1>9, <2>3, <3>1, <3>2, <4>3
    <3> QED BY <1>5, <3>2, <3>3, <3>4
  <2> QED BY <2>2, <2>3
<1>12. ASSUME NEW l \in Nat, Above(N, l) = {}, NEW k \in CutKinds,
              NEW S, S \subseteq OnLevel(N, l), S # {}
       PROVE  C(l, S, k) <= d[k]
  <2>1. Above(N, l + 1) = Above(N, l) \cup OnLevel(N, l) /\ l + 1 \in Nat
    BY LevelBelow
  <2>2. \A n \in OnLevel(N, l) : n = r
    <3> SUFFICES ASSUME NEW n \in OnLevel(N, l), n # r PROVE FALSE
      OBVIOUS
    <3>1. n \in N /\ LevelOf(n.uid) = l
      BY DEF OnLevel
    <3>2. Above(N, LevelOf(n.uid)) # {}
      BY <3>1, ArcsEnterLevels
    <3> QED BY <1>12, <3>1, <3>2
  <2>3. S = OnLevel(N, l)
    BY <1>12, <2>2
  <2>4. Above(N, l) \cup S = Above(N, l + 1) /\ Above(N, l + 1) # {}
    BY <1>12, <2>1, <2>3
  <2> QED BY <1>10, <2>1, <2>4
<1>13. ASSUME NEW k \in CutKinds
       PROVE  d[k] >= 1 /\ d[k] \in Int
  <2>1. CASE Count(f) = Len(f.levels)
    <3>1. d[k] = c[k]
      BY <1>2, <1>3, <1>4, <1>5, <2>1, FixedCut2Is DEF d, BoundsCuts
    <3> QED BY <1>5, <3>1
  <2>2. CASE Count(f) # Len(f.levels)
    <3>0. d[k] \in Int
      BY <1>2, <1>3, <1>4, <1>5, FixedCut2Is DEF d, BoundsCuts
    <3>1. N # {r}
      <4> SUFFICES ASSUME N = {r} PROVE FALSE
        OBVIOUS
      <4>1. LevelsIn(N) = {LevelOf(r.uid)}
        BY DEF LevelsIn
      <4> HIDE DEF N
      <4>2. Cardinality(N) = 1 /\ Cardinality(LevelsIn(N)) = 1
        BY <4>1, FS_Singleton, Zenon
      <4> QED BY <2>2, <4>2 DEF N
    <3>2. PICK n \in N : n # r
      BY <1>1, <3>1
    <3>3. PICK l \in Nat : /\ Above(N, l) # {}
                           /\ Cardinality(Across(Above(N, l), k)) >= 1
      BY <3>2, ArcsEnterLevels
    <3>4. 1 <= AllArcs(f, k)
      <4>1. /\ Cardinality(Across(Above(N, l), k)) <= AllArcs(f, k)
            /\ Cardinality(Across(Above(N, l), k)) \in Nat
        BY <1>6, <1>7
      <4> QED BY <1>5, <3>3, <4>1
    <3>5. 1 <= Count(f) + 1 /\ 2 * 1 <= 2 * c[k] + c["Internal"]
      BY <1>2, <1>4, <1>5
    <3>6. 1 <= d[k]
      BY <1>9, <2>2, <3>4, <3>5
    <3> QED BY <3>0, <3>6
  <2> QED BY <2>1, <2>2
<1>14. NodesOf(Fixup(f)) = N /\ Fixup(f).cut1 = c /\ Fixup(f).cut2 = d
  <2>1. PICK fixed : fixed = [f EXCEPT !.cut1 = c, !.cut2 = d]
    OBVIOUS
  <2>2. Fixup(f) = fixed
    BY <2>1 DEF Fixup, c, d
  <2>3. fixed.nodes = f.nodes /\ fixed.cut1 = c /\ fixed.cut2 = d
    BY <2>1 DEF FileType
  <2> QED BY <2>2, <2>3 DEF NodesOf
<1>15. InnerNodes(Fixup(f)) = N
  BY <1>14, InnerOfHeld DEF HoldsDiagram
<1>16. ASSUME NEW k \in CutKinds
       PROVE  OneLevelCut(N, k) <= c[k]
  <2> DEFINE S == {CutSize(N, Above(N, l), k) : l \in 0 .. Levels}
  <2>1. Levels \in Nat
    BY DiagramAssumption
  <2>2. ASSUME NEW l \in 0 .. Levels
        PROVE  CutSize(N, Above(N, l), k) \in Nat /\ CutSize(N, Above(N, l), k) <= c[k]
    <3>1. CASE Above(N, l) = {}
      <4>1. CutSize(N, Above(N, l), k) = 1
        BY <3>1, CutSizeIs, Zenon
      <4> QED BY <1>5, <4>1
    <3>2. CASE Above(N, l) # {}
      <4>1. CutSize(N, Above(N, l), k) = Cardinality(Across(Above(N, l), k))
        BY <3>2, CutSizeIs, Zenon
      <4> QED BY <1>8, <2>1, <3>2, <4>1
    <3> QED BY <3>1, <3>2
  <2>3. S \subseteq Nat /\ S # {} /\ \A x \in S : x <= c[k]
    BY <2>1, <2>2
  <2>4. c[k] \in Nat
    BY <1>5
  <2> HIDE DEF S
  <2>5. MaxOf(S) <= c[k]
    BY <2>3, <2>4, MaxOfIsWithin
  <2> QED BY <2>5 DEF S, OneLevelCut
<1>17. ASSUME NEW k \in CutKinds
       PROVE  TwoLevelCut(N, k) <= d[k]
  <2> DEFINE S == UNION {{CutSize(N, Above(N, l) \cup V, k) : V \in SUBSET OnLevel(N, l)} :
                            l \in 0 .. Levels}
  <2>1. Levels \in Nat
    BY DiagramAssumption
  <2>2. ASSUME NEW l \in 0 .. Levels, NEW V \in SUBSET OnLevel(N, l)
        PROVE  /\ CutSize(N, Above(N, l) \cup V, k) \in Nat
               /\ CutSize(N, Above(N, l) \cup V, k) <= d[k]
    <3>1. CASE Above(N, l) \cup V = {}
      <4>1. CutSize(N, Above(N, l) \cup V, k) = 1
        BY <3>1, CutSizeIs, Zenon
      <4> QED BY <1>13, <4>1
    <3>2. CASE Above(N, l) \cup V # {}
      <4>1. CutSize(N, Above(N, l) \cup V, k) = C(l, V, k)
        BY <3>2, CutSizeIs, Zenon
      <4>2. l \in Nat /\ C(l, V, k) \in Nat
        <5>1. l \in Nat /\ V \subseteq OnLevel(N, l)
          BY <2>1
        <5> QED BY <1>6, <5>1
      <4>3. CASE V = {}
        <5>1. Above(N, l) # {} /\ Above(N, l) \cup V = Above(N, l)
          BY <3>2, <4>3
        <5>2. C(l, V, k) <= d[k]
          BY <1>10, <4>2, <5>1
        <5> QED BY <4>1, <4>2, <5>2
      <4>4. CASE V # {}
        <5>1. C(l, V, k) <= d[k]
          BY <1>11, <1>12, <4>2, <4>4
        <5> QED BY <4>1, <4>2, <5>1
      <4> QED BY <4>3, <4>4
    <3> QED BY <3>1, <3>2
  <2>3. S \subseteq Nat /\ \A x \in S : x <= d[k]
    <3> SUFFICES ASSUME NEW x \in S PROVE x \in Nat /\ x <= d[k]
      OBVIOUS
    <3>1. PICK l \in 0 .. Levels :
            x \in {CutSize(N, Above(N, l) \cup V, k) : V \in SUBSET OnLevel(N, l)}
      BY Zenon
    <3>2. PICK V \in SUBSET OnLevel(N, l) : x = CutSize(N, Above(N, l) \cup V, k)
      BY <3>1, Zenon
    <3> HIDE DEF S
    <3> QED BY <2>2, <3>2
  <2>4. S # {}
    <3>1. 0 \in 0 .. Levels /\ {} \in SUBSET OnLevel(N, 0)
      BY <2>1
    <3>2. CutSize(N, Above(N, 0) \cup {}, k) \in
            {CutSize(N, Above(N, 0) \cup V, k) : V \in SUBSET OnLevel(N, 0)}
      BY <3>1, Zenon
    <3>3. CutSize(N, Above(N, 0) \cup {}, k) \in S
      BY <3>1, <3>2, Zenon
    <3> QED BY <3>3, Zenon
  <2>5. d[k] \in Nat
    BY <1>13
  <2> HIDE DEF S
  <2>6. MaxOf(S) <= d[k]
    BY <2>3, <2>4, <2>5, MaxOfIsWithin
  <2> QED BY <2>6 DEF S, TwoLevelCut
<1> HIDE DEF N
<1> QED BY <1>14, <1>15, <1>16, <1>17, Zenon DEF CutsAreBounds

-----------------------------------------------------------------------------
(* What a writer counts of the arcs of the nodes it was given              *)

(* One more node on or above the top level.                                *)
IsTopNode(n, N) ==
    /\ IsInner(n) /\ \A m \in N : n.uid < m.uid
    /\ \A s \in Sides : \/ IsTerminal(n[s])
                        \/ \E m \in N : m.uid = n[s] /\ LevelOf(n.uid) < LevelOf(m.uid)

LEMMA DiagramGrows ==
    ASSUME NEW N, HoldsDiagram(N), NEW n, IsTopNode(n, N)
    PROVE  /\ HoldsDiagram(N \cup {n}) /\ n \notin N
           /\ \A m \in N : LevelOf(n.uid) <= LevelOf(m.uid)
<1>1. HoldsNodes(N) /\ IsInner(n) /\ n.uid \in Nat
  BY InnerIs DEF HoldsDiagram, IsTopNode, NodeRecord
<1>2. \A m \in N : m.uid \in Nat /\ n.uid < m.uid /\ IsInner(m)
  BY <1>1, NodesHaveLevels DEF IsTopNode, HoldsNodes
<1>3. n \notin N
  BY <1>1, <1>2
<1>4. \A m \in N : LevelOf(n.uid) <= LevelOf(m.uid)
  BY <1>1, <1>2, SmallerIsAbove
<1>5. HoldsNodes(N \cup {n})
  BY <1>1, FS_AddElement, Zenon DEF HoldsNodes
<1>6. \A m, k \in N \cup {n} : m.uid = k.uid => m = k
  BY <1>1, <1>2 DEF HoldsDiagram
<1>7. \A m \in N \cup {n}, s \in Sides :
        \/ IsTerminal(m[s])
        \/ \E k \in N \cup {n} : k.uid = m[s] /\ LevelOf(m.uid) < LevelOf(k.uid)
  BY Zenon DEF HoldsDiagram, IsTopNode
<1> QED BY <1>3, <1>4, <1>5, <1>6, <1>7, Zenon DEF HoldsDiagram

LEMMA ArcsOfOneNode ==
    ASSUME NEW n, NEW S, S \subseteq Sides
    PROVE  /\ IsFiniteSet({n} \X S) /\ Cardinality(S) \in Nat
           /\ Cardinality({n} \X S) = Cardinality(S)
<1>1. IsFiniteSet(S) /\ Cardinality(S) \in Nat
  BY SidesAreFinite DEF Sides
<1>2. IsFiniteSet({n}) /\ Cardinality({n}) = 1
  BY FS_Singleton
<1>3. IsFiniteSet({n} \X S) /\ Cardinality({n} \X S) = Cardinality({n}) * Cardinality(S)
  BY <1>1, <1>2, FS_Product, Zenon
<1> QED BY <1>1, <1>2, <1>3

(* It adds its own arcs and changes no other's being long or short.        *)
LongSidesIn(N, n) == {s \in Sides : IsNode(n[s]) /\ Passes(N, <<n, s>>)}
ShortSidesIn(N, n) == {s \in Sides : IsNode(n[s]) /\ ~Passes(N, <<n, s>>)}

LEMMA TopNodeAddsArcs ==
    ASSUME NEW N, HoldsDiagram(N), NEW n, IsTopNode(n, N), NEW M, M = N \cup {n}
    PROVE  /\ Cardinality(LongArcs(M)) = Cardinality(LongArcs(N)) + Cardinality(LongSidesIn(M, n))
           /\ Cardinality(ShortArcs(M, LevelOf(n.uid)))
                = Cardinality(ShortArcs(N, LevelOf(n.uid))) + Cardinality(ShortSidesIn(M, n))
           /\ \A j : j # LevelOf(n.uid) => ShortArcs(M, j) = ShortArcs(N, j)
<1> DEFINE K == LevelOf(n.uid)
           Lo == LongSidesIn(M, n)
           Sh == ShortSidesIn(M, n)
<1>1. /\ HoldsDiagram(M) /\ n \notin N /\ \A m \in N : K <= LevelOf(m.uid)
      /\ IsFiniteSet(N)
  BY DiagramGrows DEF HoldsDiagram, HoldsNodes
<1>2. \A m \in M : LevelOf(m.uid) \in Nat
  BY <1>1, NodesHaveLevels DEF HoldsDiagram
<1>3. \A a \in SidesIn(N) : Passes(M, a) <=> Passes(N, a)
  <2> SUFFICES ASSUME NEW a \in SidesIn(N) PROVE Passes(M, a) <=> Passes(N, a)
    OBVIOUS
  <2>1. a[1] \in N /\ a[1] \in M /\ n \in M
    BY DEF SidesIn
  <2>2. ~(LevelOf(a[1].uid) < K)
    BY <1>1, <1>2, <2>1
  <2> QED BY <2>2, Zenon DEF Passes
<1>4. \A j : SidesIn(OnLevel(N, j)) \subseteq SidesIn(N)
  BY DEF SidesIn, OnLevel
<1>5. LongArcs(M) = LongArcs(N) \cup ({n} \X Lo)
  <2>1. SidesIn(M) = SidesIn(N) \cup ({n} \X Sides)
    BY DEF SidesIn
  <2>2. \A a \in {n} \X Sides : a = <<n, a[2]>> /\ a[2] \in Sides /\ EndOf(a) = n[a[2]]
    BY DEF EndOf
  <2>3. \A a : a \in {n} \X Lo <=> /\ a \in {n} \X Sides /\ IsNode(n[a[2]])
                                   /\ Passes(M, <<n, a[2]>>)
    BY DEF LongSidesIn
  <2> HIDE DEF Lo
  <2>4. ASSUME NEW a
        PROVE  a \in LongArcs(M) <=> a \in LongArcs(N) \/ a \in {n} \X Lo
    <3>1. a \in {n} \X Lo <=> a \in {n} \X Sides /\ IsNode(EndOf(a)) /\ Passes(M, a)
      BY <2>2, <2>3, Zenon
    <3>2. a \in LongArcs(N) <=> a \in SidesIn(N) /\ IsNode(EndOf(a)) /\ Passes(M, a)
      BY <1>3, Zenon DEF LongArcs
    <3> QED BY <2>1, <3>1, <3>2, Zenon DEF LongArcs
  <2> QED BY <2>4, Zenon
<1>6. LongArcs(N) \cap ({n} \X Lo) = {}
  BY <1>1 DEF LongArcs, SidesIn
<1>7. Lo \subseteq Sides /\ Sh \subseteq Sides
  BY DEF LongSidesIn, ShortSidesIn
<1>8. ShortArcs(M, K) = ShortArcs(N, K) \cup ({n} \X Sh)
  <2>1. SidesIn(OnLevel(M, K)) = SidesIn(OnLevel(N, K)) \cup ({n} \X Sides)
    BY DEF SidesIn, OnLevel
  <2>2. \A a \in {n} \X Sides : a = <<n, a[2]>> /\ a[2] \in Sides /\ EndOf(a) = n[a[2]]
    BY DEF EndOf
  <2>3. \A a : a \in {n} \X Sh <=> /\ a \in {n} \X Sides /\ IsNode(n[a[2]])
                                   /\ ~Passes(M, <<n, a[2]>>)
    BY DEF ShortSidesIn
  <2> HIDE DEF Sh, K
  <2>4. \A a : a \in ShortArcs(M, K) <=> a \in ShortArcs(N, K) \/ a \in {n} \X Sh
    BY <1>3, <1>4, <2>1, <2>2, <2>3, Zenon DEF ShortArcs
  <2> QED BY <2>4, Zenon
<1>9. ShortArcs(N, K) \cap ({n} \X Sh) = {}
  BY <1>1 DEF ShortArcs, SidesIn, OnLevel
<1>10. ASSUME NEW j, j # K
       PROVE  ShortArcs(M, j) = ShortArcs(N, j)
  <2>1. OnLevel(M, j) = OnLevel(N, j)
    BY <1>10 DEF OnLevel
  <2> QED BY <1>3, <1>4, <2>1, Zenon DEF ShortArcs
<1> HIDE DEF Lo, Sh
<1>11. /\ IsFiniteSet({n} \X Lo) /\ Cardinality({n} \X Lo) = Cardinality(Lo)
       /\ IsFiniteSet({n} \X Sh) /\ Cardinality({n} \X Sh) = Cardinality(Sh)
  BY <1>7, ArcsOfOneNode
<1>12. IsFiniteSet(LongArcs(N)) /\ IsFiniteSet(ShortArcs(N, K))
  BY <1>1, ArcsOfKindAre
<1>13. Cardinality(LongArcs(N) \cup ({n} \X Lo)) = Cardinality(LongArcs(N)) + Cardinality({n} \X Lo)
  BY <1>6, <1>11, <1>12, PartsAdd, Zenon
<1>14. Cardinality(ShortArcs(N, K) \cup ({n} \X Sh))
         = Cardinality(ShortArcs(N, K)) + Cardinality({n} \X Sh)
  BY <1>9, <1>11, <1>12, PartsAdd, Zenon
<1> QED BY <1>5, <1>8, <1>10, <1>11, <1>13, <1>14 DEF Lo, Sh

(* A writer tells its long arcs by the greatest uid of the next level.     *)
LEMMA LongIsPassing ==
    ASSUME NEW M, HoldsDiagram(M), NEW n \in M, NEW s \in Sides, IsNode(n[s]),
           NEW q \in M, LevelOf(n.uid) < LevelOf(q.uid),
           \A m \in M : LevelOf(n.uid) < LevelOf(m.uid) => LevelOf(q.uid) <= LevelOf(m.uid)
    PROVE  Passes(M, <<n, s>>) <=> n[s] > Uid(LevelOf(q.uid), MaxId)
<1> DEFINE j == LevelOf(q.uid)
           a == <<n, s>>
<1>1. \A m \in M : LevelOf(m.uid) \in Nat /\ IsInner(m)
  BY NodesHaveLevels DEF HoldsDiagram, HoldsNodes
<1>2. a \in SidesIn(M) /\ EndOf(a) = n[s] /\ a[1] = n
  BY DEF SidesIn, EndOf
<1>3. PICK m \in M : m.uid = n[s] /\ LevelOf(n.uid) < LevelOf(m.uid)
  BY <1>2, EndsInDiagram
<1>4. PICK l \in Level, i \in 0 .. MaxId : m.uid = Uid(l, i)
  BY <1>1 DEF IsInner
<1>5. l \in Nat /\ MaxId \in Nat /\ LevelOf(m.uid) = l
  BY <1>4, UidIs, DiagramAssumption DEF Level
<1>6. j \in Nat /\ j <= l
  BY <1>1, <1>3, <1>5
<1>7. n[s] > Uid(j, MaxId) <=> j < l
  <2>1. MaxId \in 0 .. MaxId
    BY <1>5
  <2>2. Uid(j, MaxId) < Uid(l, i) <=> j < l \/ (j = l /\ MaxId < i)
    BY <1>5, <1>6, <2>1, UidsAreOrdered
  <2>3. ~(MaxId < i)
    BY <1>5
  <2>4. Uid(j, MaxId) \in Nat /\ Uid(l, i) \in Nat /\ n[s] = Uid(l, i)
    BY <1>3, <1>4, <1>5, <1>6, <2>1, UidIs
  <2> HIDE DEF j
  <2> QED BY <2>2, <2>3, <2>4
<1>8. Passes(M, a) <=> \E k \in M : LevelOf(n.uid) < LevelOf(k.uid) /\ LevelOf(k.uid) < l
  BY <1>2, <1>3, <1>5, Zenon DEF Passes
<1>9. (\E k \in M : LevelOf(n.uid) < LevelOf(k.uid) /\ LevelOf(k.uid) < l) <=> j < l
  <2>1. ASSUME NEW k \in M, LevelOf(n.uid) < LevelOf(k.uid), LevelOf(k.uid) < l
        PROVE  j < l
    <3>1. j <= LevelOf(k.uid) /\ LevelOf(k.uid) \in Nat
      BY <1>1, <2>1
    <3> QED BY <1>5, <1>6, <2>1, <3>1
  <2> QED BY <2>1
<1> QED BY <1>7, <1>8, <1>9

(* The pointer by which a writer on level K tells long arcs: the greatest  *)
(* uid of the next level with nodes, or nil if there is none.              *)
NextBelow(N, K, p) ==
    \/ (\A m \in N : ~(K < LevelOf(m.uid))) /\ p = Nil
    \/ \E q \in N : /\ K < LevelOf(q.uid) /\ p = Uid(LevelOf(q.uid), MaxId)
                    /\ \A m \in N : K < LevelOf(m.uid) => LevelOf(q.uid) <= LevelOf(m.uid)

LEMMA NextBelowIs ==
    ASSUME NEW N, HoldsNodes(N), NEW K, NEW p, NextBelow(N, K, p)
    PROVE  p = Nil <=> \A m \in N : ~(K < LevelOf(m.uid))
<1>1. ASSUME NEW q \in N
      PROVE  Uid(LevelOf(q.uid), MaxId) # Nil
  <2>1. LevelOf(q.uid) \in Level /\ MaxId \in 0 .. MaxId
    BY InnerIs, DiagramAssumption DEF HoldsNodes
  <2> QED BY <2>1, PointersAre
<1> QED BY <1>1 DEF NextBelow

LEMMA SidesAreTold ==
    ASSUME NEW M, HoldsDiagram(M), NEW n \in M, NEW p, NextBelow(M, LevelOf(n.uid), p)
    PROVE  LongSides(n, p) = LongSidesIn(M, n) /\ ShortSides(n, p) = ShortSidesIn(M, n)
<1>1. ASSUME NEW s \in Sides, IsNode(n[s])
      PROVE  n[s] > p <=> Passes(M, <<n, s>>)
  <2>1. <<n, s>> \in SidesIn(M) /\ EndOf(<<n, s>>) = n[s] /\ <<n, s>>[1] = n
    BY DEF SidesIn, EndOf
  <2>2. PICK m \in M : m.uid = n[s] /\ LevelOf(n.uid) < LevelOf(m.uid)
    BY <1>1, <2>1, EndsInDiagram
  <2>3. PICK q \in M :
          /\ LevelOf(n.uid) < LevelOf(q.uid) /\ p = Uid(LevelOf(q.uid), MaxId)
          /\ \A k \in M : LevelOf(n.uid) < LevelOf(k.uid) => LevelOf(q.uid) <= LevelOf(k.uid)
    BY <2>2, Zenon DEF NextBelow
  <2> QED BY <1>1, <2>3, LongIsPassing
<1>2. LongSides(n, p) = LongSidesIn(M, n)
  BY <1>1 DEF LongSides, LongSidesIn, Sides
<1>3. ShortSides(n, p) = ShortSidesIn(M, n)
  BY <1>1 DEF ShortSides, ShortSidesIn, Sides
<1> QED BY <1>2, <1>3

(* The nodes of the lowest level are all nodes or those of the part below. *)
LEMMA BottomGrows ==
    ASSUME NEW N, HoldsDiagram(N), NEW n, IsTopNode(n, N), NEW M, M = N \cup {n}
    PROVE  /\ (\A m \in M : ~(LevelOf(n.uid) < LevelOf(m.uid))) => Bottom(M) = M /\ Bottom(N) = N
           /\ (\E m \in M : LevelOf(n.uid) < LevelOf(m.uid)) => Bottom(M) = Bottom(N)
<1>1. /\ HoldsDiagram(M) /\ n \in M /\ \A m \in N : LevelOf(n.uid) <= LevelOf(m.uid)
  BY DiagramGrows
<1>2. \A m \in M : LevelOf(m.uid) \in Nat /\ LevelOf(n.uid) <= LevelOf(m.uid)
  BY <1>1, NodesHaveLevels DEF HoldsDiagram
<1>3. ASSUME \A m \in M : ~(LevelOf(n.uid) < LevelOf(m.uid))
      PROVE  Bottom(M) = M /\ Bottom(N) = N
  <2>1. \A m \in M : LevelOf(m.uid) = LevelOf(n.uid)
    BY <1>1, <1>2, <1>3
  <2>2. \A m, k \in M : LevelOf(m.uid) <= LevelOf(k.uid)
    BY <1>1, <1>2, <2>1
  <2> QED BY <2>2 DEF Bottom
<1>4. ASSUME NEW q \in M, LevelOf(n.uid) < LevelOf(q.uid)
      PROVE  Bottom(M) = Bottom(N)
  <2>1. q \in N
    BY <1>1, <1>2, <1>4
  <2>2. n \notin Bottom(M)
    BY <1>1, <1>2, <1>4 DEF Bottom
  <2>3. \A m \in Bottom(N) : LevelOf(n.uid) <= LevelOf(m.uid)
    BY <1>2 DEF Bottom
  <2> QED BY <2>2, <2>3 DEF Bottom
<1> QED BY <1>3, <1>4

(* The account of a writer on level K of the arcs of the nodes N.          *)
ArcsCounted(N, K, ptr, current, max) ==
    /\ NextBelow(N, K, ptr)
    /\ current = Cardinality(ShortArcs(N, K)) /\ max \in Nat
    /\ \A j \in LevelsIn(N) \ {K} : Cardinality(ShortArcs(N, j)) <= max

(* It starts a level above all others.                                     *)
LEMMA CommitCounts ==
    ASSUME NEW N, HoldsDiagram(N), NEW L, NEW q \in N, LevelOf(q.uid) = L,
           \A m \in N : L <= LevelOf(m.uid),
           NEW ptr, NEW current, NEW max, ArcsCounted(N, L, ptr, current, max),
           NEW K \in Nat, K < L
    PROVE  ArcsCounted(N, K, Uid(L, MaxId), 0, Bigger(max, current))
<1>1. IsFiniteSet(N) /\ \A m \in N : LevelOf(m.uid) \in Nat
  BY NodesHaveLevels DEF HoldsDiagram, HoldsNodes
<1>2. NextBelow(N, K, Uid(L, MaxId))
  BY Zenon DEF NextBelow
<1>3. \A m \in N : LevelOf(m.uid) # K
  BY <1>1
<1>4. ShortArcs(N, K) = {}
  BY <1>3 DEF ShortArcs, SidesIn, OnLevel
<1>5. Cardinality(ShortArcs(N, K)) = 0
  BY <1>4, FS_EmptySet, Zenon
<1>6. current \in Nat /\ max \in Nat /\ current = Cardinality(ShortArcs(N, L))
  BY <1>1, ArcsOfKindAre DEF ArcsCounted
<1>7. PICK b \in Nat : b = Bigger(max, current) /\ b >= max /\ b >= current
  BY <1>6, BiggerIs
<1>8. ASSUME NEW j \in LevelsIn(N) \ {K}
      PROVE  Cardinality(ShortArcs(N, j)) <= b
  <2>1. Cardinality(ShortArcs(N, j)) \in Nat
    BY <1>1, ArcsOfKindAre
  <2>2. CASE j = L
    BY <1>6, <1>7, <2>2
  <2>3. CASE j # L
    <3>1. Cardinality(ShortArcs(N, j)) <= max
      BY <2>3 DEF ArcsCounted
    <3> QED BY <1>6, <1>7, <2>1, <3>1
  <2> QED BY <2>2, <2>3
<1> QED BY <1>2, <1>5, <1>7, <1>8, Zenon DEF ArcsCounted

LEMMA TopNodeCounts ==
    ASSUME NEW N, HoldsDiagram(N), NEW n, IsTopNode(n, N), NEW M, M = N \cup {n},
           NEW ptr, NEW current, NEW max, ArcsCounted(N, LevelOf(n.uid), ptr, current, max)
    PROVE  /\ ArcsCounted(M, LevelOf(n.uid), ptr, current + Cardinality(ShortSides(n, ptr)), max)
           /\ Cardinality(LongArcs(M)) = Cardinality(LongArcs(N)) + Cardinality(LongSides(n, ptr))
           /\ \A v \in BOOLEAN :
                ArcsTo(Bottom(M), v) = ArcsTo(Bottom(N), v)
                    + One(ptr = Nil /\ IsNode(n.uid)) * TerminalsOf(n, v)
<1> DEFINE K == LevelOf(n.uid)
<1>1. /\ HoldsDiagram(M) /\ n \in M /\ n \notin N /\ \A m \in N : K <= LevelOf(m.uid)
      /\ IsFiniteSet(N)
  BY DiagramGrows DEF HoldsDiagram, HoldsNodes
<1>2. HoldsNodes(M) /\ \A m \in M : LevelOf(m.uid) \in Nat
  BY <1>1, NodesHaveLevels DEF HoldsDiagram
<1>3. NextBelow(M, K, ptr)
  <2>1. ~(K < K)
    BY <1>1, <1>2
  <2>2. NextBelow(N, K, ptr)
    BY DEF ArcsCounted
  <2> HIDE DEF K
  <2>3. \A m \in M : m \in N \/ LevelOf(m.uid) = K
    BY DEF K
  <2> QED BY <2>1, <2>2, <2>3 DEF NextBelow
<1>4. LongSides(n, ptr) = LongSidesIn(M, n) /\ ShortSides(n, ptr) = ShortSidesIn(M, n)
  BY <1>1, <1>3, SidesAreTold
<1>5. /\ Cardinality(LongArcs(M)) = Cardinality(LongArcs(N)) + Cardinality(LongSidesIn(M, n))
      /\ Cardinality(ShortArcs(M, K)) = Cardinality(ShortArcs(N, K)) + Cardinality(ShortSidesIn(M, n))
      /\ \A j : j # K => ShortArcs(M, j) = ShortArcs(N, j)
  BY TopNodeAddsArcs
<1>6. LevelsIn(M) \ {K} = LevelsIn(N) \ {K}
  BY DEF LevelsIn
<1>7. ArcsCounted(M, K, ptr, current + Cardinality(ShortSides(n, ptr)), max)
  <2>1. \A j \in LevelsIn(M) \ {K} : Cardinality(ShortArcs(M, j)) <= max
    BY <1>5, <1>6, Zenon DEF ArcsCounted
  <2> QED BY <1>3, <1>4, <1>5, <2>1, Zenon DEF ArcsCounted
<1>8. ASSUME NEW v \in BOOLEAN
      PROVE  ArcsTo(Bottom(M), v) = ArcsTo(Bottom(N), v)
                + One(ptr = Nil /\ IsNode(n.uid)) * TerminalsOf(n, v)
  <2>1. TerminalsOf(n, v) \in Nat
    BY TerminalsOfIs
  <2>2. IsNode(n.uid)
    BY InnerIs DEF IsTopNode
  <2>3. ptr = Nil <=> \A m \in M : ~(K < LevelOf(m.uid))
    BY <1>2, <1>3, NextBelowIs
  <2>4. CASE ptr = Nil
    <3>1. Bottom(M) = M /\ Bottom(N) = N
      BY <2>3, <2>4, BottomGrows
    <3>2. ArcsTo(M, v) = ArcsTo(N, v) + TerminalsOf(n, v)
      BY <1>1, ArcsOfOneMore
    <3>3. One(ptr = Nil /\ IsNode(n.uid)) = 1
      BY <2>2, <2>4, Zenon DEF One
    <3>4. One(ptr = Nil /\ IsNode(n.uid)) * TerminalsOf(n, v) = TerminalsOf(n, v)
      BY <2>1, <3>3
    <3> QED BY <3>1, <3>2, <3>4, Zenon
  <2>5. CASE ptr # Nil
    <3>1. Bottom(M) = Bottom(N)
      BY <2>3, <2>5, BottomGrows, Zenon
    <3>2. One(ptr = Nil /\ IsNode(n.uid)) = 0
      BY <2>5, Zenon DEF One
    <3>3. ArcsTo(Bottom(N), v) \in Nat
      <4>1. Bottom(N) \subseteq N
        BY DEF Bottom
      <4>2. IsFiniteSet(Bottom(N))
        BY <1>1, <4>1, PartsAreFewer, Zenon
      <4> QED BY <4>2, ArcsAreFinite
    <3> QED BY <2>1, <3>1, <3>2, <3>3
  <2> QED BY <2>4, <2>5
<1> QED BY <1>5, <1>4, <1>7, <1>8, Zenon

(* The account of a writer of the arcs that cross the cuts of its file.    *)
CutsCounted(w, N) ==
    /\ HoldsDiagram(N) /\ w.long = Cardinality(LongArcs(N))
    /\ \A v \in BOOLEAN : w.atBottom[v] = ArcsTo(Bottom(N), v)
    /\ \A k \in CutKinds : w.file.cut2[k] = CutMax

CutAccount(w) ==
    /\ CutsCounted(w, NodesOf(w.file))
    /\ ArcsCounted(NodesOf(w.file), LevelOf(w.latest.uid), w.longPtr, w.curShort, w.maxShort)

NothingCounted(w) ==
    /\ w.longPtr = Nil /\ w.curShort = 0 /\ w.maxShort = 0 /\ w.long = 0
    /\ w.atBottom = [v \in BOOLEAN |-> 0]
    /\ \A k \in CutKinds : w.file.cut2[k] = CutMax

LEMMA OpenedCounts == NothingCounted(Opened(EmptyFile)) /\ NothingCounted(Constructed(EmptyFile))
<1>1. NothingCounted(Opened(EmptyFile))
  BY DEF NothingCounted, Opened, EmptyFile
<1>2. PICK w \in WriterType : w = Opened(EmptyFile)
  BY OpenedIs
<1>3. PICK c \in BOOLEAN : c = ~HasPushed(w)
  BY Zenon
<1>4. PICK f : f = [w.file EXCEPT !.sorted = c, !.indexable = c]
  OBVIOUS
<1>5. Constructed(EmptyFile) = [w EXCEPT !.file = f]
  BY <1>2, <1>3, <1>4, Zenon DEF Constructed
<1>6. f \in FileType /\ f.cut2 = w.file.cut2
  BY <1>4 DEF WriterType, FileType
<1>7. CountAlike([w EXCEPT !.file = f], w) /\ [w EXCEPT !.file = f].file = f
  BY <1>6, FileReplaced
<1> QED BY <1>1, <1>2, <1>5, <1>6, <1>7 DEF NothingCounted, CountAlike

LEMMA NothingIsCounted ==
    ASSUME NEW w, NothingCounted(w), NEW K
    PROVE  CutsCounted(w, {}) /\ ArcsCounted({}, K, Nil, 0, 0)
<1>1. HoldsDiagram({})
  BY FS_EmptySet DEF HoldsDiagram, HoldsNodes
<1>2. LongArcs({}) = {} /\ ShortArcs({}, K) = {} /\ Bottom({}) = {} /\ LevelsIn({}) = {}
  BY DEF LongArcs, ShortArcs, Bottom, LevelsIn, SidesIn, OnLevel
<1>3. Cardinality(LongArcs({})) = 0 /\ Cardinality(ShortArcs({}, K)) = 0
  BY <1>2, FS_EmptySet, Zenon
<1>4. \A v \in BOOLEAN : ArcsTo(Bottom({}), v) = 0
  BY <1>2, ArcsOfNone, Zenon
<1>5. CutsCounted(w, {})
  <2>1. \A v \in BOOLEAN : w.atBottom[v] = 0
    BY DEF NothingCounted
  <2> QED BY <1>1, <1>3, <1>4, <2>1, Zenon DEF CutsCounted, NothingCounted
<1>6. ArcsCounted({}, K, Nil, 0, 0)
  BY <1>2, <1>3 DEF ArcsCounted, NextBelow
<1> QED BY <1>5, <1>6

(* Whatever level a node is on, it is counted with those below it.         *)
LEMMA PushCounts ==
    ASSUME NEW w \in WriterType, NEW N, CutsCounted(w, N), NEW n, IsTopNode(n, N),
           ArcsCounted(N, LevelOf(n.uid), PtrAfter(w, n),
                       IF IsNewLevel(w, n) THEN 0 ELSE w.curShort,
                       IF IsNewLevel(w, n) THEN Bigger(w.maxShort, w.curShort) ELSE w.maxShort)
    PROVE  LET x == Push(w, n)
           IN  /\ CutsCounted(x, N \cup {n})
               /\ ArcsCounted(N \cup {n}, LevelOf(n.uid), x.longPtr, x.curShort, x.maxShort)
<1> DEFINE M == N \cup {n}
           K == LevelOf(n.uid)
<1>1. n \in NodeRecord
  BY InnerIs DEF IsTopNode
<1>2. PICK new \in BOOLEAN : new = IsNewLevel(w, n)
  BY Zenon DEF IsNewLevel
<1>3. PICK x \in WriterType : x = Push(w, n)
  BY <1>1, PushIs
<1>4. PICK p : p = PtrAfter(w, n)
  OBVIOUS
<1>5. PICK c, m : /\ c = (IF new THEN 0 ELSE w.curShort)
                  /\ m = (IF new THEN Bigger(w.maxShort, w.curShort) ELSE w.maxShort)
  OBVIOUS
<1>6. /\ x.longPtr = p /\ x.maxShort = m
      /\ x.curShort = c + Cardinality(ShortSides(n, p))
      /\ x.long = w.long + Cardinality(LongSides(n, p))
      /\ x.file.cut2 = w.file.cut2
      /\ \A v \in BOOLEAN : x.atBottom[v] = w.atBottom[v]
                              + One(p = Nil /\ IsNode(n.uid)) * TerminalsOf(n, v)
  <2>1. /\ x.longPtr = PtrAfter(w, n)
        /\ x.maxShort = (IF IsNewLevel(w, n) THEN Bigger(w.maxShort, w.curShort) ELSE w.maxShort)
        /\ x.curShort = (IF IsNewLevel(w, n) THEN 0 ELSE w.curShort)
                             + Cardinality(ShortSides(n, PtrAfter(w, n)))
        /\ x.long = w.long + Cardinality(LongSides(n, PtrAfter(w, n)))
        /\ x.file.cut2 = w.file.cut2
        /\ \A v \in BOOLEAN : x.atBottom[v] = w.atBottom[v]
               + One(PtrAfter(w, n) = Nil /\ IsNode(n.uid)) * TerminalsOf(n, v)
    BY <1>1, <1>3, PushIs, ZenonT(40)
  <2>2. CASE new
    BY <1>2, <1>4, <1>5, <2>1, <2>2, Zenon
  <2>3. CASE ~new
    BY <1>2, <1>4, <1>5, <2>1, <2>3, Zenon
  <2> QED BY <2>2, <2>3
<1>7. ArcsCounted(N, K, p, c, m)
  BY <1>2, <1>4, <1>5, Zenon
<1>8. HoldsDiagram(N) /\ HoldsDiagram(M)
  BY DiagramGrows DEF CutsCounted
<1>9. /\ ArcsCounted(M, K, p, c + Cardinality(ShortSides(n, p)), m)
      /\ Cardinality(LongArcs(M)) = Cardinality(LongArcs(N)) + Cardinality(LongSides(n, p))
      /\ \A v \in BOOLEAN :
           ArcsTo(Bottom(M), v) = ArcsTo(Bottom(N), v)
                + One(p = Nil /\ IsNode(n.uid)) * TerminalsOf(n, v)
  BY <1>7, <1>8, TopNodeCounts
<1>10. ArcsCounted(M, K, x.longPtr, x.curShort, x.maxShort)
  BY <1>6, <1>9, Zenon
<1> HIDE DEF M, K
<1>11. CutsCounted(x, M)
  BY <1>6, <1>8, <1>9, Zenon DEF CutsCounted
<1> QED BY <1>3, <1>10, <1>11 DEF M, K

LEMMA FirstPushCounts ==
    ASSUME NEW w, Fresh(w), NothingCounted(w), NEW n, IsTopNode(n, {})
    PROVE  CutAccount(Push(w, n))
<1>1. NodesOf(Push(w, n).file) = {n} /\ Push(w, n).latest = n
  BY FirstPush DEF IsTopNode
<1>2. ~IsNewLevel(w, n) /\ w \in WriterType
  BY DEF Fresh, IsNewLevel
<1>3. PtrAfter(w, n) = Nil /\ w.curShort = 0 /\ w.maxShort = 0
  BY <1>2, Zenon DEF PtrAfter, NothingCounted
<1>4. CutsCounted(w, {}) /\ ArcsCounted({}, LevelOf(n.uid), Nil, 0, 0)
  BY NothingIsCounted
<1>5. ArcsCounted({}, LevelOf(n.uid), PtrAfter(w, n),
                  IF IsNewLevel(w, n) THEN 0 ELSE w.curShort,
                  IF IsNewLevel(w, n) THEN Bigger(w.maxShort, w.curShort) ELSE w.maxShort)
  BY <1>2, <1>3, <1>4, Zenon
<1>6. /\ CutsCounted(Push(w, n), {} \cup {n})
      /\ ArcsCounted({} \cup {n}, LevelOf(n.uid), Push(w, n).longPtr, Push(w, n).curShort,
                     Push(w, n).maxShort)
  BY <1>2, <1>4, <1>5, PushCounts, Zenon
<1>7. {} \cup {n} = {n}
  OBVIOUS
<1> QED BY <1>1, <1>6, <1>7, Zenon DEF CutAccount

LEMMA NextPushCounts ==
    ASSUME NEW w, Filled(w), CutAccount(w), NEW n, IsTopNode(n, NodesOf(w.file))
    PROVE  CutAccount(Push(w, n))
<1> DEFINE N == NodesOf(w.file)
           L == LevelOf(w.latest.uid)
           K == LevelOf(n.uid)
<1>1. /\ w \in WriterType /\ w.latest \in N /\ HoldsDiagram(N) /\ CutsCounted(w, N)
      /\ ArcsCounted(N, L, w.longPtr, w.curShort, w.maxShort)
      /\ n.uid < w.latest.uid /\ IsInner(n)
  BY DEF Filled, CutAccount, CutsCounted, IsTopNode
<1>2. NodesOf(Push(w, n).file) = N \cup {n} /\ Push(w, n).latest = n
  BY <1>1, NextPush
<1>3. /\ \A m \in N : LevelOf(m.uid) \in Nat /\ K <= LevelOf(m.uid) /\ IsInner(m) /\ m.uid \in Nat
      /\ K \in Nat
  <2>1. n \in N \cup {n} /\ HoldsDiagram(N \cup {n}) /\ \A m \in N : K <= LevelOf(m.uid)
    BY <1>1, DiagramGrows
  <2>2. \A m \in N \cup {n} : LevelOf(m.uid) \in Nat /\ m.uid \in Nat /\ IsInner(m)
    BY <2>1, NodesHaveLevels DEF HoldsDiagram, HoldsNodes
  <2> QED BY <2>1, <2>2
<1>4. IsNewLevel(w, n) <=> K # L
  BY <1>1, <1>3, InnerIs DEF IsNewLevel
<1>5. \A m \in N : L <= LevelOf(m.uid)
  <2> SUFFICES ASSUME NEW m \in N PROVE L <= LevelOf(m.uid)
    OBVIOUS
  <2>1. m = w.latest \/ w.latest.uid < m.uid
    BY <1>1, <1>3 DEF Filled
  <2> QED BY <1>1, <1>3, <2>1, SmallerIsAbove
<1>6. ArcsCounted(N, K, PtrAfter(w, n),
                  IF IsNewLevel(w, n) THEN 0 ELSE w.curShort,
                  IF IsNewLevel(w, n) THEN Bigger(w.maxShort, w.curShort) ELSE w.maxShort)
  <2>1. CASE K = L
    <3>1. ~IsNewLevel(w, n) /\ PtrAfter(w, n) = w.longPtr
      BY <1>4, <2>1, Zenon DEF PtrAfter
    <3> QED BY <1>1, <2>1, <3>1, Zenon
  <2>2. CASE K # L
    <3>1. IsNewLevel(w, n) /\ PtrAfter(w, n) = Uid(L, MaxId)
      BY <1>4, <2>2, Zenon DEF PtrAfter
    <3>2. K < L
      BY <1>1, <1>3, <2>2
    <3>3. ArcsCounted(N, K, Uid(L, MaxId), 0, Bigger(w.maxShort, w.curShort))
      BY <1>1, <1>3, <1>5, <3>2, CommitCounts
    <3> QED BY <3>1, <3>3, Zenon
  <2> QED BY <2>1, <2>2
<1>7. /\ CutsCounted(Push(w, n), N \cup {n})
      /\ ArcsCounted(N \cup {n}, K, Push(w, n).longPtr, Push(w, n).curShort, Push(w, n).maxShort)
  BY <1>1, <1>6, PushCounts, Zenon
<1> QED BY <1>2, <1>7, Zenon DEF CutAccount

-----------------------------------------------------------------------------
(* Closing                                                                 *)

(* No more nodes than there are uids.                                      *)
LEMMA NodesAreFew ==
    ASSUME NEW N, HoldsDiagram(N)
    PROVE  Cardinality(N) \in Nat /\ Cardinality(N) <= Levels * (MaxId + 1)
<1> DEFINE k == MaxId + 1
           place(n) == LevelOf(n.uid) * k + IdOf(n.uid)
           f == [n \in N |-> place(n)]
<1>1. k \in Nat /\ MaxId \in Nat /\ Levels \in Nat
  BY DiagramAssumption
<1>2. PICK c \in Nat : c = Levels * k
  BY <1>1
<1>3. IsFiniteSet(N) /\ \A n \in N : IsInner(n)
  BY DEF HoldsDiagram, HoldsNodes
<1>4. ASSUME NEW n \in N
      PROVE  place(n) \in 0 .. c - 1 /\ n.uid = 4 * place(n)
  <2>1. PICK l \in Level, i \in 0 .. MaxId : n.uid = Uid(l, i)
    BY <1>3 DEF IsInner
  <2>2. l \in Nat /\ l + 1 <= Levels /\ l + 1 \in Nat
    BY <1>1, <2>1 DEF Level
  <2>3. LevelOf(n.uid) = l /\ IdOf(n.uid) = i
    BY <2>1, <2>2, UidIs
  <2>4. (l + 1) * k <= Levels * k
    BY <1>1, <2>2, MultiplesAreOrdered
  <2>5. PICK b \in Nat : b = l * k
    BY <1>1, <2>2
  <2>6. (l + 1) * k = b + k
    BY <1>1, <2>2, <2>5
  <2>7. place(n) = b + i
    BY <2>3, <2>5
  <2>8. b + k <= c
    BY <1>2, <2>4, <2>6
  <2>9. n.uid = 4 * (b + i)
    BY <2>1, <2>5 DEF Uid
  <2> HIDE DEF place
  <2> QED BY <1>1, <2>7, <2>8, <2>9
<1>5. f \in Injection(N, 0 .. c - 1)
  <2>1. f \in [N -> 0 .. c - 1]
    BY <1>4
  <2>2. \A m, n \in N : f[m] = f[n] => m = n
    <3> SUFFICES ASSUME NEW m \in N, NEW n \in N, f[m] = f[n] PROVE m = n
      OBVIOUS
    <3>1. place(m) = place(n)
      OBVIOUS
    <3>2. m.uid = 4 * place(m) /\ n.uid = 4 * place(n)
      BY <1>4
    <3> HIDE DEF place, f
    <3>3. m.uid = n.uid
      BY <3>1, <3>2, Zenon
    <3> QED BY <3>3 DEF HoldsDiagram
  <2> HIDE DEF f
  <2> QED BY <2>1, <2>2, Zenon DEF Injection, IsInjective
<1>6. IsFiniteSet(0 .. c - 1) /\ Cardinality(0 .. c - 1) = c
  <2>1. PICK d \in Int : d = c - 1
    BY <1>2
  <2>2. IsFiniteSet(0 .. d) /\ Cardinality(0 .. d) = IF 0 > d THEN 0 ELSE d - 0 + 1
    BY FS_Interval
  <2> QED BY <1>2, <2>1, <2>2
<1> HIDE DEF f
<1>7. Cardinality(N) <= Cardinality(0 .. c - 1)
  BY <1>5, <1>6, FS_Injection, Zenon
<1>8. Cardinality(N) \in Nat
  BY <1>3, FS_CardinalityType
<1> QED BY <1>2, <1>6, <1>7, <1>8

(* A sequence without repetitions counts the set of its elements.          *)
LEMMA CountedByIndex ==
    ASSUME NEW m \in Nat, NEW T, IsFiniteSet(T), NEW f \in [1 .. m -> T],
           \A t \in T : \E i \in 1 .. m : f[i] = t,
           \A i, j \in 1 .. m : i < j => f[i] # f[j]
    PROVE  Cardinality(T) = m
<1>1. ASSUME NEW i \in 1 .. m, NEW j \in 1 .. m, f[i] = f[j]
      PROVE  i = j
  <2>1. ~(i < j) /\ ~(j < i)
    BY <1>1
  <2> QED BY <2>1
<1>2. f \in Injection(1 .. m, T) /\ f \in Surjection(1 .. m, T)
  BY <1>1, Zenon DEF Injection, IsInjective, Surjection
<1>3. Cardinality(1 .. m) = Cardinality(T)
  BY <1>2, FS_Injection, Zenon
<1>4. Cardinality(1 .. m) = m
  <2>1. Cardinality(1 .. m) = IF 1 > m THEN 0 ELSE m - 1 + 1
    BY FS_Interval
  <2> QED BY <2>1
<1> QED BY <1>3, <1>4

LEMMA NodesAreCounted ==
    ASSUME NEW f \in FileType, HoldsNodes(NodesOf(f)), UidsFall(f.nodes)
    PROVE  Count(f) = Cardinality(NodesOf(f))
<1>1. PICK s \in Seq(NodeRecord) : s = f.nodes
  BY DEF FileType
<1>2. PICK m \in Nat : m = Len(s)
  BY LenProperties
<1>3. DOMAIN s = 1 .. m /\ \A i \in 1 .. m : s[i] \in NodeRecord
  BY <1>2, LenProperties, ElementOfSeq
<1>4. NodesOf(f) = {s[i] : i \in 1 .. m}
  BY <1>1, <1>3 DEF NodesOf
<1>5. ASSUME NEW i \in 1 .. m, NEW j \in 1 .. m, i < j
      PROVE  s[i] # s[j]
  <2>1. s[i].uid > s[j].uid /\ s[i].uid \in Nat /\ s[j].uid \in Nat
    BY <1>1, <1>3, <1>5 DEF UidsFall, NodeRecord
  <2> QED BY <2>1
<1>6. s \in [1 .. m -> NodesOf(f)] /\ \A n \in NodesOf(f) : \E i \in 1 .. m : s[i] = n
  BY <1>1, <1>2, <1>3, <1>4
<1>7. Cardinality(NodesOf(f)) = m
  BY <1>5, <1>6, CountedByIndex DEF HoldsNodes
<1> QED BY <1>1, <1>2, <1>7 DEF Count

LEMMA LevelsAreCounted ==
    ASSUME NEW s, NEW N, HoldsNodes(N), LevelsMatch(s, N, LevelsIn(N))
    PROVE  Len(s) = Cardinality(LevelsIn(N))
<1>1. s \in Seq(LevelRecord)
  BY DEF LevelsMatch
<1>2. PICK m \in Nat : m = Len(s)
  BY <1>1, LenProperties
<1>3. DOMAIN s = 1 .. m /\ \A i \in 1 .. m : s[i] \in LevelRecord
  BY <1>1, <1>2, LenProperties, ElementOfSeq
<1>4. PICK f : f = [i \in 1 .. m |-> s[i].level]
  OBVIOUS
<1>5. \A i \in 1 .. m : f[i] = s[i].level /\ f[i] \in Nat
  BY <1>3, <1>4 DEF LevelRecord
<1>6. \A i \in 1 .. m : \E l \in LevelsIn(N) : s[i] = [level |-> l, width |-> Width(N, l)]
  BY <1>3 DEF LevelsMatch
<1>7. f \in [1 .. m -> LevelsIn(N)]
  <2>1. ASSUME NEW i \in 1 .. m
        PROVE  s[i].level \in LevelsIn(N)
    <3>1. PICK l \in LevelsIn(N) : s[i] = [level |-> l, width |-> Width(N, l)]
      BY <1>6
    <3>2. s[i].level = l
      BY <3>1
    <3> QED BY <3>2
  <2> QED BY <1>4, <2>1
<1>8. ASSUME NEW l \in LevelsIn(N)
      PROVE  \E i \in 1 .. m : f[i] = l
  <2>1. \E i \in 1 .. m : s[i] = [level |-> l, width |-> Width(N, l)]
    BY <1>3 DEF LevelsMatch
  <2> QED BY <1>5, <2>1
<1>9. \A i, j \in 1 .. m : i < j => f[i] # f[j]
  <2> SUFFICES ASSUME NEW i \in 1 .. m, NEW j \in 1 .. m, i < j PROVE f[i] # f[j]
    OBVIOUS
  <2>1. s[i].level > s[j].level
    BY <1>3 DEF LevelsMatch
  <2>2. f[i] > f[j] /\ f[i] \in Nat /\ f[j] \in Nat
    BY <1>5, <2>1
  <2> QED BY <2>2
<1>10. IsFiniteSet(LevelsIn(N))
  <2>1. LevelsIn(N) \subseteq 0 .. Levels
    BY NodesHaveLevels, DiagramAssumption DEF LevelsIn
  <2>2. Levels \in Int /\ 0 \in Int
    BY DiagramAssumption
  <2>3. IsFiniteSet(0 .. Levels)
    BY <2>2, FS_Interval, Zenon
  <2> QED BY <2>1, <2>3, PartsAreFewer, Zenon
<1>11. Cardinality(LevelsIn(N)) = m
  BY <1>7, <1>8, <1>9, <1>10, CountedByIndex
<1> QED BY <1>2, <1>11

(* What the writer makes of its file before the cuts are capped.           *)
ShortAtMost(w) == Bigger(w.maxShort, w.curShort)

LEMMA ClosedFileIs ==
    ASSUME NEW w \in WriterType, w.open, w.latest # Dummy, ~IsTerminal(w.latest.uid),
           \A v \in BOOLEAN : w.atBottom[v] <= w.file.terminals[v]
    PROVE  \E f \in FileType :
              /\ Closed(w).file = Fixup(f)
              /\ f.nodes = w.file.nodes /\ f.terminals = w.file.terminals
              /\ f.levels = Append(w.file.levels,
                                   [level |-> LevelOf(w.latest.uid), width |-> w.levelSize])
              /\ f.cut2 = w.file.cut2
              /\ \A k \in CutKinds :
                    f.cut1[k] = Bigger(ShortAtMost(w) + w.long + AboveBottom(w, k), InFile(w, k))
<1>1. PICK l \in Nat, n \in Nat : l = LevelOf(w.latest.uid) /\ n = w.levelSize
  BY LevelsOfUids DEF WriterType, NodeRecord
<1>2. PICK p \in WriterType : p = UnsafePushLevel(w, l, n)
  BY UnsafePushLevelIs
<1>3. /\ p.file.nodes = w.file.nodes /\ p.file.terminals = w.file.terminals
      /\ p.file.levels = Append(w.file.levels, [level |-> l, width |-> n])
      /\ p.file.cut2 = w.file.cut2 /\ CountAlike(p, w)
  BY <1>2, UnsafePushLevelIs, SMTT(30)
<1>4. Closed(w) = [WithCut1(p) EXCEPT !.open = FALSE, !.file = Fixup(WithCut1(p).file)]
  BY <1>1, <1>2, Zenon DEF Closed, LevelCommitted
<1>5. /\ Bigger(p.maxShort, p.curShort) = ShortAtMost(w) /\ p.long = w.long
      /\ \A k : AboveBottom(p, k) = AboveBottom(w, k) /\ InFile(p, k) = InFile(w, k)
  BY <1>3, Zenon DEF CountAlike, ShortAtMost, AboveBottom, InFile
<1>6. PICK c : c = [k \in CutKinds |->
                      Bigger(ShortAtMost(w) + w.long + AboveBottom(w, k), InFile(w, k))]
  OBVIOUS
<1>7. PICK g : g = [p.file EXCEPT !.cut1 = c]
  OBVIOUS
<1>8. WithCut1(p) = [p EXCEPT !.levelSize = 0, !.maxShort = ShortAtMost(w), !.file = g]
  BY <1>5, <1>6, <1>7, Zenon DEF WithCut1
<1>9. ShortAtMost(w) \in Nat /\ w.long \in Nat
  BY BiggerIs DEF WriterType, ShortAtMost
<1>10. ASSUME NEW k \in CutKinds
       PROVE  AboveBottom(w, k) \in Nat /\ InFile(w, k) \in Nat
  <2>1. PICK t \in Nat, u \in Nat, a \in Nat, b \in Nat :
          /\ t = w.file.terminals[TRUE] /\ u = w.file.terminals[FALSE]
          /\ a = w.atBottom[TRUE] /\ b = w.atBottom[FALSE] /\ a <= t /\ b <= u
    BY DEF WriterType, FileType
  <2>2. PICK x \in Nat, y \in Nat : x = t - a /\ y = u - b
    <3>1. a <= t /\ b <= u
      BY <2>1
    <3>2. t - a \in Nat /\ u - b \in Nat
      BY <3>1
    <3> QED BY <3>2
  <2>3. AboveBottom(w, k) = OfKind(k, y, x) /\ InFile(w, k) = OfKind(k, u, t)
    BY <2>1, <2>2, Zenon DEF AboveBottom, InFile, OfKind
  <2> QED BY <2>3, OfKindIs
<1>11. c \in [CutKinds -> Nat]
  <2>1. ASSUME NEW k \in CutKinds
        PROVE  Bigger(ShortAtMost(w) + w.long + AboveBottom(w, k), InFile(w, k)) \in Nat
    <3>1. ShortAtMost(w) + w.long + AboveBottom(w, k) \in Nat
      BY <1>9, <1>10
    <3> QED BY <1>10, <3>1, BiggerIs
  <2> QED BY <1>6, <2>1
<1>12. /\ g \in FileType /\ g.nodes = p.file.nodes /\ g.terminals = p.file.terminals
       /\ g.levels = p.file.levels /\ g.cut2 = p.file.cut2 /\ g.cut1 = c
  <2>1. p.file \in FileType
    BY DEF WriterType
  <2> QED BY <1>7, <1>11, <2>1 DEF FileType
<1>13. PICK x : x = WithCut1(p)
  OBVIOUS
<1>14. x.file = g /\ "file" \in DOMAIN x
  BY <1>8, <1>13 DEF WriterType
<1>15. Closed(w).file = Fixup(g)
  BY <1>4, <1>13, <1>14
<1> QED BY <1>1, <1>3, <1>6, <1>12, <1>15

(* Committing the last level accounts for all of them.                     *)
LEMMA LastLevelMatches ==
    ASSUME NEW w, Filled(w)
    PROVE  LevelsMatch(Append(w.file.levels,
                              [level |-> LevelOf(w.latest.uid), width |-> w.levelSize]),
                       NodesOf(w.file), LevelsIn(NodesOf(w.file)))
<1> DEFINE N == NodesOf(w.file)
           H == LevelsIn(N)
           L == LevelOf(w.latest.uid)
<1>1. w \in WriterType /\ HoldsNodes(N) /\ w.latest \in N
  BY DEF Filled
<1>2. L \in H /\ w.levelSize = Width(N, L)
  BY <1>1 DEF LevelsIn, Filled
<1>3. \A l \in H : l \in Nat /\ L <= l
  <2> SUFFICES ASSUME NEW m \in N PROVE LevelOf(m.uid) \in Nat /\ L <= LevelOf(m.uid)
    BY DEF LevelsIn
  <2>1. /\ IsInner(m) /\ IsInner(w.latest) /\ LevelOf(m.uid) \in Nat
        /\ m.uid \in Nat /\ w.latest.uid \in Nat
    BY <1>1, NodesHaveLevels DEF HoldsNodes
  <2>2. m = w.latest \/ w.latest.uid < m.uid
    BY <2>1 DEF Filled
  <2> QED BY <2>1, <2>2, SmallerIsAbove
<1>4. LevelsMatch(w.file.levels, N, H \ {L}) /\ WidthIs(w.file.width, N, H \ {L})
  BY DEF Filled, Committed
<1>5. L \in Nat /\ H \ {L} \in SUBSET Nat /\ \A k \in H \ {L} : L < k
  BY <1>2, <1>3
<1>6. LevelsMatch(Append(w.file.levels, [level |-> L, width |-> Width(N, L)]), N, (H \ {L}) \cup {L})
  BY <1>1, <1>4, <1>5, AccountGrows, Zenon
<1>7. (H \ {L}) \cup {L} = H
  BY <1>2
<1> QED BY <1>2, <1>6, <1>7

(* Above the bottom are the terminal arcs that are not at the bottom.      *)
LEMMA AboveBottomIs ==
    ASSUME NEW w \in WriterType, NEW N, IsFiniteSet(N), NEW k,
           \A v \in BOOLEAN : w.file.terminals[v] = ArcsTo(N, v),
           \A v \in BOOLEAN : w.atBottom[v] = ArcsTo(Bottom(N), v)
    PROVE  /\ \A v \in BOOLEAN : w.atBottom[v] <= w.file.terminals[v]
           /\ AboveBottom(w, k) = ToTerminals(N \ Bottom(N), k)
           /\ InFile(w, k) = ToTerminals(N, k)
           /\ AboveBottom(w, k) \in Nat /\ InFile(w, k) \in Nat
<1> DEFINE B == Bottom(N)
           R == N \ B
<1>1. B \subseteq N /\ R \subseteq N /\ B \cap R = {} /\ B \cup R = N
  BY DEF Bottom
<1>2. IsFiniteSet(B) /\ IsFiniteSet(R)
  BY <1>1, PartsAreFewer, Zenon
<1> HIDE DEF B, R
<1>3. ASSUME NEW v \in BOOLEAN
      PROVE  /\ ArcsTo(B, v) \in Nat /\ ArcsTo(R, v) \in Nat
             /\ ArcsTo(N, v) = ArcsTo(B, v) + ArcsTo(R, v)
  <2>1. /\ ArcsTo(B, v) \in Nat /\ ArcsTo(R, v) \in Nat
        /\ ArcsTo(B \cup R, v) = ArcsTo(B, v) + ArcsTo(R, v)
    BY <1>1, <1>2, SlotsAdd
  <2> QED BY <1>1, <2>1
<1>4. \A v \in BOOLEAN : /\ w.file.terminals[v] - w.atBottom[v] = ArcsTo(R, v)
                         /\ w.atBottom[v] <= w.file.terminals[v]
  <2> SUFFICES ASSUME NEW v \in BOOLEAN
               PROVE  /\ w.file.terminals[v] - w.atBottom[v] = ArcsTo(R, v)
                      /\ w.atBottom[v] <= w.file.terminals[v]
    OBVIOUS
  <2>1. PICK b \in Nat, r \in Nat : b = ArcsTo(B, v) /\ r = ArcsTo(R, v)
    BY <1>3
  <2>2. w.file.terminals[v] = b + r /\ w.atBottom[v] = b
    BY <1>3, <2>1 DEF B
  <2> QED BY <2>1, <2>2
<1>5. AboveBottom(w, k) = ToTerminals(R, k)
  BY <1>4, Zenon DEF AboveBottom, ToTerminals, OfKind
<1>6. InFile(w, k) = ToTerminals(N, k)
  BY Zenon DEF InFile, ToTerminals, OfKind
<1>7. ToTerminals(R, k) \in Nat /\ ToTerminals(N, k) \in Nat
  BY <1>1, TerminalsAreFewer
<1> QED BY <1>4, <1>5, <1>6, <1>7 DEF R, B

LEMMA ClosedCutsAreSound ==
    ASSUME NEW w, Filled(w), CutAccount(w), w.open, NEW r, HasRoot(NodesOf(w.file), r)
    PROVE  CutsAreBounds(Closed(w).file)
<1> DEFINE N == NodesOf(w.file)
           L == LevelOf(w.latest.uid)
           s == ShortAtMost(w)
<1>1. /\ w \in WriterType /\ HoldsNodes(N) /\ IsFiniteSet(N) /\ w.latest \in N
      /\ HoldsDiagram(N) /\ CutsCounted(w, N)
      /\ ArcsCounted(N, L, w.longPtr, w.curShort, w.maxShort)
  BY DEF Filled, CutAccount, CutsCounted, HoldsNodes
<1>2. w.latest # Dummy /\ ~IsTerminal(w.latest.uid)
  BY <1>1, InnerIs DEF HoldsNodes
<1>3. /\ \A v \in BOOLEAN : w.file.terminals[v] = ArcsTo(N, v)
      /\ \A v \in BOOLEAN : w.atBottom[v] = ArcsTo(Bottom(N), v)
  BY <1>1 DEF Filled, CutsCounted
<1>4. /\ \A v \in BOOLEAN : w.atBottom[v] <= w.file.terminals[v]
      /\ \A k : /\ AboveBottom(w, k) = ToTerminals(N \ Bottom(N), k)
                /\ InFile(w, k) = ToTerminals(N, k)
                /\ AboveBottom(w, k) \in Nat /\ InFile(w, k) \in Nat
  BY <1>1, <1>3, AboveBottomIs
<1>5. PICK f \in FileType :
        /\ Closed(w).file = Fixup(f)
        /\ f.nodes = w.file.nodes /\ f.terminals = w.file.terminals
        /\ f.levels = Append(w.file.levels, [level |-> L, width |-> w.levelSize])
        /\ f.cut2 = w.file.cut2
        /\ \A k \in CutKinds :
              f.cut1[k] = Bigger(s + w.long + AboveBottom(w, k), InFile(w, k))
  BY <1>1, <1>2, <1>4, ClosedFileIs
<1>6. NodesOf(f) = N
  BY <1>5 DEF NodesOf
<1>7. /\ s \in Nat /\ w.maxShort <= s /\ w.curShort <= s
      /\ w.maxShort \in Nat /\ w.curShort \in Nat
  <2>1. w.maxShort \in Nat /\ w.curShort \in Nat
    BY <1>1 DEF WriterType
  <2> QED BY <2>1, BiggerIs DEF ShortAtMost
<1>8. \A j \in LevelsIn(N) : Cardinality(ShortArcs(N, j)) <= s
  <2> SUFFICES ASSUME NEW j \in LevelsIn(N) PROVE Cardinality(ShortArcs(N, j)) <= s
    OBVIOUS
  <2>1. Cardinality(ShortArcs(N, j)) \in Nat
    BY <1>1, ArcsOfKindAre
  <2>2. Cardinality(ShortArcs(N, j)) <= w.maxShort \/ Cardinality(ShortArcs(N, j)) <= w.curShort
    <3>1. CASE j = L
      BY <1>1, <1>7, <3>1 DEF ArcsCounted
    <3>2. CASE j # L
      BY <1>1, <3>2 DEF ArcsCounted
    <3> QED BY <3>1, <3>2
  <2> HIDE DEF s
  <2> QED BY <1>7, <2>1, <2>2
<1>9. Count(f) = Cardinality(N) /\ Cardinality(N) \in Nat /\ Count(f) < CutMax
  <2>1. UidsFall(f.nodes)
    BY <1>5 DEF Filled
  <2>2. Count(f) = Cardinality(N)
    BY <1>1, <1>6, <2>1, NodesAreCounted
  <2>3. Cardinality(N) \in Nat /\ Cardinality(N) <= Levels * (MaxId + 1)
    BY <1>1, NodesAreFew
  <2>4. PICK c \in Nat : c = Levels * (MaxId + 1)
    BY DiagramAssumption
  <2>5. c < CutMax /\ CutMax \in Nat
    BY <2>4, CutAssumption
  <2> QED BY <2>2, <2>3, <2>4, <2>5
<1>10. Len(f.levels) = Cardinality(LevelsIn(N))
  <2>1. LevelsMatch(f.levels, N, LevelsIn(N))
    BY <1>1, <1>5, LastLevelMatches
  <2> QED BY <1>1, <2>1, LevelsAreCounted
<1>11. w.long = Cardinality(LongArcs(N)) /\ w.long \in Nat
  BY <1>1, ArcsOfKindAre DEF CutsCounted
<1> HIDE DEF s, N
<1>12. ASSUME NEW k \in CutKinds, NEW l \in Nat, Above(N, l) # {}
       PROVE  Cardinality(Across(Above(N, l), k)) <= f.cut1[k]
  <2>1. PICK a \in Nat, b \in Nat :
          a = ToTerminals(N \ Bottom(N), k) /\ b = ToTerminals(N, k)
    BY <1>4
  <2>2. PICK x \in Nat : x = s + w.long + a
    BY <1>7, <1>11
  <2>3. f.cut1[k] = Bigger(x, b)
    BY <1>4, <1>5, <2>1, <2>2, Zenon
  <2>4. PICK y \in Nat : y = f.cut1[k] /\ y >= x /\ y >= b
    BY <2>2, <2>3, BiggerIs
  <2> QED BY <1>1, <1>7, <1>8, <1>11, <1>12, <2>1, <2>2, <2>4, OneLevelCutsAreWithin
<1>13. BoundsCuts(f)
  BY <1>1, <1>5, <1>6, <1>12 DEF BoundsCuts, CutsCounted
<1>14. CutsAreBounds(Fixup(f))
  <2>1. \A v \in BOOLEAN : f.terminals[v] = ArcsTo(N, v)
    BY <1>3, <1>5 DEF N
  <2>2. HasRoot(N, r) /\ HoldsDiagram(N)
    BY <1>1 DEF N
  <2> QED BY <1>6, <1>9, <1>10, <1>13, <2>1, <2>2, FixupIsSound
<1> QED BY <1>5, <1>14

LEMMA TheRoot ==
    ASSUME NEW N, Cardinality(Roots(N)) = 1, IsFiniteSet(N)
    PROVE  \E r : HasRoot(N, r)
<1>1. IsFiniteSet(Roots(N))
  BY PartsAreFewer, Roots(N) \subseteq N, Zenon DEF Roots
<1>2. PICK r : Roots(N) = {r}
  BY <1>1, FS_Singleton, Zenon
<1>3. r \in N
  BY <1>2 DEF Roots
<1>4. ASSUME NEW n \in N \ {r}
      PROVE  \E a \in SidesIn(N) : EndOf(a) = n.uid
  <2>1. n \notin Roots(N)
    BY <1>2
  <2>2. PICK m \in N : n.uid = m.low \/ n.uid = m.high
    BY <2>1 DEF Roots, Targets
  <2>3. <<m, "low">> \in SidesIn(N) /\ <<m, "high">> \in SidesIn(N)
    BY DEF SidesIn, Sides
  <2>4. EndOf(<<m, "low">>) = m.low /\ EndOf(<<m, "high">>) = m.high
    BY DEF EndOf
  <2> QED BY <2>2, <2>3, <2>4
<1> QED BY <1>3, <1>4, Zenon DEF HasRoot

LEMMA DummyIsInner ==
    /\ ~IsTerminal(Dummy.uid)
    /\ \A v \in BOOLEAN : TerminalNode(v) # Dummy
<1>1. 0 \in Level /\ 0 \in 0 .. MaxId
  BY DiagramAssumption DEF Level
<1>2. ~IsTerminal(Dummy.uid)
  BY <1>1, PointersAre, DummyIs
<1> QED BY <1>2, TerminalIs

(* A writer is in one of its states only.                                  *)
LEMMA WritersDiffer ==
    ASSUME NEW x
    PROVE  ~(Fresh(x) /\ Filled(x)) /\ ~(OneTerminal(x) /\ (Fresh(x) \/ Filled(x)))
<1>1. Filled(x) => IsInner(x.latest)
  BY DEF Filled, HoldsNodes
<1>2. Fresh(x) => x.latest = Dummy
  BY DEF Fresh
<1>3. OneTerminal(x) => \E v \in BOOLEAN : x.latest = TerminalNode(v)
  BY DEF OneTerminal
<1>4. ~IsTerminal(Dummy.uid) /\ \A v \in BOOLEAN : IsTerminal(TerminalNode(v).uid)
  BY DummyIsInner, TerminalIs
<1> QED BY <1>1, <1>2, <1>3, <1>4, InnerIs
=============================================================================
