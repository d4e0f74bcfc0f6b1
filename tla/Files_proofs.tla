---------------------------- MODULE Files_proofs ----------------------------
(***************************************************************************)
(* Proofs about the files of diagrams, for any number of diagrams, files,  *)
(* handles, prefixes and failed moves: the parts of a diagram stay in      *)
(* step, nothing is leaked, the diagrams in memory and on disk are those   *)
(* of DiagramStore, and a reader is a Cursor.                              *)
(***************************************************************************)
EXTENDS Files, FiniteSetTheorems, SequenceTheorems, TLAPS

-----------------------------------------------------------------------------
(* The inductive invariant.  StoreInv is about the objects and the disk    *)
(* alone, UsersInv about the handles and streams.                          *)

Path == (Objects \cup PathPrefixes) \X Parts

File == [path : [Parts -> Path], persistent : [Parts -> BOOLEAN], canonical_paths : BOOLEAN]

IsDisk(contents) ==
    /\ contents \in [DOMAIN contents -> Seq(Elements)]
    /\ DOMAIN contents \subseteq Path
    /\ IsFiniteSet(DOMAIN contents)

StoreTypeOK ==
    /\ IsDisk(disk)
    /\ DOMAIN object \subseteq Objects
    /\ object \in [DOMAIN object -> File]
    /\ failures \in Nat

UsersTypeOK ==
    /\ handle \in [Handles -> Objects \cup {Nothing}]
    /\ writer \in [file_ptr : Objects \cup {Nothing}, open : BOOLEAN]
    /\ reader \in [file_ptr : Objects \cup {Nothing}, part : Parts, Reverse : BOOLEAN,
                   offset : Nat, peeked : Seq(Elements), pulled : Elements \cup {Nothing}]

(* A path is the object's own temporary one, or canonical for some prefix. *)
PathsAreNamed ==
    \A o \in DOMAIN object, i \in Parts :
        \/ object[o].path[i] = TemporaryPath(o, i)
        \/ \E p \in PathPrefixes : object[o].path[i] = Canonical(p, i)

(* Only persistent files are shared on disk.                               *)
PathsAreOwn ==
    \A o, q \in DOMAIN object, i, j \in Parts :
        o # q /\ object[o].path[i] = object[q].path[j] => IsPersistent(o) /\ IsPersistent(q)

(* canonical_paths tells that all parts are at one prefix, as they are for *)
(* what is persistent, which also is on disk.                              *)
CanonicalIsMeant ==
    \A o \in DOMAIN object :
        /\ IsPersistent(o) => object[o].canonical_paths /\ FileExists(o)
        /\ object[o].canonical_paths =>
               \E p \in PathPrefixes : \A i \in Parts : object[o].path[i] = Canonical(p, i)

(* A temporary path is on disk only for the object it belongs to.          *)
TemporariesAreUsed ==
    \A o \in Objects, i \in Parts :
        Exists(TemporaryPath(o, i)) => o \in DOMAIN object /\ object[o].path[i] = TemporaryPath(o, i)

(* An object lives exactly as long as it is referenced.                    *)
LivesWhileReferenced == \A o \in Objects : o \in DOMAIN object <=> IsReferenced(o)

(* Who writes a file is alone with it, and its parts are on disk.          *)
WriterIsAlone ==
    writer.open => /\ writer.file_ptr \in DOMAIN object
                   /\ ~IsPersistent(writer.file_ptr) /\ FileExists(writer.file_ptr)
                   /\ reader.file_ptr # writer.file_ptr

ReaderIsInside ==
    IF reader.file_ptr = Nothing THEN reader.peeked = <<>> /\ reader.pulled = Nothing
    ELSE /\ FileExists(reader.file_ptr)
         /\ reader.offset <= Len(FileOf(reader)) /\ Len(reader.peeked) <= 1

StoreInv ==
    /\ StoreTypeOK
    /\ PathsAreNamed
    /\ PathsAreOwn
    /\ CanonicalIsMeant
    /\ TemporariesAreUsed
    /\ PartsAreInStep

UsersInv ==
    /\ UsersTypeOK
    /\ LivesWhileReferenced
    /\ WriterIsAlone
    /\ ReaderIsInside

FilesInv == StoreInv /\ UsersInv

-----------------------------------------------------------------------------
(* Maps and paths                                                          *)

LEMMA PathIs ==
    ASSUME NEW x, NEW i
    PROVE  /\ Canonical(x, i) = <<x, i>> /\ TemporaryPath(x, i) = <<x, i>>
           /\ Canonical(x, i)[1] = x /\ Canonical(x, i)[2] = i
           /\ \A y, j : Canonical(x, i) = Canonical(y, j) => x = y /\ i = j
           /\ \A y, j : TemporaryPath(x, i) = TemporaryPath(y, j) => x = y /\ i = j
BY DEF Canonical, TemporaryPath

LEMMA NamesDiffer ==
    ASSUME NEW o \in Objects, NEW p \in PathPrefixes, NEW i, NEW j
    PROVE  TemporaryPath(o, i) # Canonical(p, j)
BY NamesAssumption DEF Canonical, TemporaryPath

LEMMA PathsAreTyped ==
    /\ LevelInfo \in Parts /\ 0 \in Parts /\ LevelInfo # 0
    /\ \A o \in Objects, i \in Parts : TemporaryPath(o, i) \in Path
    /\ \A p \in PathPrefixes, i \in Parts : Canonical(p, i) \in Path
    /\ IsFiniteSet(Parts)
<1>1. IsFiniteSet(0 .. FILES)
  BY FilesAssumption, FS_Interval
<1> QED BY <1>1, FilesAssumption DEF LevelInfo, Parts, TemporaryPath, Canonical, Path

LEMMA ObjectIsFile ==
    ASSUME StoreTypeOK, NEW o \in DOMAIN object
    PROVE  /\ o \in Objects /\ object[o] \in File /\ o # Nothing
           /\ \A i \in Parts : object[o].path[i] \in Path
BY NamesAssumption DEF StoreTypeOK, File

-----------------------------------------------------------------------------
(* What changes one object, or adds one                                    *)

LEMMA StoreChange ==
    ASSUME StoreInv, NEW o \in Objects, NEW f \in File,
           DOMAIN object' = DOMAIN object \cup {o},
           object' \in [DOMAIN object' -> File], object'[o] = f,
           \A q \in DOMAIN object : q # o => object'[q] = object[q],
           IsDisk(disk'), failures' \in Nat,
           \A i \in Parts : \/ f.path[i] = TemporaryPath(o, i)
                            \/ \E p \in PathPrefixes : f.path[i] = Canonical(p, i),
           \A q \in DOMAIN object, i, j \in Parts :
               q # o /\ f.path[i] = object[q].path[j] =>
                   f.persistent[LevelInfo] /\ IsPersistent(q),
           \A q \in DOMAIN object, i \in Parts :
               q # o => (object[q].path[i] \in DOMAIN disk' <=> Exists(object[q].path[i])),
           \A q \in Objects, i \in Parts :
               TemporaryPath(q, i) \in DOMAIN disk' =>
                   IF q = o THEN f.path[i] = TemporaryPath(o, i)
                   ELSE Exists(TemporaryPath(q, i)),
           \A i \in Parts : /\ f.persistent[i] = f.persistent[LevelInfo]
                            /\ f.path[i] \in DOMAIN disk' <=> f.path[LevelInfo] \in DOMAIN disk',
           f.persistent[LevelInfo] => f.canonical_paths /\ f.path[LevelInfo] \in DOMAIN disk',
           f.canonical_paths => \E p \in PathPrefixes : \A i \in Parts : f.path[i] = Canonical(p, i)
    PROVE  StoreInv'
<1> USE DEF StoreInv
<1>1. StoreTypeOK'
  BY DEF StoreTypeOK
<1>2. LevelInfo \in Parts
  BY PathsAreTyped
<1>3. \A q \in DOMAIN object' : \/ q = o
                                \/ q # o /\ q \in DOMAIN object /\ object'[q] = object[q]
  OBVIOUS
<1>4. PathsAreNamed'
  BY <1>3 DEF PathsAreNamed
<1>5. PathsAreOwn'
  <2> SUFFICES ASSUME NEW q \in DOMAIN object', NEW r \in DOMAIN object',
                      NEW i \in Parts, NEW j \in Parts,
                      q # r, object'[q].path[i] = object'[r].path[j]
               PROVE  object'[q].persistent[LevelInfo] /\ object'[r].persistent[LevelInfo]
    BY DEF PathsAreOwn, IsPersistent
  <2>1. CASE q = o
    BY <1>3, <2>1 DEF IsPersistent
  <2>2. CASE r = o
    BY <1>3, <2>2 DEF IsPersistent
  <2>3. CASE q # o /\ r # o
    BY <1>3, <2>3 DEF PathsAreOwn, IsPersistent
  <2> QED BY <2>1, <2>2, <2>3
<1>6. CanonicalIsMeant'
  <2> SUFFICES ASSUME NEW q \in DOMAIN object'
               PROVE  /\ object'[q].persistent[LevelInfo] =>
                             object'[q].canonical_paths /\ object'[q].path[LevelInfo] \in DOMAIN disk'
                      /\ object'[q].canonical_paths => \E p \in PathPrefixes :
                             \A i \in Parts : object'[q].path[i] = Canonical(p, i)
    BY DEF CanonicalIsMeant, IsPersistent, FileExists, Exists
  <2>1. CASE q = o
    BY <2>1
  <2>2. CASE q # o
    BY <1>2, <1>3, <2>2 DEF CanonicalIsMeant, IsPersistent, FileExists, Exists
  <2> QED BY <2>1, <2>2
<1>7. TemporariesAreUsed'
  BY <1>3 DEF TemporariesAreUsed, Exists
<1>8. PartsAreInStep'
  <2> SUFFICES ASSUME NEW q \in DOMAIN object', NEW i \in Parts
               PROVE  /\ object'[q].persistent[i] = object'[q].persistent[LevelInfo]
                      /\ (object'[q].path[i] \in DOMAIN disk') =
                             (object'[q].path[LevelInfo] \in DOMAIN disk')
    BY DEF PartsAreInStep, IsPersistent, FileExists, Exists
  <2>1. CASE q = o
    BY <2>1
  <2>2. CASE q # o
    BY <1>2, <1>3, <2>2 DEF PartsAreInStep, IsPersistent, FileExists, Exists
  <2> QED BY <2>1, <2>2
<1> QED BY <1>1, <1>4, <1>5, <1>6, <1>7, <1>8

-----------------------------------------------------------------------------
(* What is on disk under the prefixes                                      *)

LEMMA KeptIs ==
    ASSUME StoreInv
    PROVE  /\ KeptPrefixes \subseteq PathPrefixes
           /\ \A p \in PathPrefixes : p \in KeptPrefixes <=>
                 \A i \in Parts : /\ Canonical(p, i) \in DOMAIN disk
                                  /\ \A q \in DOMAIN object, j \in Parts :
                                        object[q].path[j] = Canonical(p, i) => IsPersistent(q)
<1>1. \A x : x \in Claimed <=> \E q \in DOMAIN object, j \in Parts :
                                  ~IsPersistent(q) /\ object[q].path[j] = x
  BY DEF Claimed, StoreInv, PartsAreInStep
<1> QED BY <1>1 DEF KeptPrefixes, IsPersisted, Exists

LEMMA KeptAfter ==
    ASSUME StoreInv'
    PROVE  /\ KeptPrefixes' \subseteq PathPrefixes
           /\ \A p \in PathPrefixes : p \in KeptPrefixes' <=>
                 \A i \in Parts : /\ Canonical(p, i) \in DOMAIN disk'
                                  /\ \A q \in DOMAIN object', j \in Parts :
                                        object'[q].path[j] = Canonical(p, i) => IsPersistent(q)'
<1>1. \A x : x \in Claimed' <=> \E q \in DOMAIN object', j \in Parts :
                                  ~IsPersistent(q)' /\ object'[q].path[j] = x
  BY DEF Claimed, StoreInv, PartsAreInStep, IsPersistent
<1> QED BY <1>1 DEF KeptPrefixes, IsPersisted, Exists

(* What is persistent is kept.                                             *)
LEMMA PersistentIsKept ==
    ASSUME StoreInv, NEW o \in DOMAIN object, IsPersistent(o)
    PROVE  \E p \in KeptPrefixes : \A i \in Parts : object[o].path[i] = Canonical(p, i)
<1> USE DEF StoreInv
<1>1. PICK p \in PathPrefixes : \A i \in Parts : object[o].path[i] = Canonical(p, i)
  BY DEF CanonicalIsMeant
<1>2. \A i \in Parts : Canonical(p, i) \in DOMAIN disk
  BY <1>1 DEF CanonicalIsMeant, PartsAreInStep, Exists
<1>3. \A q \in DOMAIN object, i, j \in Parts :
          object[q].path[j] = Canonical(p, i) => IsPersistent(q)
  BY <1>1 DEF PathsAreOwn
<1> QED BY <1>1, <1>2, <1>3, KeptIs

-----------------------------------------------------------------------------
(* The diagrams of the store, and steps that change one of them            *)

Contents    == [o \in DOMAIN object |-> ContentsOf(object[o].path)]
Names       == [o \in {q \in DOMAIN object : IsPersistent(q)} |-> object[o].path[LevelInfo][1]]
StoredUnder == [p \in KeptPrefixes |-> [i \in Parts |-> disk[Canonical(p, i)]]]

StoreStep == [Store!Next]_(Store!vars)

LEMMA StoreStays ==
    ASSUME Contents' = Contents, Names' = Names, StoredUnder' = StoredUnder
    PROVE  StoreStep
BY DEF StoreStep, Store!vars, Contents, Names, StoredUnder

(* The kept contents stay if the kept prefixes do, and the disk there.     *)
LEMMA KeptStays ==
    ASSUME StoreInv, KeptPrefixes' = KeptPrefixes,
           \A p \in KeptPrefixes, i \in Parts : disk'[Canonical(p, i)] = disk[Canonical(p, i)]
    PROVE  StoredUnder' = StoredUnder
BY DEF StoredUnder

LEMMA StoreForgets ==
    ASSUME NEW d \in DOMAIN object, DOMAIN object' = DOMAIN object \ {d},
           \A o \in DOMAIN object' : object'[o] = object[o] /\ Contents'[o] = Contents[o],
           StoredUnder' = StoredUnder
    PROVE  StoreStep
<1> DEFINE N == {o \in DOMAIN object : IsPersistent(o)}
<1>1. N' = N \ {d}
  BY DEF IsPersistent
<1>2. Contents' = [o \in DOMAIN Contents \ {d} |-> Contents[o]]
  BY DEF Contents
<1>3. Names' = [o \in N' |-> object'[o].path[LevelInfo][1]] /\ DOMAIN Names = N
  BY DEF Names
<1>4. \A o \in N' : object'[o].path[LevelInfo][1] = Names[o]
  BY <1>1 DEF Names
<1>5. Names' = [o \in DOMAIN Names \ {d} |-> Names[o]]
  BY <1>1, <1>3, <1>4
<1>6. Store!Forget(d)
  BY <1>2, <1>5 DEF Store!Forget, Store!Restrict, Contents, Names, StoredUnder
<1>7. d \in DOMAIN Contents
  BY DEF Contents
<1> QED BY <1>6, <1>7 DEF StoreStep, Store!Next, Contents

LEMMA StoreChanges ==
    ASSUME NEW o \in DOMAIN object, ~IsPersistent(o), DOMAIN object' = DOMAIN object,
           \A q \in DOMAIN object : q # o => object'[q] = object[q] /\ Contents'[q] = Contents[q],
           ~object'[o].persistent[LevelInfo],
           NEW i \in Parts, NEW s, s \in Store!Successors(Contents[o][i]),
           Contents'[o] = [Contents[o] EXCEPT ![i] = s], StoredUnder' = StoredUnder
    PROVE  StoreStep
<1> DEFINE N == {q \in DOMAIN object : IsPersistent(q)}
<1>1. N' = N /\ o \notin N
  BY DEF IsPersistent
<1>2. Names' = Names
  <2>1. \A q \in N : object'[q] = object[q]
    BY <1>1
  <2> QED BY <1>1, <2>1 DEF Names
<1>3. Contents' = [Contents EXCEPT ![o] = [Contents[o] EXCEPT ![i] = s]]
  BY DEF Contents
<1>4. Store!Change(o, i)
  BY <1>2, <1>3 DEF Store!Change, Contents, Names, StoredUnder
<1>5. o \in DOMAIN Contents \ DOMAIN Names
  BY DEF Contents, Names
<1> QED BY <1>4, <1>5 DEF StoreStep, Store!Next, Contents, Names

(* A diagram that is moved on disk only.                                   *)
LEMMA StoreMoves ==
    ASSUME NEW o \in DOMAIN object, ~IsPersistent(o), DOMAIN object' = DOMAIN object,
           \A q \in DOMAIN object : q # o => object'[q] = object[q],
           ~object'[o].persistent[LevelInfo],
           \A q \in DOMAIN object : Contents'[q] = Contents[q], StoredUnder' = StoredUnder
    PROVE  StoreStep
<1> DEFINE N == {q \in DOMAIN object : IsPersistent(q)}
<1>1. N' = N /\ o \notin N
  BY DEF IsPersistent
<1>2. Names' = Names
  <2>1. \A q \in N : object'[q] = object[q]
    BY <1>1
  <2> QED BY <1>1, <2>1 DEF Names
<1>3. Contents' = Contents
  BY DEF Contents
<1> QED BY <1>2, <1>3, StoreStays

LEMMA StorePersists ==
    ASSUME NEW o \in DOMAIN object, ~IsPersistent(o), DOMAIN object' = DOMAIN object,
           \A q \in DOMAIN object : q # o => object'[q] = object[q],
           object'[o].persistent[LevelInfo],
           NEW p \in PathPrefixes \ KeptPrefixes, object'[o].path[LevelInfo][1] = p,
           \A q \in DOMAIN object : Contents'[q] = Contents[q],
           KeptPrefixes' = KeptPrefixes \cup {p},
           \A r \in KeptPrefixes : StoredUnder'[r] = StoredUnder[r],
           StoredUnder'[p] = Contents[o]
    PROVE  StoreStep
<1> DEFINE N == {q \in DOMAIN object : IsPersistent(q)}
<1>1. N' = N \cup {o} /\ o \notin N
  BY DEF IsPersistent
<1>2. Contents' = Contents
  BY DEF Contents
<1>3. Names' = Store!With(Names, o, p)
  <2>1. \A q \in N : object'[q] = object[q]
    BY <1>1
  <2>2. DOMAIN Names = N /\ \A q \in N : Names[q] = object[q].path[LevelInfo][1]
    BY DEF Names
  <2>3. Names' = [q \in N' |-> object'[q].path[LevelInfo][1]]
    BY DEF Names
  <2> HIDE DEF N
  <2>4. \A q \in N \cup {o} : object'[q].path[LevelInfo][1] = IF q \in N THEN Names[q] ELSE p
    BY <1>1, <2>1, <2>2
  <2> QED BY <1>1, <2>2, <2>3, <2>4 DEF Store!With
<1>4. StoredUnder' = Store!With(StoredUnder, p, Contents[o])
  <2>1. /\ DOMAIN StoredUnder = KeptPrefixes /\ DOMAIN StoredUnder' = KeptPrefixes'
        /\ StoredUnder' = [r \in KeptPrefixes' |-> StoredUnder'[r]]
    BY DEF StoredUnder
  <2> QED BY <2>1 DEF Store!With
<1>5. Store!Persist(o, p)
  BY <1>2, <1>3, <1>4 DEF Store!Persist, Contents, Names, StoredUnder
<1>6. o \in DOMAIN Contents \ DOMAIN Names /\ p \in PathPrefixes \ DOMAIN StoredUnder
  BY DEF Contents, Names, StoredUnder
<1> QED BY <1>5, <1>6 DEF StoreStep, Store!Next, Contents, Names, StoredUnder

LEMMA StoreAdds ==
    ASSUME NEW o \in Objects \ DOMAIN object, DOMAIN object' = DOMAIN object \cup {o},
           \A q \in DOMAIN object : object'[q] = object[q] /\ Contents'[q] = Contents[q],
           StoredUnder' = StoredUnder,
           \/ /\ ~object'[o].persistent[LevelInfo]
              /\ \/ Contents'[o] = Store!Empty
                 \/ \E q \in DOMAIN object : Contents'[o] = Contents[q]
           \/ /\ object'[o].persistent[LevelInfo]
              /\ object'[o].path[LevelInfo][1] \in KeptPrefixes
              /\ Contents'[o] = StoredUnder[object'[o].path[LevelInfo][1]]
    PROVE  StoreStep
<1> DEFINE N == {q \in DOMAIN object : IsPersistent(q)}
<1>1. o \notin N /\ N' = IF object'[o].persistent[LevelInfo] THEN N \cup {o} ELSE N
  BY DEF IsPersistent
<1>2. /\ Contents' = Store!With(Contents, o, Contents'[o])
      /\ DOMAIN Contents = DOMAIN object
  <2>1. /\ DOMAIN Contents = DOMAIN object /\ DOMAIN Contents' = DOMAIN object'
        /\ Contents' = [q \in DOMAIN object' |-> Contents'[q]]
    BY DEF Contents
  <2> QED BY <2>1 DEF Store!With
<1>3. /\ DOMAIN Names = N /\ \A q \in N : Names[q] = object[q].path[LevelInfo][1]
      /\ Names' = [q \in N' |-> object'[q].path[LevelInfo][1]]
      /\ Names = [q \in N |-> object[q].path[LevelInfo][1]]
  BY DEF Names
<1>4. \A q \in N : object'[q] = object[q]
  OBVIOUS
<1>5. DOMAIN StoredUnder = KeptPrefixes
  BY DEF StoredUnder
<1> HIDE DEF N
<1>6. CASE ~object'[o].persistent[LevelInfo]
  <2>1. Names' = Names
    BY <1>1, <1>3, <1>4, <1>6
  <2>2. Contents'[o] \in {Store!Empty} \cup {Contents[q] : q \in DOMAIN Contents}
    BY <1>2, <1>6
  <2>3. Store!Create(o)
    BY <1>2, <2>1, <2>2 DEF Store!Create, Contents, Names, StoredUnder
  <2> QED BY <1>2, <2>3 DEF StoreStep, Store!Next, Contents
<1>7. CASE object'[o].persistent[LevelInfo]
  <2>0. PICK p \in KeptPrefixes : p = object'[o].path[LevelInfo][1]
    BY <1>7
  <2>1. Names' = Store!With(Names, o, p)
    <3>1. \A q \in N \cup {o} : object'[q].path[LevelInfo][1] = IF q \in N THEN Names[q] ELSE p
      BY <1>1, <1>3, <1>4, <2>0
    <3> QED BY <1>1, <1>3, <1>7, <3>1 DEF Store!With
  <2>2. p \in DOMAIN StoredUnder /\ Contents'[o] = StoredUnder[p]
    BY <1>5, <1>7, <2>0
  <2>3. Store!Load(o, p)
    BY <1>2, <2>1, <2>2 DEF Store!Load, Contents, Names, StoredUnder
  <2> QED BY <1>2, <2>2, <2>3 DEF StoreStep, Store!Next, Contents, StoredUnder
<1> QED BY <1>6, <1>7

-----------------------------------------------------------------------------
(* The last reference to a diagram is dropped                              *)

LEMMA OrphansAre ==
    /\ \A x : x \in Orphans <=>
                  /\ x \in DOMAIN disk /\ x \notin KeptPrefixes \X Parts
                  /\ \A o \in DOMAIN object, i \in Parts : object[o].path[i] # x
    /\ \A x : x \in Orphans' <=>
                  /\ x \in DOMAIN disk' /\ x \notin KeptPrefixes' \X Parts
                  /\ \A o \in DOMAIN object', i \in Parts : object'[o].path[i] # x
<1> DEFINE Used == UNION {{object[o].path[i] : i \in Parts} : o \in DOMAIN object}
<1>1. \A x : x \in Used <=> \E o \in DOMAIN object, i \in Parts : object[o].path[i] = x
  OBVIOUS
<1>2. \A x : x \in Used' <=> \E o \in DOMAIN object', i \in Parts : object'[o].path[i] = x
  OBVIOUS
<1>3. Orphans = DOMAIN disk \ (Used \cup (KeptPrefixes \X Parts))
  BY DEF Orphans
<1>4. Orphans' = DOMAIN disk' \ (Used' \cup (KeptPrefixes' \X Parts))
  BY DEF Orphans
<1> HIDE DEF Used
<1> QED BY <1>1, <1>2, <1>3, <1>4

LEMMA PathsAreFinite ==
    ASSUME NEW f \in [Parts -> Path]
    PROVE  IsFiniteSet({f[i] : i \in Parts}) /\ {f[i] : i \in Parts} \subseteq Path
<1>1. f \in Surjection(Parts, {f[i] : i \in Parts})
  BY DEF Surjection
<1>2. IsFiniteSet({f[i] : i \in Parts})
  BY <1>1, PathsAreTyped, FS_Surjection
<1> QED BY <1>2

(* The disk, but for the empty files a stream creates when it is attached  *)
Grows(contents) ==
    /\ IsDisk(contents)
    /\ DOMAIN disk \subseteq DOMAIN contents
    /\ \A x \in DOMAIN disk : contents[x] = disk[x]
    /\ \A x \in DOMAIN contents \ DOMAIN disk :
          /\ contents[x] = <<>>
          /\ \E q \in DOMAIN object, i \in Parts : ~IsPersistent(q) /\ object[q].path[i] = x
    /\ \A q \in DOMAIN object, i \in Parts :
          (object[q].path[i] \in DOMAIN contents) = (object[q].path[LevelInfo] \in DOMAIN contents)

LEMMA DiskGrows == ASSUME StoreInv PROVE Grows(disk)
BY DEF StoreInv, StoreTypeOK, Grows, PartsAreInStep, FileExists, Exists

LEMMA TouchedIs ==
    ASSUME StoreInv, NEW o \in DOMAIN object
    PROVE  LET contents == Touched(disk, object[o])
           IN  /\ Grows(contents)
               /\ DOMAIN contents = DOMAIN disk \cup {object[o].path[i] : i \in Parts}
<1> USE DEF StoreInv
<1> DEFINE paths == {object[o].path[i] : i \in Parts}
           contents == Touched(disk, object[o])
<1>1. /\ DOMAIN contents = DOMAIN disk \cup paths
      /\ \A x \in DOMAIN disk : contents[x] = disk[x]
      /\ \A x \in DOMAIN contents \ DOMAIN disk : contents[x] = <<>>
      /\ contents = [x \in DOMAIN contents |-> contents[x]]
  BY DEF Touched, Extended
<1>2. paths \subseteq Path /\ IsFiniteSet(paths)
  <2>1. object[o].path \in [Parts -> Path]
    BY ObjectIsFile DEF File
  <2> QED BY <2>1, PathsAreFinite
<1>3. IsDisk(contents)
  <2> HIDE DEF contents, paths
  <2>1. IsFiniteSet(DOMAIN contents)
    <3>1. IsFiniteSet(DOMAIN disk)
      BY DEF StoreTypeOK, IsDisk
    <3>2. IsFiniteSet(DOMAIN disk \cup paths)
      BY <1>2, <3>1, FS_Union, Zenon
    <3> QED BY <1>1, <3>2
  <2>2. \A x \in DOMAIN contents : contents[x] \in Seq(Elements)
    <3>1. <<>> \in Seq(Elements)
      OBVIOUS
    <3> QED BY <1>1, <3>1 DEF StoreTypeOK, IsDisk
  <2>3. DOMAIN contents \subseteq Path
    BY <1>1, <1>2 DEF StoreTypeOK, IsDisk
  <2> QED BY <1>1, <2>1, <2>2, <2>3 DEF IsDisk
<1>4. ASSUME NEW x \in DOMAIN contents \ DOMAIN disk
      PROVE  \E i \in Parts : ~IsPersistent(o) /\ object[o].path[i] = x
  BY <1>1, ZenonT(40) DEF CanonicalIsMeant, PartsAreInStep, Exists
<1>5. ASSUME NEW q \in DOMAIN object, NEW i \in Parts
      PROVE  (object[q].path[i] \in DOMAIN contents) = (object[q].path[LevelInfo] \in DOMAIN contents)
  <2>1. CASE q = o
    BY <1>1, <2>1, PathsAreTyped
  <2>2. ASSUME q # o, NEW j \in Parts
        PROVE  object[q].path[j] \in DOMAIN contents <=> object[q].path[j] \in DOMAIN disk
    <3> SUFFICES ASSUME NEW i1 \in Parts, object[q].path[j] = object[o].path[i1]
                 PROVE  object[q].path[j] \in DOMAIN disk
      BY <1>1
    <3>1. IsPersistent(o)
      BY <2>2 DEF PathsAreOwn
    <3> QED BY <3>1 DEF CanonicalIsMeant, PartsAreInStep, Exists
  <2>3. CASE q # o
    BY <2>2, <2>3, PathsAreTyped DEF PartsAreInStep, Exists, FileExists
  <2> QED BY <2>1, <2>3
<1> QED BY <1>1, <1>3, <1>4, <1>5 DEF Grows

LEMMA CollectIs ==
    ASSUME StoreInv, NEW contents, Grows(contents), Collect(object, contents)
    PROVE  /\ DOMAIN object' = {o \in DOMAIN object : IsReferenced(o)'}
           /\ object' = [o \in DOMAIN object' |-> object[o]]
           /\ \A x : x \in DOMAIN disk' <=>
                 /\ x \in DOMAIN contents
                 /\ \A o \in DOMAIN object \ DOMAIN object', i \in Parts :
                       object[o].path[i] = x => IsPersistent(o)
           /\ disk' = [x \in DOMAIN disk' |-> contents[x]]
           /\ IsDisk(disk')
<1> DEFINE dead == {o \in DOMAIN object : ~IsReferenced(o)'}
           gone == UNION {{object[o].path[i] : i \in {j \in Parts : Removed(object[o], j)}} : o \in dead}
<1>1. /\ object' = Restrict(object, DOMAIN object \ dead)
      /\ disk' = Restrict(contents, DOMAIN contents \ gone)
  BY DEF Collect
<1>2. DOMAIN object' = DOMAIN object \ dead /\ DOMAIN object \ DOMAIN object' = dead
  BY <1>1 DEF Restrict
<1>3. \A x : x \in gone <=> \E o \in dead, i \in Parts : object[o].path[i] = x /\ ~IsPersistent(o)
  BY DEF Removed, StoreInv, PartsAreInStep
<1>4. DOMAIN disk' = DOMAIN contents \ gone
  BY <1>1 DEF Restrict
<1>5. /\ object' = [o \in DOMAIN object' |-> object[o]]
      /\ disk' = [x \in DOMAIN disk' |-> contents[x]]
  BY <1>1 DEF Restrict
<1> HIDE DEF gone
<1>6. IsDisk(disk')
  <2>1. IsFiniteSet(DOMAIN disk')
    BY <1>4, FS_Subset DEF Grows, IsDisk
  <2> QED BY <1>4, <1>5, <2>1 DEF Grows, IsDisk
<1>7. DOMAIN object' = {o \in DOMAIN object : IsReferenced(o)'}
  BY <1>2
<1> HIDE DEF dead
<1> QED BY <1>2, <1>3, <1>4, <1>5, <1>6, <1>7

(* A diagram stays as it is, and so do its files that are on disk.         *)
Undisturbed(q) ==
    /\ object'[q] = object[q]
    /\ \A i \in Parts : Exists(object[q].path[i]) =>
           /\ object[q].path[i] \in DOMAIN disk'
           /\ disk'[object[q].path[i]] = disk[object[q].path[i]]

(* Who lives on keeps what it had; the others leave only what is kept.     *)
LEMMA CollectStep ==
    ASSUME StoreInv, NEW contents, Grows(contents), Collect(object, contents), failures' = failures,
           NEW d, \A o \in DOMAIN object : o # d => IsReferenced(o)'
    PROVE  /\ StoreInv' /\ StoreStep /\ Orphans' \subseteq Orphans
           /\ DOMAIN object' \subseteq DOMAIN object
           /\ \A o \in DOMAIN object : o \in DOMAIN object' <=> IsReferenced(o)'
           /\ \A o \in DOMAIN object', i \in Parts :
                 /\ object[o].path[i] \in DOMAIN disk' <=> object[o].path[i] \in DOMAIN contents
                 /\ object[o].path[i] \in DOMAIN disk' =>
                       disk'[object[o].path[i]] = contents[object[o].path[i]]
           /\ \A o \in DOMAIN object' : Undisturbed(o)
<1> USE DEF StoreInv
<1>1. /\ DOMAIN object' \subseteq DOMAIN object
      /\ \A o \in DOMAIN object : o \in DOMAIN object' <=> IsReferenced(o)'
      /\ object' = [o \in DOMAIN object' |-> object[o]]
      /\ \A o \in DOMAIN object' : o \in DOMAIN object /\ object'[o] = object[o]
      /\ \A x : x \in DOMAIN disk' <=>
            /\ x \in DOMAIN contents
            /\ \A o \in DOMAIN object \ DOMAIN object', i \in Parts :
                  object[o].path[i] = x => IsPersistent(o)
      /\ \A x \in DOMAIN disk' : disk'[x] = contents[x]
      /\ IsDisk(disk')
  <2>1. /\ DOMAIN object' = {o \in DOMAIN object : IsReferenced(o)'}
        /\ object' = [o \in DOMAIN object' |-> object[o]]
        /\ \A x : x \in DOMAIN disk' <=>
              /\ x \in DOMAIN contents
              /\ \A o \in DOMAIN object \ DOMAIN object', i \in Parts :
                    object[o].path[i] = x => IsPersistent(o)
        /\ disk' = [x \in DOMAIN disk' |-> contents[x]]
        /\ IsDisk(disk')
    BY CollectIs
  <2>2. \A o \in DOMAIN object' : o \in DOMAIN object /\ object'[o] = object[o]
    BY <2>1
  <2>3. \A x \in DOMAIN disk' : disk'[x] = contents[x]
    BY <2>1
  <2> QED BY <2>1, <2>2, <2>3
<1>2. ASSUME NEW o \in DOMAIN object', NEW i \in Parts
      PROVE  object[o].path[i] \in DOMAIN disk' <=> object[o].path[i] \in DOMAIN contents
  BY <1>1 DEF PathsAreOwn
<1>3. StoreTypeOK'
  BY <1>1 DEF StoreTypeOK
<1>4. PathsAreNamed' /\ PathsAreOwn'
  <2>1. PathsAreNamed'
    BY <1>1 DEF PathsAreNamed
  <2> QED BY <1>1, <2>1 DEF PathsAreOwn, IsPersistent
<1>5. PartsAreInStep'
  <2> SUFFICES ASSUME NEW o \in DOMAIN object', NEW i \in Parts
               PROVE  /\ object'[o].persistent[i] = object'[o].persistent[LevelInfo]
                      /\ (object'[o].path[i] \in DOMAIN disk') =
                             (object'[o].path[LevelInfo] \in DOMAIN disk')
    BY DEF PartsAreInStep, IsPersistent, FileExists, Exists
  <2>1. object'[o] = object[o] /\ o \in DOMAIN object
    BY <1>1
  <2>2. (object[o].path[i] \in DOMAIN disk') = (object[o].path[LevelInfo] \in DOMAIN disk')
    BY <1>2, <2>1, PathsAreTyped DEF Grows
  <2> QED BY <2>1, <2>2 DEF PartsAreInStep, IsPersistent
<1>6. CanonicalIsMeant'
  <2> SUFFICES ASSUME NEW o \in DOMAIN object'
               PROVE  /\ object'[o].persistent[LevelInfo] =>
                             object'[o].canonical_paths /\ object'[o].path[LevelInfo] \in DOMAIN disk'
                      /\ object'[o].canonical_paths => \E p \in PathPrefixes :
                             \A i \in Parts : object'[o].path[i] = Canonical(p, i)
    BY DEF CanonicalIsMeant, IsPersistent, FileExists, Exists
  <2>1. object'[o] = object[o] /\ o \in DOMAIN object
    BY <1>1
  <2>2. object[o].path[LevelInfo] \in DOMAIN disk => object[o].path[LevelInfo] \in DOMAIN disk'
    BY <1>2, PathsAreTyped DEF Grows
  <2> QED BY <2>1, <2>2 DEF CanonicalIsMeant, IsPersistent, FileExists, Exists
<1>7. TemporariesAreUsed'
  <2> SUFFICES ASSUME NEW o \in Objects, NEW i \in Parts, TemporaryPath(o, i) \in DOMAIN disk'
               PROVE  o \in DOMAIN object' /\ object'[o].path[i] = TemporaryPath(o, i)
    BY DEF TemporariesAreUsed, Exists
  <2>1. o \in DOMAIN object /\ object[o].path[i] = TemporaryPath(o, i)
    <3>1. CASE TemporaryPath(o, i) \in DOMAIN disk
      BY <3>1 DEF TemporariesAreUsed, Exists
    <3>2. CASE TemporaryPath(o, i) \notin DOMAIN disk
      <4>1. PICK q \in DOMAIN object, j \in Parts : object[q].path[j] = TemporaryPath(o, i)
        BY <1>1, <3>2 DEF Grows
      <4>2. object[q].path[j] = TemporaryPath(q, j)
        BY <4>1, NamesDiffer DEF PathsAreNamed
      <4> QED BY <4>1, <4>2 DEF TemporaryPath
    <3> QED BY <3>1, <3>2
  <2>2. ~IsPersistent(o)
    BY <2>1, NamesDiffer DEF CanonicalIsMeant
  <2> QED BY <1>1, <2>1, <2>2
<1>8. StoreInv'
  BY <1>3, <1>4, <1>5, <1>6, <1>7
<1>9. KeptPrefixes' = KeptPrefixes
  <2> SUFFICES ASSUME NEW p \in PathPrefixes
               PROVE  p \in KeptPrefixes' <=> p \in KeptPrefixes
    BY <1>8, KeptIs, KeptAfter
  <2>1. ASSUME p \in KeptPrefixes, NEW i \in Parts
        PROVE  /\ Canonical(p, i) \in DOMAIN disk'
               /\ \A q \in DOMAIN object', j \in Parts :
                     object'[q].path[j] = Canonical(p, i) => IsPersistent(q)'
    BY <1>1, <2>1, KeptIs DEF Grows, IsPersistent
  <2>2. ASSUME p \in KeptPrefixes', NEW i \in Parts
        PROVE  /\ Canonical(p, i) \in DOMAIN disk
               /\ \A q \in DOMAIN object, j \in Parts :
                     object[q].path[j] = Canonical(p, i) => IsPersistent(q)
    <3>1. /\ Canonical(p, i) \in DOMAIN disk'
          /\ \A q \in DOMAIN object', j \in Parts :
                object[q].path[j] = Canonical(p, i) => IsPersistent(q)
      BY <1>1, <1>8, <2>2, KeptAfter DEF IsPersistent
    <3>2. \A q \in DOMAIN object, j \in Parts :
             object[q].path[j] = Canonical(p, i) => IsPersistent(q)
      BY <1>1, <3>1
    <3> QED BY <1>1, <3>1, <3>2 DEF Grows
  <2> QED BY <1>8, <2>1, <2>2, KeptIs, KeptAfter
<1>10. StoredUnder' = StoredUnder
  <2>1. ASSUME NEW p \in KeptPrefixes, NEW i \in Parts
        PROVE  disk'[Canonical(p, i)] = disk[Canonical(p, i)]
    <3>1. Canonical(p, i) \in DOMAIN disk /\ Canonical(p, i) \in DOMAIN disk'
      BY <1>8, <1>9, KeptIs, KeptAfter
    <3> QED BY <1>1, <3>1 DEF Grows
  <2> QED BY <1>9, <2>1, KeptStays
<1>11. \A o \in DOMAIN object' : object'[o] = object[o] /\ Contents'[o] = Contents[o]
  <2> SUFFICES ASSUME NEW o \in DOMAIN object'
               PROVE  ContentsOf(object[o].path)' = ContentsOf(object[o].path)
    BY <1>1 DEF Contents, ContentsOf, ContentOf, Exists
  <2>1. ASSUME NEW i \in Parts
        PROVE  ContentOf(object[o].path[i])' = ContentOf(object[o].path[i])
    BY <1>1, <1>2 DEF ContentOf, Exists, Grows
  <2> QED BY <2>1 DEF ContentsOf
<1>12. StoreStep
  <2>1. CASE d \in DOMAIN object /\ d \notin DOMAIN object'
    <3>1. DOMAIN object' = DOMAIN object \ {d}
      BY <1>1, <2>1
    <3> QED BY <1>10, <1>11, <2>1, <3>1, StoreForgets
  <2>2. CASE ~(d \in DOMAIN object /\ d \notin DOMAIN object')
    <3>1. DOMAIN object' = DOMAIN object
      BY <1>1, <2>2
    <3>2. Contents' = Contents
      BY <1>11, <3>1 DEF Contents
    <3>3. Names' = Names
      BY <1>1, <3>1 DEF Names, IsPersistent
    <3> QED BY <1>10, <3>2, <3>3, StoreStays
  <2> QED BY <2>1, <2>2
<1>13. Orphans' \subseteq Orphans
  <2> SUFFICES ASSUME NEW x \in Orphans' PROVE x \in Orphans
    OBVIOUS
  <2>1. /\ x \in DOMAIN disk' /\ x \notin KeptPrefixes \X Parts
        /\ \A o \in DOMAIN object', i \in Parts : object[o].path[i] # x
    BY <1>1, <1>9, OrphansAre
  <2>2. ASSUME NEW o \in DOMAIN object, NEW i \in Parts, object[o].path[i] = x
        PROVE  FALSE
    <3>1. IsPersistent(o)
      BY <1>1, <2>1, <2>2
    <3>2. PICK p \in KeptPrefixes : x = Canonical(p, i)
      BY <2>2, <3>1, PersistentIsKept
    <3> QED BY <2>1, <3>2, PathIs
  <2>3. x \in DOMAIN disk
    BY <1>1, <2>1, <2>2 DEF Grows
  <2> QED BY <2>1, <2>2, <2>3, OrphansAre
<1>14. \A o \in DOMAIN object' : Undisturbed(o)
  BY <1>1, <1>2 DEF Undisturbed, Exists, Grows
<1> QED BY <1>1, <1>2, <1>8, <1>12, <1>13, <1>14

-----------------------------------------------------------------------------
(* Steps that add an object, or write to the files of one                  *)

(* What else there is stays as it was, on disk and under the prefixes.     *)
LEMMA OthersStay ==
    ASSUME StoreInv, StoreInv', NEW o \in Objects,
           DOMAIN object' = DOMAIN object \cup {o},
           \A q \in DOMAIN object : q # o => object'[q] = object[q],
           o \in DOMAIN object => object'[o] = object[o],
           o \notin DOMAIN object => \/ object'[o].persistent[LevelInfo]
                                     \/ \A i \in Parts : object'[o].path[i] = TemporaryPath(o, i),
           DOMAIN disk \subseteq DOMAIN disk',
           \A x \in DOMAIN disk' : x \notin DOMAIN disk \/ disk'[x] # disk[x] =>
               ~object'[o].persistent[LevelInfo] /\ \E i \in Parts : object'[o].path[i] = x
    PROVE  /\ StoredUnder' = StoredUnder
           /\ Orphans' \subseteq Orphans
           /\ \A q \in DOMAIN object : q # o => object'[q] = object[q] /\ Contents'[q] = Contents[q]
<1> USE DEF StoreInv
<1>1. KeptPrefixes' = KeptPrefixes
  <2> SUFFICES ASSUME NEW p \in PathPrefixes
               PROVE  p \in KeptPrefixes' <=> p \in KeptPrefixes
    BY KeptIs, KeptAfter
  <2>1. ASSUME p \in KeptPrefixes, NEW i \in Parts
        PROVE  /\ Canonical(p, i) \in DOMAIN disk'
               /\ \A q \in DOMAIN object', j \in Parts :
                     object'[q].path[j] = Canonical(p, i) => object'[q].persistent[LevelInfo]
    <3>1. /\ Canonical(p, i) \in DOMAIN disk
          /\ \A q \in DOMAIN object, j \in Parts :
                object[q].path[j] = Canonical(p, i) => object[q].persistent[LevelInfo]
      BY <2>1, KeptIs DEF IsPersistent
    <3>2. ASSUME NEW j \in Parts, object'[o].path[j] = Canonical(p, i), o \notin DOMAIN object
          PROVE  object'[o].persistent[LevelInfo]
      BY <3>2, NamesDiffer
    <3> QED BY <3>1, <3>2
  <2>2. ASSUME p \in KeptPrefixes', NEW i \in Parts
        PROVE  /\ Canonical(p, i) \in DOMAIN disk
               /\ \A q \in DOMAIN object, j \in Parts :
                     object[q].path[j] = Canonical(p, i) => object[q].persistent[LevelInfo]
    <3>1. /\ Canonical(p, i) \in DOMAIN disk'
          /\ \A q \in DOMAIN object', j \in Parts :
                object'[q].path[j] = Canonical(p, i) => object'[q].persistent[LevelInfo]
      BY <2>2, KeptAfter DEF IsPersistent
    <3> QED BY <3>1
  <2> QED BY <2>1, <2>2, KeptIs, KeptAfter DEF IsPersistent
<1>2. StoredUnder' = StoredUnder
  <2>1. ASSUME NEW p \in KeptPrefixes, NEW i \in Parts
        PROVE  disk'[Canonical(p, i)] = disk[Canonical(p, i)]
    <3>1. /\ Canonical(p, i) \in DOMAIN disk'
          /\ \A j \in Parts : object'[o].path[j] = Canonical(p, i) => object'[o].persistent[LevelInfo]
      BY <1>1, KeptAfter DEF IsPersistent
    <3>2. Canonical(p, i) \in DOMAIN disk
      BY KeptIs
    <3> QED BY <3>1, <3>2
  <2> QED BY <1>1, <2>1, KeptStays
<1>3. Orphans' \subseteq Orphans
  <2> SUFFICES ASSUME NEW x \in Orphans' PROVE x \in Orphans
    OBVIOUS
  <2>1. /\ x \in DOMAIN disk' /\ x \notin KeptPrefixes \X Parts
        /\ \A q \in DOMAIN object', i \in Parts : object'[q].path[i] # x
    BY <1>1, OrphansAre
  <2> QED BY <2>1, OrphansAre
<1>4. ASSUME NEW q \in DOMAIN object, q # o
      PROVE  object'[q] = object[q] /\ Contents'[q] = Contents[q]
  <2>1. ASSUME NEW i \in Parts
        PROVE  ContentOf(object[q].path[i])' = ContentOf(object[q].path[i])
    <3> DEFINE x == object[q].path[i]
    <3>1. ~(~object'[o].persistent[LevelInfo] /\ \E j \in Parts : object'[o].path[j] = x)
      BY <1>4 DEF PathsAreOwn, IsPersistent
    <3>2. (x \in DOMAIN disk') = (x \in DOMAIN disk) /\ (x \in DOMAIN disk => disk'[x] = disk[x])
      BY <3>1
    <3> QED BY <3>2 DEF ContentOf, Exists
  <2>2. ContentsOf(object[q].path)' = ContentsOf(object[q].path)
    BY <2>1 DEF ContentsOf
  <2> QED BY <1>4, <2>2 DEF Contents, ContentsOf, ContentOf, Exists
<1> QED BY <1>2, <1>3, <1>4

LEMMA TemporaryIs ==
    ASSUME NEW o \in Objects
    PROVE  /\ Temporary(o) \in File /\ ~Temporary(o).persistent[LevelInfo]
           /\ ~Temporary(o).canonical_paths
           /\ \A i \in Parts : /\ Temporary(o).path[i] = TemporaryPath(o, i)
                               /\ Temporary(o).persistent[i] = Temporary(o).persistent[LevelInfo]
BY PathsAreTyped DEF Temporary, File

LEMMA NewObject ==
    ASSUME StoreInv, NEW o \in Objects \ DOMAIN object, NEW f \in File, object' = With(object, o, f)
    PROVE  /\ DOMAIN object' = DOMAIN object \cup {o} /\ object'[o] = f
           /\ object' \in [DOMAIN object' -> File]
           /\ \A q \in DOMAIN object : q # o /\ object'[q] = object[q]
           /\ \A i \in Parts : TemporaryPath(o, i) \notin DOMAIN disk
           /\ \A q \in DOMAIN object, i, j \in Parts : object[q].path[i] # TemporaryPath(o, j)
<1>1. /\ DOMAIN object' = DOMAIN object \cup {o} /\ object'[o] = f
      /\ \A q \in DOMAIN object : q # o /\ object'[q] = object[q]
  BY DEF With, Extended
<1>2. object' \in [DOMAIN object' -> File]
  <2>1. object' = [q \in DOMAIN object' |-> object'[q]]
    BY DEF With, Extended
  <2> QED BY <1>1, <2>1 DEF StoreInv, StoreTypeOK
<1>3. \A i \in Parts : TemporaryPath(o, i) \notin DOMAIN disk
  BY DEF StoreInv, TemporariesAreUsed, Exists
<1>4. ASSUME NEW q \in DOMAIN object, NEW i \in Parts, NEW j \in Parts,
             object[q].path[i] = TemporaryPath(o, j)
      PROVE  FALSE
  <2>1. object[q].path[i] = TemporaryPath(q, i)
    BY <1>4, NamesDiffer DEF StoreInv, PathsAreNamed
  <2> QED BY <1>4, <2>1 DEF TemporaryPath
<1> QED BY <1>1, <1>2, <1>3, <1>4

LEMMA CreateStep ==
    ASSUME StoreInv, NEW h, Create(h)
    PROVE  StoreInv' /\ StoreStep /\ Orphans' \subseteq Orphans
<1>1. PICK o \in Objects \ DOMAIN object : object' = With(object, o, Temporary(o))
  BY DEF Create
<1>2. disk' = disk /\ failures' = failures
  BY DEF Create
<1>3. /\ DOMAIN object' = DOMAIN object \cup {o} /\ object'[o] = Temporary(o)
      /\ object' \in [DOMAIN object' -> File]
      /\ \A q \in DOMAIN object : q # o /\ object'[q] = object[q]
      /\ \A i \in Parts : TemporaryPath(o, i) \notin DOMAIN disk
      /\ \A q \in DOMAIN object, i, j \in Parts : object[q].path[i] # TemporaryPath(o, j)
  BY <1>1, NewObject, TemporaryIs
<1>4. StoreInv'
  <2>1. IsDisk(disk') /\ failures' \in Nat
    BY <1>2 DEF StoreInv, StoreTypeOK
  <2>2. \A q \in Objects, i \in Parts :
            TemporaryPath(q, i) \in DOMAIN disk' => q # o /\ Exists(TemporaryPath(q, i))
    BY <1>2, <1>3 DEF Exists
  <2> QED BY <1>2, <1>3, <2>1, <2>2, TemporaryIs, StoreChange, PathsAreTyped DEF Exists
<1>5. /\ StoredUnder' = StoredUnder /\ Orphans' \subseteq Orphans
      /\ \A q \in DOMAIN object : object'[q] = object[q] /\ Contents'[q] = Contents[q]
  BY <1>2, <1>3, <1>4, TemporaryIs, OthersStay
<1>6. Contents'[o] = Store!Empty
  BY <1>2, <1>3, TemporaryIs DEF Contents, ContentsOf, ContentOf, Exists, Store!Empty
<1>7. StoreStep
  BY <1>3, <1>5, <1>6, TemporaryIs, StoreAdds
<1> QED BY <1>4, <1>5, <1>7

LEMMA CopyStep ==
    ASSUME StoreInv, NEW h, NEW g, Copy(h, g), handle[g] \in DOMAIN object
    PROVE  StoreInv' /\ StoreStep /\ Orphans' \subseteq Orphans
<1> DEFINE from == handle[g]
           source == object[from].path
           there == {i \in Parts : Exists(source[i])}
<1>1. PICK o \in Objects \ DOMAIN object :
         /\ object' = With(object, o, Temporary(o))
         /\ disk' = Extended(disk, [path \in {TemporaryPath(o, i) : i \in there} |->
                                       disk[source[path[2]]]])
  BY DEF Copy
<1>2. failures' = failures
  BY DEF Copy
<1>3. /\ DOMAIN object' = DOMAIN object \cup {o} /\ object'[o] = Temporary(o)
      /\ object' \in [DOMAIN object' -> File]
      /\ \A q \in DOMAIN object : q # o /\ object'[q] = object[q]
      /\ \A i \in Parts : TemporaryPath(o, i) \notin DOMAIN disk
      /\ \A q \in DOMAIN object, i, j \in Parts : object[q].path[i] # TemporaryPath(o, j)
  BY <1>1, NewObject, TemporaryIs
<1>4. /\ \A x : x \in DOMAIN disk' <=>
              x \in DOMAIN disk \/ \E i \in there : x = TemporaryPath(o, i)
      /\ \A x \in DOMAIN disk : disk'[x] = disk[x]
      /\ \A i \in there : disk'[TemporaryPath(o, i)] = disk[source[i]]
      /\ disk' = [x \in DOMAIN disk' |-> disk'[x]]
  BY <1>1, <1>3, PathIs, SMTT(30) DEF Extended, TemporaryPath
<1>5. \A i \in Parts : i \in there <=> LevelInfo \in there
  BY PathsAreTyped DEF StoreInv, PartsAreInStep, FileExists
<1>6. IsDisk(disk')
  <2> DEFINE copies == {TemporaryPath(o, i) : i \in Parts}
             f == [i \in Parts |-> TemporaryPath(o, i)]
  <2>1. IsFiniteSet(copies) /\ copies \subseteq Path
    <3>1. f \in [Parts -> Path] /\ copies = {f[i] : i \in Parts}
      BY PathsAreTyped
    <3> HIDE DEF copies, f
    <3> QED BY <3>1, PathsAreFinite
  <2>2. DOMAIN disk' \subseteq DOMAIN disk \cup copies
    BY <1>4
  <2> HIDE DEF copies
  <2>3. IsFiniteSet(DOMAIN disk \cup copies)
    BY <2>1, FS_Union, Zenon DEF StoreInv, StoreTypeOK, IsDisk
  <2>4. IsFiniteSet(DOMAIN disk')
    BY <2>2, <2>3, FS_Subset, Zenon
  <2>5. \A x \in DOMAIN disk' : disk'[x] \in Seq(Elements)
    <3>1. \A x \in DOMAIN disk : disk[x] \in Seq(Elements)
      BY DEF StoreInv, StoreTypeOK, IsDisk
    <3>2. \A i \in there : source[i] \in DOMAIN disk
      BY DEF Exists
    <3> QED BY <1>4, <3>1, <3>2
  <2> QED BY <1>4, <2>1, <2>2, <2>4, <2>5 DEF StoreInv, StoreTypeOK, IsDisk
<1> HIDE DEF there
<1>7. StoreInv'
  <2>1. failures' \in Nat
    BY <1>2 DEF StoreInv, StoreTypeOK
  <2>2. \A q \in Objects, i \in Parts :
            TemporaryPath(q, i) \in DOMAIN disk' => q = o \/ Exists(TemporaryPath(q, i))
    BY <1>4 DEF Exists, TemporaryPath
  <2>3. \A i \in Parts : TemporaryPath(o, i) \in DOMAIN disk' <=> i \in there
    BY <1>3, <1>4 DEF TemporaryPath, there
  <2>4. \A i \in Parts : TemporaryPath(o, i) \in DOMAIN disk' <=>
                             TemporaryPath(o, LevelInfo) \in DOMAIN disk'
    BY <1>5, <2>3, PathsAreTyped
  <2>5. \A q \in DOMAIN object, i \in Parts :
            object[q].path[i] \in DOMAIN disk' <=> Exists(object[q].path[i])
    BY <1>3, <1>4 DEF Exists, there
  <2> QED BY <1>3, <1>6, <2>1, <2>2, <2>4, <2>5, TemporaryIs, StoreChange, PathsAreTyped
<1>8. /\ StoredUnder' = StoredUnder /\ Orphans' \subseteq Orphans
      /\ \A q \in DOMAIN object : object'[q] = object[q] /\ Contents'[q] = Contents[q]
  <2>1. \A x \in DOMAIN disk' : x \notin DOMAIN disk \/ disk'[x] # disk[x] =>
            \E i \in Parts : object'[o].path[i] = x
    BY <1>3, <1>4, TemporaryIs DEF there
  <2> QED BY <1>3, <1>4, <1>7, <2>1, TemporaryIs, OthersStay
<1>9. Contents'[o] = Contents[from]
  <2>1. Contents'[o] = [i \in Parts |-> IF TemporaryPath(o, i) \in DOMAIN disk'
                                        THEN disk'[TemporaryPath(o, i)] ELSE <<>>]
    BY <1>3, TemporaryIs DEF Contents, ContentsOf, ContentOf, Exists
  <2>2. \A i \in Parts : TemporaryPath(o, i) \in DOMAIN disk' <=> i \in there
    BY <1>3, <1>4 DEF TemporaryPath, there
  <2>3. Contents[from] = [i \in Parts |-> IF i \in there THEN disk[source[i]] ELSE <<>>]
    BY DEF Contents, ContentsOf, ContentOf, Exists, there
  <2> QED BY <1>4, <2>1, <2>2, <2>3
<1>10. StoreStep
  BY <1>3, <1>8, <1>9, TemporaryIs, StoreAdds
<1> QED BY <1>7, <1>8, <1>10

LEMMA PersistedIs ==
    ASSUME NEW p \in PathPrefixes
    PROVE  /\ Persisted(p) \in File /\ Persisted(p).persistent[LevelInfo]
           /\ Persisted(p).canonical_paths
           /\ \A i \in Parts : /\ Persisted(p).path[i] = Canonical(p, i)
                               /\ Persisted(p).persistent[i] = Persisted(p).persistent[LevelInfo]
BY PathsAreTyped DEF Persisted, File

LEMMA ReopenStep ==
    ASSUME StoreInv, NEW h, NEW p \in PathPrefixes, Reopen(h, p)
    PROVE  StoreInv' /\ StoreStep /\ Orphans' \subseteq Orphans
<1>1. PICK o \in Objects \ DOMAIN object : object' = With(object, o, Persisted(p))
  BY DEF Reopen
<1>2. disk' = disk /\ failures' = failures
  BY DEF Reopen
<1>3. /\ p \in KeptPrefixes
      /\ \A i \in Parts : /\ Canonical(p, i) \in DOMAIN disk
                          /\ \A q \in DOMAIN object, j \in Parts :
                                object[q].path[j] = Canonical(p, i) => IsPersistent(q)
  <2>1. p \in KeptPrefixes
    BY DEF Reopen, KeptPrefixes
  <2> QED BY <2>1, KeptIs
<1>4. /\ DOMAIN object' = DOMAIN object \cup {o} /\ object'[o] = Persisted(p)
      /\ object' \in [DOMAIN object' -> File]
      /\ \A q \in DOMAIN object : q # o /\ object'[q] = object[q]
      /\ \A i \in Parts : TemporaryPath(o, i) \notin DOMAIN disk
  BY <1>1, NewObject, PersistedIs
<1>5. StoreInv'
  <2>1. IsDisk(disk') /\ failures' \in Nat
    BY <1>2 DEF StoreInv, StoreTypeOK
  <2>2. \A q \in Objects, i \in Parts :
            TemporaryPath(q, i) \in DOMAIN disk' => q # o /\ Exists(TemporaryPath(q, i))
    BY <1>2, <1>4 DEF Exists
  <2>3. \A i \in Parts : Canonical(p, i) \in DOMAIN disk'
    BY <1>2, <1>3
  <2> QED BY <1>2, <1>3, <1>4, <2>1, <2>2, <2>3, PersistedIs, StoreChange, PathsAreTyped DEF Exists
<1>6. /\ StoredUnder' = StoredUnder /\ Orphans' \subseteq Orphans
      /\ \A q \in DOMAIN object : object'[q] = object[q] /\ Contents'[q] = Contents[q]
  BY <1>2, <1>4, <1>5, PersistedIs, OthersStay
<1>7. Contents'[o] = StoredUnder[p]
  BY <1>2, <1>3, <1>4, PersistedIs DEF Contents, ContentsOf, ContentOf, Exists, StoredUnder
<1>8. object'[o].path[LevelInfo][1] = p
  BY <1>4, PersistedIs, PathsAreTyped DEF Canonical
<1>9. StoreStep
  BY <1>3, <1>4, <1>6, <1>7, <1>8, PersistedIs, StoreAdds
<1> QED BY <1>5, <1>6, <1>9

(* An object that stays as it is while its files are written.              *)
LEMMA WriteStep ==
    ASSUME StoreInv, NEW o \in DOMAIN object, ~IsPersistent(o), object' = object, failures' = failures,
           IsDisk(disk'), DOMAIN disk \subseteq DOMAIN disk',
           \A x \in DOMAIN disk' : x \notin DOMAIN disk \/ disk'[x] # disk[x] =>
               \E i \in Parts : object[o].path[i] = x,
           \A i \in Parts : object[o].path[i] \in DOMAIN disk' <=> object[o].path[LevelInfo] \in DOMAIN disk'
    PROVE  /\ StoreInv' /\ Orphans' \subseteq Orphans /\ StoredUnder' = StoredUnder
           /\ \A q \in DOMAIN object : q # o =>
                 object'[q] = object[q] /\ Contents'[q] = Contents[q] /\ Undisturbed(q)
<1> USE DEF StoreInv
<1>1. o \in Objects /\ object[o] \in File
  BY ObjectIsFile
<1>2. ASSUME NEW q \in DOMAIN object, NEW i \in Parts, NEW j \in Parts,
             q # o, object[o].path[i] = object[q].path[j]
      PROVE  FALSE
  BY <1>2 DEF PathsAreOwn
<1>3. \A q \in DOMAIN object, i \in Parts :
          q # o => (object[q].path[i] \in DOMAIN disk' <=> Exists(object[q].path[i]))
  BY <1>2 DEF Exists
<1>4. ASSUME NEW q \in Objects, NEW i \in Parts, TemporaryPath(q, i) \in DOMAIN disk'
      PROVE  IF q = o THEN object[o].path[i] = TemporaryPath(o, i) ELSE Exists(TemporaryPath(q, i))
  <2>1. CASE TemporaryPath(q, i) \in DOMAIN disk
    BY <2>1 DEF TemporariesAreUsed, Exists
  <2>2. CASE TemporaryPath(q, i) \notin DOMAIN disk
    <3>1. PICK j \in Parts : object[o].path[j] = TemporaryPath(q, i)
      BY <1>4, <2>2
    <3>2. TemporaryPath(q, i) = TemporaryPath(o, j)
      BY <3>1, NamesDiffer DEF PathsAreNamed
    <3> QED BY <3>1, <3>2 DEF TemporaryPath
  <2> QED BY <2>1, <2>2
<1>5. /\ object' \in [DOMAIN object' -> File] /\ failures' \in Nat
      /\ DOMAIN object' = DOMAIN object \cup {o}
  BY DEF StoreTypeOK
<1>6. \A i \in Parts : \/ object[o].path[i] = TemporaryPath(o, i)
                       \/ \E p \in PathPrefixes : object[o].path[i] = Canonical(p, i)
  BY DEF PathsAreNamed
<1>7. /\ \A i \in Parts : object[o].persistent[i] = object[o].persistent[LevelInfo]
      /\ ~object[o].persistent[LevelInfo]
      /\ object[o].canonical_paths =>
             \E p \in PathPrefixes : \A i \in Parts : object[o].path[i] = Canonical(p, i)
  BY DEF CanonicalIsMeant, PartsAreInStep, IsPersistent
<1>8. StoreInv'
  <2>1. PICK f \in File : f = object[o]
    BY <1>1
  <2>2. /\ \A i \in Parts : \/ f.path[i] = TemporaryPath(o, i)
                             \/ \E p \in PathPrefixes : f.path[i] = Canonical(p, i)
        /\ \A q \in DOMAIN object, i, j \in Parts :
              q # o /\ f.path[i] = object[q].path[j] =>
                  f.persistent[LevelInfo] /\ IsPersistent(q)
        /\ \A i \in Parts : /\ f.persistent[i] = f.persistent[LevelInfo]
                            /\ f.path[i] \in DOMAIN disk' <=> f.path[LevelInfo] \in DOMAIN disk'
        /\ ~f.persistent[LevelInfo]
        /\ f.canonical_paths => \E p \in PathPrefixes : \A i \in Parts : f.path[i] = Canonical(p, i)
    BY <1>2, <1>6, <1>7, <2>1
  <2>3. \A q \in Objects, i \in Parts : TemporaryPath(q, i) \in DOMAIN disk' =>
            IF q = o THEN f.path[i] = TemporaryPath(o, i) ELSE Exists(TemporaryPath(q, i))
    BY <1>4, <2>1
  <2>4. object'[o] = f /\ \A q \in DOMAIN object : q # o => object'[q] = object[q]
    BY <2>1
  <2> QED BY <1>1, <1>3, <1>5, <2>2, <2>3, <2>4, StoreChange
<1>9. \A x \in DOMAIN disk' : x \notin DOMAIN disk \/ disk'[x] # disk[x] =>
          ~object'[o].persistent[LevelInfo] /\ \E i \in Parts : object'[o].path[i] = x
  BY <1>7
<1>10. \A q \in DOMAIN object : q # o => Undisturbed(q)
  BY <1>2 DEF Undisturbed, Exists
<1> QED BY <1>1, <1>5, <1>8, <1>9, <1>10, OthersStay

LEMMA TouchStep ==
    ASSUME StoreInv, NEW h, Touch(h), handle[h] \in DOMAIN object
    PROVE  /\ StoreInv' /\ StoreStep /\ Orphans' \subseteq Orphans
           /\ \A q \in DOMAIN object : q # handle[h] => Undisturbed(q)
<1>1. PICK o \in DOMAIN object :
         /\ o = handle[h] /\ object' = object /\ failures' = failures /\ ~FileExists(o)
         /\ disk' = Touched(disk, object[o])
  BY DEF Touch, TouchedUnlessExists
<1>2. ~IsPersistent(o)
  BY <1>1 DEF StoreInv, CanonicalIsMeant
<1>3. /\ Grows(disk') /\ DOMAIN disk' = DOMAIN disk \cup {object[o].path[i] : i \in Parts}
  BY <1>1, TouchedIs
<1>4. /\ StoreInv' /\ Orphans' \subseteq Orphans /\ StoredUnder' = StoredUnder
      /\ \A q \in DOMAIN object : q # o =>
            object'[q] = object[q] /\ Contents'[q] = Contents[q] /\ Undisturbed(q)
  BY <1>1, <1>2, <1>3, WriteStep DEF Grows
<1>5. Contents'[o] = Contents[o]
  <2>1. \A i \in Parts : ContentOf(object[o].path[i])' = ContentOf(object[o].path[i])
    BY <1>1, <1>3 DEF Grows, ContentOf, Exists
  <2>2. ContentsOf(object[o].path)' = ContentsOf(object[o].path)
    BY <1>1, <2>1 DEF ContentsOf
  <2> QED BY <1>1, <2>2 DEF Contents, ContentsOf, ContentOf, Exists
<1>6. StoreStep
  BY <1>1, <1>2, <1>4, <1>5, StoreMoves DEF IsPersistent
<1> QED BY <1>1, <1>4, <1>6

(* One part of a file that is not persistent gets another content.         *)
LEMMA PartStep ==
    ASSUME StoreInv, NEW o \in DOMAIN object, ~IsPersistent(o), object' = object, failures' = failures,
           NEW i \in Parts, Exists(object[o].path[i]), NEW s \in Seq(Elements),
           disk' = [disk EXCEPT ![object[o].path[i]] = s],
           s \in Store!Successors(disk[object[o].path[i]])
    PROVE  /\ StoreInv' /\ StoreStep /\ Orphans' \subseteq Orphans
           /\ \A q \in DOMAIN object : q # o => Undisturbed(q)
<1> DEFINE path == object[o].path[i]
<1>1. /\ DOMAIN disk' = DOMAIN disk /\ disk'[path] = s
      /\ \A x \in DOMAIN disk : x # path => disk'[x] = disk[x]
  BY DEF Exists
<1>2. IsDisk(disk')
  BY <1>1 DEF StoreInv, StoreTypeOK, IsDisk
<1>3. \A j \in Parts : object[o].path[j] \in DOMAIN disk' <=> object[o].path[LevelInfo] \in DOMAIN disk'
  BY <1>1 DEF StoreInv, PartsAreInStep, FileExists, Exists
<1>4. /\ StoreInv' /\ Orphans' \subseteq Orphans /\ StoredUnder' = StoredUnder
      /\ \A q \in DOMAIN object : q # o =>
            object'[q] = object[q] /\ Contents'[q] = Contents[q] /\ Undisturbed(q)
  <2>1. \A x \in DOMAIN disk' : x \notin DOMAIN disk \/ disk'[x] # disk[x] =>
            \E j \in Parts : object[o].path[j] = x
    BY <1>1
  <2> QED BY <1>1, <1>2, <1>3, <2>1, WriteStep
<1>5. \A j \in Parts : j # i => object[o].path[j] # path
  BY DEF StoreInv, PathsAreNamed, TemporaryPath, Canonical
<1>6. /\ Contents'[o] = [j \in Parts |-> ContentOf(object[o].path[j])']
      /\ Contents[o] = [j \in Parts |-> ContentOf(object[o].path[j])]
  BY DEF Contents, ContentsOf, ContentOf, Exists
<1>7. /\ ContentOf(path)' = s /\ ContentOf(path) = disk[path]
      /\ \A j \in Parts : j # i => ContentOf(object[o].path[j])' = ContentOf(object[o].path[j])
  BY <1>1, <1>5 DEF ContentOf, Exists
<1>8. /\ Contents'[o] = [Contents[o] EXCEPT ![i] = s] /\ Contents[o][i] = disk[path]
  BY <1>6, <1>7
<1>9. StoreStep
  BY <1>4, <1>8, StoreChanges DEF IsPersistent
<1> QED BY <1>4, <1>9

LEMMA SortingsAgree == ASSUME NEW s PROVE Store!Sortings(s) = Sortings(s)
BY DEF Sortings, Store!Sortings, Bijection, Store!Bijection,
       Injection, Store!Injection, IsInjective, Store!IsInjective, Surjection, Store!Surjection

(* Sorting keeps a file a file.                                            *)
LEMMA SortingIsFile ==
    ASSUME NEW S, NEW s \in Seq(S), NEW t \in Sortings(s)
    PROVE  t \in Seq(S)
<1>1. PICK p \in Bijection(1 .. Len(s), 1 .. Len(s)) : t = [k \in 1 .. Len(s) |-> s[p[k]]]
  BY DEF Sortings
<1>2. p \in [1 .. Len(s) -> 1 .. Len(s)]
  BY <1>1 DEF Bijection, Injection
<1>3. Len(s) \in Nat /\ t \in [1 .. Len(s) -> S]
  BY <1>1, <1>2
<1> QED BY <1>3

LEMMA SortStep ==
    ASSUME StoreInv, NEW h, NEW i \in Parts, Sort(h, i), handle[h] \in DOMAIN object
    PROVE  /\ StoreInv' /\ StoreStep /\ Orphans' \subseteq Orphans
           /\ \A q \in DOMAIN object : q # handle[h] => Undisturbed(q)
<1> DEFINE o == handle[h]
           path == object[o].path[i]
<1>1. PICK s \in Sortings(disk[path]) : disk' = [disk EXCEPT ![path] = s]
  BY DEF Sort
<1>2. /\ ~IsPersistent(o) /\ object' = object /\ failures' = failures /\ Exists(path)
  BY DEF Sort
<1>3. disk[path] \in Seq(Elements)
  BY <1>2 DEF StoreInv, StoreTypeOK, IsDisk, Exists
<1>4. s \in Seq(Elements) /\ s \in Store!Sortings(disk[path])
  <2> HIDE DEF path
  <2> QED BY <1>1, <1>3, SortingIsFile, SortingsAgree
<1>5. s \in Store!Successors(disk[path])
  BY <1>4 DEF Store!Successors
<1> HIDE DEF o
<1>6. o \in DOMAIN object
  BY DEF o
<1>7. /\ StoreInv' /\ StoreStep /\ Orphans' \subseteq Orphans
      /\ \A q \in DOMAIN object : q # o => Undisturbed(q)
  BY <1>1, <1>2, <1>4, <1>5, <1>6, PartStep
<1> QED BY <1>7 DEF o

LEMMA PushStep ==
    ASSUME StoreInv, NEW i \in Parts, NEW e \in Elements, Push(i, e),
           writer.file_ptr \in DOMAIN object, ~IsPersistent(writer.file_ptr),
           FileExists(writer.file_ptr)
    PROVE  /\ StoreInv' /\ StoreStep /\ Orphans' \subseteq Orphans
           /\ \A q \in DOMAIN object : q # writer.file_ptr => Undisturbed(q)
<1> DEFINE o == writer.file_ptr
           path == object[o].path[i]
           s == Append(disk[path], e)
<1>1. /\ disk' = [disk EXCEPT ![path] = s] /\ object' = object /\ failures' = failures
  BY DEF Push
<1>2. Exists(path)
  BY DEF StoreInv, PartsAreInStep
<1>3. disk[path] \in Seq(Elements) /\ s \in Seq(Elements)
  BY <1>2 DEF StoreInv, StoreTypeOK, IsDisk, Exists
<1>4. s \in Store!Successors(disk[path])
  BY DEF Store!Successors
<1> HIDE DEF o, s
<1>5. o \in DOMAIN object /\ ~IsPersistent(o)
  BY DEF o
<1>6. /\ StoreInv' /\ StoreStep /\ Orphans' \subseteq Orphans
      /\ \A q \in DOMAIN object : q # o => Undisturbed(q)
  BY <1>1, <1>2, <1>3, <1>4, <1>5, PartStep
<1> QED BY <1>6 DEF o

-----------------------------------------------------------------------------
(* Moving                                                                  *)

LEMMA MovedDiskIs ==
    ASSUME StoreInv, NEW o \in DOMAIN object, NEW prefix \in PathPrefixes,
           \A i \in Parts : ~Exists(Canonical(prefix, i)),
           NEW moved \in SUBSET Parts, NEW d, d = MovedDisk(object[o], prefix, moved)
    PROVE  /\ \A x : x \in DOMAIN d <=>
                 \/ x \in DOMAIN disk /\ \A i \in moved : x # object[o].path[i]
                 \/ \E i \in moved : x = Canonical(prefix, i) /\ Exists(object[o].path[i])
           /\ \A x \in DOMAIN disk : x \in DOMAIN d => d[x] = disk[x]
           /\ \A i \in moved : Exists(object[o].path[i]) =>
                 d[Canonical(prefix, i)] = disk[object[o].path[i]]
           /\ IsDisk(d)
<1> DEFINE path == object[o].path
           from == {i \in moved : Exists(path[i])}
           left == Restrict(disk, DOMAIN disk \ {path[i] : i \in from})
           new  == [x \in {Canonical(prefix, i) : i \in from} |-> disk[path[x[2]]]]
<1>1. d = Extended(left, new)
  BY DEF MovedDisk
<1>2. /\ DOMAIN left = DOMAIN disk \ {path[i] : i \in from}
      /\ \A x \in DOMAIN left : left[x] = disk[x]
  BY DEF Restrict
<1>3. /\ DOMAIN new = {Canonical(prefix, i) : i \in from}
      /\ \A i \in from : new[Canonical(prefix, i)] = disk[path[i]]
      /\ \A i \in from : path[i] \in DOMAIN disk /\ Canonical(prefix, i) \notin DOMAIN disk
  BY DEF Canonical, Exists
<1> HIDE DEF left, new
<1>4. /\ DOMAIN d = DOMAIN left \cup DOMAIN new
      /\ d = [x \in DOMAIN d |-> d[x]]
      /\ \A x \in DOMAIN left : d[x] = left[x]
      /\ \A x \in DOMAIN new : x \notin DOMAIN left => d[x] = new[x]
  BY <1>1 DEF Extended
<1>5. \A x : x \in DOMAIN d <=>
          \/ x \in DOMAIN disk /\ \A i \in moved : x # path[i]
          \/ \E i \in moved : x = Canonical(prefix, i) /\ Exists(path[i])
  BY <1>2, <1>3, <1>4 DEF Exists
<1>6. \A x \in DOMAIN disk : x \in DOMAIN d => d[x] = disk[x]
  BY <1>2, <1>3, <1>4
<1>7. \A i \in moved : Exists(path[i]) => d[Canonical(prefix, i)] = disk[path[i]]
  BY <1>2, <1>3, <1>4
<1>8. IsDisk(d)
  <2> DEFINE f == [i \in Parts |-> Canonical(prefix, i)]
             all == {Canonical(prefix, i) : i \in Parts}
  <2>1. IsFiniteSet(all) /\ all \subseteq Path
    <3>1. f \in [Parts -> Path] /\ all = {f[i] : i \in Parts}
      BY PathsAreTyped
    <3> HIDE DEF f, all
    <3> QED BY <3>1, PathsAreFinite
  <2>2. DOMAIN d \subseteq DOMAIN disk \cup all
    BY <1>5
  <2> HIDE DEF all
  <2>3. IsFiniteSet(DOMAIN disk \cup all)
    BY <2>1, FS_Union, Zenon DEF StoreInv, StoreTypeOK, IsDisk
  <2>4. IsFiniteSet(DOMAIN d)
    BY <2>2, <2>3, FS_Subset, Zenon
  <2>5. \A x \in DOMAIN d : d[x] \in Seq(Elements)
    <3>1. \A x \in DOMAIN disk : disk[x] \in Seq(Elements)
      BY DEF StoreInv, StoreTypeOK, IsDisk
    <3> QED BY <1>3, <1>5, <1>6, <1>7, <3>1
  <2> QED BY <1>4, <2>1, <2>2, <2>4, <2>5 DEF StoreInv, StoreTypeOK, IsDisk
<1> QED BY <1>5, <1>6, <1>7, <1>8

(* A move of some of the parts, all of them if it succeeds.  `extra` is    *)
(* the copy of one more part that may have been left behind.               *)
IsMoved(o, prefix, moved, part, extra, f, d) ==
    /\ CanMoveTo(o, prefix)
    /\ d = MovedDisk(object[o], prefix, moved)
    /\ extra # {} => part \notin moved /\ Exists(object[o].path[part])
    /\ object' = [object EXCEPT ![o] = f]
    /\ \A i \in Parts : f.path[i] = IF i \in moved THEN Canonical(prefix, i) ELSE object[o].path[i]
    /\ f.persistent = object[o].persistent
    /\ f.canonical_paths => moved = Parts
    /\ DOMAIN disk' = DOMAIN d \cup extra
    /\ \A x \in DOMAIN d : disk'[x] = d[x]
    /\ IsDisk(disk')
    /\ failures' \in Nat

LEMMA MovedStep ==
    ASSUME StoreInv, NEW o \in DOMAIN object, NEW prefix \in PathPrefixes,
           NEW moved \in SUBSET Parts, NEW part \in Parts,
           NEW extra \in SUBSET {Canonical(prefix, part)}, NEW f \in File, NEW d,
           IsMoved(o, prefix, moved, part, extra, f, d)
    PROVE  /\ StoreInv' /\ StoreStep /\ Orphans' \subseteq Orphans \cup extra
           /\ \A q \in DOMAIN object : q # o => Undisturbed(q)
<1> USE DEF StoreInv, IsMoved
<1> DEFINE path == object[o].path
<1>1. /\ ~IsPersistent(o) /\ o \in Objects
      /\ \A i \in Parts : Canonical(prefix, i) \notin DOMAIN disk
      /\ \A q \in DOMAIN object, i, j \in Parts : q # o => object[q].path[i] # Canonical(prefix, j)
      /\ \A i, j \in Parts : path[i] = path[j] => i = j
      /\ \A i, j \in Parts : path[i] = Canonical(prefix, j) => i = j
      /\ \A q \in DOMAIN object, i, j \in Parts : q # o => object[q].path[i] # path[j]
  BY DEF CanMoveTo, Exists, PathsAreNamed, TemporaryPath, Canonical, PathsAreOwn, StoreTypeOK
<1>2. /\ \A x : x \in DOMAIN disk' <=>
              \/ x \in DOMAIN disk /\ \A i \in moved : x # path[i]
              \/ \E i \in moved : x = Canonical(prefix, i) /\ path[i] \in DOMAIN disk
              \/ x \in extra
      /\ \A x \in DOMAIN disk : x \in DOMAIN disk' => disk'[x] = disk[x]
      /\ \A i \in moved : path[i] \in DOMAIN disk => disk'[Canonical(prefix, i)] = disk[path[i]]
  <2>1. /\ \A x : x \in DOMAIN d <=>
              \/ x \in DOMAIN disk /\ \A i \in moved : x # path[i]
              \/ \E i \in moved : x = Canonical(prefix, i) /\ path[i] \in DOMAIN disk
        /\ \A x \in DOMAIN disk : x \in DOMAIN d => d[x] = disk[x]
        /\ \A i \in moved : path[i] \in DOMAIN disk => d[Canonical(prefix, i)] = disk[path[i]]
    BY <1>1, MovedDiskIs DEF Exists
  <2>2. \A x \in extra : x \notin DOMAIN disk
    BY <1>1
  <2> QED BY <2>1, <2>2
<1>3. /\ DOMAIN object' = DOMAIN object /\ object'[o] = f
      /\ object' \in [DOMAIN object' -> File]
      /\ \A q \in DOMAIN object : q # o => object'[q] = object[q]
      /\ ~f.persistent[LevelInfo]
  BY <1>1 DEF StoreTypeOK, IsPersistent
<1>4. ASSUME NEW i \in Parts, f.path[i] \in extra
      PROVE  FALSE
  <2>1. f.path[i] = Canonical(prefix, part) /\ part \notin moved /\ path[part] \in DOMAIN disk
    BY <1>4 DEF Exists
  <2>2. CASE i \in moved
    <3>1. Canonical(prefix, i) = Canonical(prefix, part)
      BY <2>1, <2>2
    <3> QED BY <2>1, <2>2, <3>1 DEF Canonical
  <2>3. CASE i \notin moved
    <3>1. path[i] = Canonical(prefix, part)
      BY <2>1, <2>3
    <3> QED BY <1>1, <2>1, <3>1
  <2> QED BY <2>2, <2>3
<1>5. ASSUME NEW i \in Parts
      PROVE  /\ f.path[i] \in DOMAIN disk' <=> path[i] \in DOMAIN disk
             /\ path[i] \in DOMAIN disk => disk'[f.path[i]] = disk[path[i]]
  <2>1. CASE i \in moved
    <3>1. f.path[i] = Canonical(prefix, i)
      BY <2>1
    <3>2. Canonical(prefix, i) \notin DOMAIN disk /\ Canonical(prefix, i) \notin extra
      BY <1>1, <1>4, <3>1
    <3>3. \A j \in moved : Canonical(prefix, i) = Canonical(prefix, j) => i = j
      BY DEF Canonical
    <3>4. Canonical(prefix, i) \in DOMAIN disk' <=> path[i] \in DOMAIN disk
      BY <1>2, <2>1, <3>2, <3>3
    <3> QED BY <1>2, <2>1, <3>1, <3>4
  <2>2. CASE i \notin moved
    <3>1. \A j \in moved : path[j] # path[i]
      BY <1>1, <2>2
    <3>2. \A j \in moved : path[i] # Canonical(prefix, j)
      BY <1>1, <2>2
    <3> QED BY <1>2, <1>4, <2>2, <3>1, <3>2
  <2> QED BY <2>1, <2>2
<1>6. ASSUME NEW q \in DOMAIN object, q # o, NEW i \in Parts
      PROVE  /\ object[q].path[i] \in DOMAIN disk' <=> object[q].path[i] \in DOMAIN disk
             /\ object[q].path[i] \in DOMAIN disk => disk'[object[q].path[i]] = disk[object[q].path[i]]
  <2>1. object[q].path[i] \notin extra
    BY <1>1, <1>6
  <2>2. \A j \in moved : object[q].path[i] # path[j] /\ object[q].path[i] # Canonical(prefix, j)
    BY <1>1, <1>6
  <2> QED BY <1>2, <2>1, <2>2
<1>7. StoreInv'
  <2>1. /\ \A i \in Parts : \/ f.path[i] = TemporaryPath(o, i)
                            \/ \E p \in PathPrefixes : f.path[i] = Canonical(p, i)
        /\ \A q \in DOMAIN object, i, j \in Parts : q # o => f.path[i] # object[q].path[j]
    BY <1>1 DEF PathsAreNamed
  <2>2. ASSUME NEW q \in Objects, NEW i \in Parts, TemporaryPath(q, i) \in DOMAIN disk'
        PROVE  IF q = o THEN f.path[i] = TemporaryPath(o, i) ELSE Exists(TemporaryPath(q, i))
    <3>1. \A j \in Parts : TemporaryPath(q, i) # Canonical(prefix, j)
      BY NamesDiffer
    <3>2. TemporaryPath(q, i) \in DOMAIN disk /\ \A j \in moved : TemporaryPath(q, i) # path[j]
      BY <1>2, <2>2, <3>1
    <3> QED BY <3>2 DEF TemporariesAreUsed, Exists
  <2>3. /\ \A i \in Parts : /\ f.persistent[i] = f.persistent[LevelInfo]
                            /\ f.path[i] \in DOMAIN disk' <=> f.path[LevelInfo] \in DOMAIN disk'
        /\ f.canonical_paths => \E p \in PathPrefixes : \A i \in Parts : f.path[i] = Canonical(p, i)
    <3>1. \A i \in Parts : f.path[i] \in DOMAIN disk' <=> f.path[LevelInfo] \in DOMAIN disk'
      BY <1>5, PathsAreTyped DEF PartsAreInStep, FileExists, Exists
    <3>2. \A i \in Parts : f.persistent[i] = f.persistent[LevelInfo]
      BY DEF PartsAreInStep, IsPersistent
    <3>3. f.canonical_paths => \A i \in Parts : f.path[i] = Canonical(prefix, i)
      OBVIOUS
    <3> QED BY <3>1, <3>2, <3>3
  <2>4. DOMAIN object' = DOMAIN object \cup {o}
    BY <1>3
  <2>5. \A q \in DOMAIN object, i \in Parts :
            q # o => (object[q].path[i] \in DOMAIN disk' <=> Exists(object[q].path[i]))
    BY <1>6 DEF Exists
  <2> QED BY <1>1, <1>3, <2>1, <2>2, <2>3, <2>4, <2>5, StoreChange
<1>8. ASSUME NEW p \in PathPrefixes
      PROVE  /\ p \in KeptPrefixes' <=> p \in KeptPrefixes
             /\ p \in KeptPrefixes => p # prefix
  <2>1. ASSUME p \in KeptPrefixes
        PROVE  p # prefix /\ p \in KeptPrefixes'
    <3>1. \A i \in Parts : /\ Canonical(p, i) \in DOMAIN disk
                           /\ \A q \in DOMAIN object, j \in Parts :
                                 object[q].path[j] = Canonical(p, i) => q # o /\ IsPersistent(q)
      BY <1>1, <2>1, KeptIs
    <3>2. p # prefix
      BY <1>1, <3>1, PathsAreTyped
    <3>3. \A i \in Parts : Canonical(p, i) \in DOMAIN disk'
      BY <1>2, <3>1
    <3>4. ASSUME NEW i \in Parts, NEW q \in DOMAIN object', NEW j \in Parts,
                 object'[q].path[j] = Canonical(p, i)
          PROVE  IsPersistent(q)'
      <4>1. CASE q = o
        <5>1. f.path[j] = Canonical(p, i)
          BY <1>3, <3>4, <4>1
        <5>2. CASE j \in moved
          <6>1. Canonical(prefix, j) = Canonical(p, i)
            BY <5>1, <5>2
          <6> QED BY <3>2, <6>1 DEF Canonical
        <5>3. CASE j \notin moved
          <6>1. path[j] = Canonical(p, i)
            BY <5>1, <5>3
          <6> QED BY <3>1, <6>1
        <5> QED BY <5>2, <5>3
      <4>2. CASE q # o
        BY <1>3, <3>1, <3>4, <4>2 DEF IsPersistent
      <4> QED BY <4>1, <4>2
    <3> QED BY <1>7, <3>2, <3>3, <3>4, KeptAfter
  <2>2. ASSUME p \in KeptPrefixes'
        PROVE  p \in KeptPrefixes
    <3>1. \A i \in Parts : /\ Canonical(p, i) \in DOMAIN disk'
                           /\ \A q \in DOMAIN object', j \in Parts :
                                 object'[q].path[j] = Canonical(p, i) => object'[q].persistent[LevelInfo]
      BY <1>7, <2>2, KeptAfter DEF IsPersistent
    <3>2. p # prefix
      <4> SUFFICES ASSUME p = prefix PROVE FALSE
        OBVIOUS
      <4>1. moved = {}
        BY <1>3, <3>1
      <4>2. \A i \in Parts : Canonical(prefix, i) \in extra
        BY <1>1, <1>2, <3>1, <4>1
      <4>3. Canonical(prefix, 0) = Canonical(prefix, LevelInfo)
        BY <4>2, PathsAreTyped
      <4> QED BY <4>3, PathsAreTyped DEF Canonical
    <3>3. \A i \in Parts : Canonical(p, i) \in DOMAIN disk /\ \A j \in moved : Canonical(p, i) # path[j]
      BY <1>2, <3>1, <3>2 DEF Canonical
    <3>4. ASSUME NEW i \in Parts, NEW q \in DOMAIN object, NEW j \in Parts,
                 object[q].path[j] = Canonical(p, i)
          PROVE  IsPersistent(q)
      <4>1. CASE q = o
        <5>1. j \notin moved
          BY <3>3, <3>4, <4>1
        <5> QED BY <1>3, <3>1, <3>4, <4>1, <5>1
      <4>2. CASE q # o
        BY <1>3, <3>1, <3>4, <4>2 DEF IsPersistent
      <4> QED BY <4>1, <4>2
    <3> QED BY <3>3, <3>4, KeptIs
  <2> QED BY <2>1, <2>2
<1>9. KeptPrefixes' = KeptPrefixes
  BY <1>7, <1>8, KeptIs, KeptAfter
<1>10. StoredUnder' = StoredUnder
  <2>1. ASSUME NEW p \in KeptPrefixes, NEW i \in Parts
        PROVE  disk'[Canonical(p, i)] = disk[Canonical(p, i)]
    <3>1. Canonical(p, i) \in DOMAIN disk /\ Canonical(p, i) \in DOMAIN disk'
      BY <1>7, <1>9, KeptIs, KeptAfter
    <3> QED BY <1>2, <3>1
  <2> QED BY <1>9, <2>1, KeptStays
<1>11. ASSUME NEW q \in DOMAIN object
       PROVE  Contents'[q] = Contents[q]
  <2>1. /\ Contents[q] = [i \in Parts |-> IF object[q].path[i] \in DOMAIN disk
                                          THEN disk[object[q].path[i]] ELSE <<>>]
        /\ Contents'[q] = [i \in Parts |-> IF object'[q].path[i] \in DOMAIN disk'
                                           THEN disk'[object'[q].path[i]] ELSE <<>>]
    BY <1>3 DEF Contents, ContentsOf, ContentOf, Exists
  <2>2. CASE q = o
    BY <1>3, <1>5, <2>1, <2>2
  <2>3. CASE q # o
    BY <1>3, <1>6, <2>1, <2>3
  <2> QED BY <2>2, <2>3
<1>12. StoreStep
  BY <1>1, <1>3, <1>10, <1>11, StoreMoves
<1>13. Orphans' \subseteq Orphans \cup extra
  <2> SUFFICES ASSUME NEW x \in Orphans', x \notin extra PROVE x \in Orphans
    OBVIOUS
  <2>1. /\ x \in DOMAIN disk' /\ x \notin KeptPrefixes \X Parts
        /\ \A q \in DOMAIN object', i \in Parts : object'[q].path[i] # x
    BY <1>9, OrphansAre
  <2>2. x \in DOMAIN disk /\ \A i \in moved : x # path[i]
    BY <1>2, <1>3, <2>1
  <2>3. \A q \in DOMAIN object, i \in Parts : object[q].path[i] # x
    BY <1>3, <2>1, <2>2
  <2> QED BY <2>1, <2>2, <2>3, OrphansAre
<1>14. \A q \in DOMAIN object : q # o => Undisturbed(q)
  BY <1>3, <1>6 DEF Undisturbed, Exists
<1> QED BY <1>7, <1>12, <1>13, <1>14

LEMMA MoveOrderIs ==
    /\ DOMAIN MoveOrder = 1 .. FILES + 1
    /\ \A k \in 1 .. FILES + 1 : MoveOrder[k] = IF k = 1 THEN LevelInfo ELSE k - 2
<1> DEFINE s == [i \in 1 .. FILES |-> i - 1]
<1>1. s \in Seq(Nat) /\ Len(s) = FILES
  BY FilesAssumption
<1>2. <<LevelInfo>> \in Seq(Nat) /\ Len(<<LevelInfo>>) = 1
  BY FilesAssumption DEF LevelInfo
<1>3. \A k \in 1 .. FILES : s[k] = k - 1
  OBVIOUS
<1> HIDE DEF s
<1>4. /\ Len(<<LevelInfo>> \o s) = 1 + FILES
      /\ \A k \in 1 .. 1 + FILES :
            (<<LevelInfo>> \o s)[k] = IF k <= 1 THEN <<LevelInfo>>[k] ELSE s[k - 1]
      /\ <<LevelInfo>> \o s \in Seq(Nat)
  BY <1>1, <1>2, ConcatProperties
<1>5. MoveOrder = <<LevelInfo>> \o s
  BY DEF MoveOrder, s
<1>6. FILES + 1 = 1 + FILES /\ FILES \in Nat
  BY FilesAssumption
<1>7. DOMAIN MoveOrder = 1 .. FILES + 1
  BY <1>4, <1>5, <1>6
<1>8. ASSUME NEW k \in 1 .. FILES + 1
      PROVE  MoveOrder[k] = IF k = 1 THEN LevelInfo ELSE k - 2
  <2>1. CASE k = 1
    BY <1>4, <1>5, <1>6, <2>1
  <2>2. CASE k # 1
    <3>1. MoveOrder[k] = s[k - 1] /\ k - 1 \in 1 .. FILES
      BY <1>4, <1>5, <1>6, <2>2
    <3> QED BY <1>3, <1>6, <2>2, <3>1
  <2> QED BY <2>1, <2>2
<1> QED BY <1>7, <1>8

(* The parts before the one that fails are others than it.                 *)
LEMMA MoveOrderSplits ==
    ASSUME NEW n \in 0 .. FILES
    PROVE  /\ {MoveOrder[k] : k \in 1 .. n} \in SUBSET Parts
           /\ MoveOrder[n + 1] \in Parts
           /\ MoveOrder[n + 1] \notin {MoveOrder[k] : k \in 1 .. n}
<1>1. FILES \in Nat /\ n \in Nat /\ n + 1 \in 1 .. FILES + 1
  BY FilesAssumption
<1>2. ASSUME NEW k \in 1 .. n
      PROVE  MoveOrder[k] \in Parts /\ MoveOrder[k] # MoveOrder[n + 1]
  <2>1. k \in 1 .. FILES + 1 /\ k # n + 1
    BY <1>1
  <2>2. /\ MoveOrder[k] = IF k = 1 THEN FILES ELSE k - 2
        /\ MoveOrder[n + 1] = IF n + 1 = 1 THEN FILES ELSE n + 1 - 2
    BY <1>1, <2>1, MoveOrderIs DEF LevelInfo
  <2> QED BY <1>1, <2>1, <2>2 DEF Parts
<1>3. MoveOrder[n + 1] \in Parts
  BY <1>1, MoveOrderIs DEF LevelInfo, Parts
<1> QED BY <1>2, <1>3

LEMMA MovedFileIs ==
    ASSUME StoreTypeOK, NEW o \in DOMAIN object, NEW prefix \in PathPrefixes, NEW moved \in SUBSET Parts
    PROVE  /\ MovedFile(object[o], prefix, moved) \in File
           /\ MovedFile(object[o], prefix, moved).persistent = object[o].persistent
           /\ MovedFile(object[o], prefix, moved).canonical_paths = object[o].canonical_paths
           /\ \A i \in Parts : MovedFile(object[o], prefix, moved).path[i] =
                 IF i \in moved THEN Canonical(prefix, i) ELSE object[o].path[i]
<1>1. object[o] \in File /\ \A i \in Parts : object[o].path[i] \in Path /\ Canonical(prefix, i) \in Path
  BY ObjectIsFile, PathsAreTyped
<1> QED BY <1>1 DEF MovedFile, File

LEMMA AllMovedIs ==
    ASSUME StoreTypeOK, NEW o \in DOMAIN object, NEW prefix \in PathPrefixes
    PROVE  /\ AllMoved(o, prefix) \in File
           /\ AllMoved(o, prefix).persistent = object[o].persistent
           /\ \A i \in Parts : AllMoved(o, prefix).path[i] = Canonical(prefix, i)
<1>1. PICK f \in File : f = MovedFile(object[o], prefix, Parts)
  BY MovedFileIs
<1>2. /\ f.persistent = object[o].persistent
      /\ \A i \in Parts : f.path[i] = Canonical(prefix, i)
  BY <1>1, MovedFileIs
<1>3. AllMoved(o, prefix) = [f EXCEPT !.canonical_paths = TRUE]
  BY <1>1 DEF AllMoved
<1> QED BY <1>2, <1>3 DEF File

LEMMA MoveStep ==
    ASSUME StoreInv, NEW h, NEW prefix \in PathPrefixes, Move(h, prefix), handle[h] \in DOMAIN object
    PROVE  /\ StoreInv' /\ StoreStep /\ Orphans' \subseteq Orphans
           /\ \A q \in DOMAIN object : q # handle[h] => Undisturbed(q)
<1>1. PICK o \in DOMAIN object : o = handle[h]
  OBVIOUS
<1>2. /\ CanMoveTo(o, prefix) /\ object' = [object EXCEPT ![o] = AllMoved(o, prefix)]
      /\ disk' = MovedDisk(object[o], prefix, Parts) /\ failures' = failures
  BY <1>1 DEF Move
<1>3. PICK f \in File : f = AllMoved(o, prefix)
  BY AllMovedIs DEF StoreInv
<1>4. /\ \A i \in Parts : f.path[i] = IF i \in Parts THEN Canonical(prefix, i) ELSE object[o].path[i]
      /\ f.persistent = object[o].persistent
  BY <1>3, AllMovedIs DEF StoreInv
<1>5. \A i \in Parts : ~Exists(Canonical(prefix, i))
  BY <1>2 DEF CanMoveTo
<1>6. PICK d : d = disk'
  OBVIOUS
<1>7. IsDisk(d)
  BY <1>2, <1>5, <1>6, MovedDiskIs
<1>8. failures' \in Nat
  BY <1>2 DEF StoreInv, StoreTypeOK
<1>9. \E part \in Parts : TRUE
  BY PathsAreTyped
<1>10. PICK extra : extra = {}
  OBVIOUS
<1>11. PICK part \in Parts : TRUE
  BY <1>9
<1>12. /\ extra \in SUBSET {Canonical(prefix, part)} /\ Parts \in SUBSET Parts
       /\ DOMAIN disk' = DOMAIN d \cup extra /\ \A x \in DOMAIN d : disk'[x] = d[x]
       /\ IsDisk(disk') /\ d = MovedDisk(object[o], prefix, Parts)
       /\ object' = [object EXCEPT ![o] = f]
  BY <1>2, <1>3, <1>6, <1>7, <1>10
<1>13. IsMoved(o, prefix, Parts, part, extra, f, d)
  BY <1>2, <1>4, <1>8, <1>10, <1>12 DEF IsMoved
<1>14. /\ StoreInv' /\ StoreStep /\ Orphans' \subseteq Orphans \cup extra
       /\ \A q \in DOMAIN object : q # o => Undisturbed(q)
  BY <1>12, <1>13, MovedStep
<1> QED BY <1>1, <1>10, <1>14

LEMMA MoveFailsStep ==
    ASSUME StoreInv, NEW h, NEW prefix \in PathPrefixes, MoveFails(h, prefix), handle[h] \in DOMAIN object
    PROVE  /\ StoreInv' /\ StoreStep /\ \E x : Orphans' \subseteq Orphans \cup {x}
           /\ \A q \in DOMAIN object : q # handle[h] => Undisturbed(q)
<1>1. PICK o \in DOMAIN object : o = handle[h]
  OBVIOUS
<1>2. PICK n \in 0 .. FILES, copied \in BOOLEAN :
        LET moved == {MoveOrder[k] : k \in 1 .. n}
            part  == MoveOrder[n + 1]
            path  == object[o].path[part]
        IN  /\ Exists(path)
            /\ object' = [object EXCEPT ![o] = FailedMove(MovedFile(@, prefix, moved))]
            /\ disk' = IF copied
                       THEN With(MovedDisk(object[o], prefix, moved),
                                 Canonical(prefix, part), disk[path])
                       ELSE MovedDisk(object[o], prefix, moved)
  BY <1>1 DEF MoveFails
<1>3. CanMoveTo(o, prefix) /\ ~object[o].canonical_paths /\ failures' = failures + 1
  BY <1>1 DEF MoveFails
<1>4. PICK moved \in SUBSET Parts, part \in Parts :
        /\ moved = {MoveOrder[k] : k \in 1 .. n} /\ part = MoveOrder[n + 1] /\ part \notin moved
  BY MoveOrderSplits
<1>5. PICK d : d = MovedDisk(object[o], prefix, moved)
  OBVIOUS
<1>6. PICK f \in File : f = MovedFile(object[o], prefix, moved)
  BY MovedFileIs DEF StoreInv
<1>7. /\ Exists(object[o].path[part])
      /\ object' = [object EXCEPT ![o] = f]
      /\ disk' = IF copied THEN With(d, Canonical(prefix, part), disk[object[o].path[part]]) ELSE d
  BY <1>2, <1>4, <1>5, <1>6 DEF FailedMove
<1>8. /\ \A i \in Parts : f.path[i] = IF i \in moved THEN Canonical(prefix, i) ELSE object[o].path[i]
      /\ f.persistent = object[o].persistent /\ ~f.canonical_paths
  BY <1>3, <1>6, MovedFileIs DEF StoreInv
<1>9. IsDisk(d) /\ \A x \in DOMAIN d : x # Canonical(prefix, part)
  <2>1. \A i \in Parts : ~Exists(Canonical(prefix, i))
    BY <1>3 DEF CanMoveTo
  <2>2. /\ IsDisk(d)
        /\ \A x : x \in DOMAIN d <=>
                 \/ x \in DOMAIN disk /\ \A i \in moved : x # object[o].path[i]
                 \/ \E i \in moved : x = Canonical(prefix, i) /\ Exists(object[o].path[i])
    BY <1>5, <2>1, MovedDiskIs
  <2>3. \A i \in moved : Canonical(prefix, i) # Canonical(prefix, part)
    BY <1>4 DEF Canonical
  <2> QED BY <2>1, <2>2, <2>3 DEF Exists
<1>10. PICK extra \in SUBSET {Canonical(prefix, part)} :
         extra = IF copied THEN {Canonical(prefix, part)} ELSE {}
  OBVIOUS
<1>11. /\ DOMAIN disk' = DOMAIN d \cup extra /\ \A x \in DOMAIN d : disk'[x] = d[x]
       /\ IsDisk(disk')
  <2>1. CASE ~copied
    BY <1>7, <1>9, <1>10, <2>1
  <2>2. CASE copied
    <3> DEFINE c == Canonical(prefix, part)
    <3>1. /\ disk' = With(d, c, disk[object[o].path[part]]) /\ extra = {c}
      BY <1>7, <1>10, <2>2
    <3>2. /\ DOMAIN disk' = DOMAIN d \cup {c} /\ \A x \in DOMAIN d : disk'[x] = d[x]
          /\ disk'[c] = disk[object[o].path[part]]
          /\ disk' = [x \in DOMAIN disk' |-> disk'[x]]
      BY <1>9, <3>1 DEF With, Extended
    <3>3. disk'[c] \in Seq(Elements)
      BY <1>7, <3>2 DEF StoreInv, StoreTypeOK, IsDisk, Exists
    <3>4. c \in Path
      BY PathsAreTyped
    <3>5. IsFiniteSet(DOMAIN disk')
      <4> HIDE DEF c
      <4>1. IsFiniteSet(DOMAIN d \cup {c})
        BY <1>9, FS_AddElement DEF IsDisk
      <4> QED BY <3>2, <4>1
    <3>6. \A x \in DOMAIN disk' : disk'[x] \in Seq(Elements)
      BY <1>9, <3>2, <3>3 DEF IsDisk
    <3>7. DOMAIN disk' \subseteq Path
      BY <1>9, <3>2, <3>4 DEF IsDisk
    <3>8. IsDisk(disk')
      BY <3>2, <3>5, <3>6, <3>7 DEF IsDisk
    <3> QED BY <3>1, <3>2, <3>8
  <2> QED BY <2>1, <2>2
<1>12. failures' \in Nat
  BY <1>3 DEF StoreInv, StoreTypeOK
<1>13. IsMoved(o, prefix, moved, part, extra, f, d)
  BY <1>3, <1>4, <1>5, <1>7, <1>8, <1>11, <1>12 DEF IsMoved
<1>14. /\ StoreInv' /\ StoreStep /\ Orphans' \subseteq Orphans \cup extra
       /\ \A q \in DOMAIN object : q # o => Undisturbed(q)
  BY <1>13, MovedStep
<1> QED BY <1>1, <1>14

-----------------------------------------------------------------------------
(* Persisting                                                              *)

(* The object's parts are at `p` from now on, what they held and created   *)
(* if they did not exist.                                                  *)
IsPersisting(o, p, f) ==
    /\ ~IsPersistent(o)
    /\ p \notin KeptPrefixes
    /\ \A i \in Parts : Exists(Canonical(p, i)) => Canonical(p, i) = object[o].path[i]
    /\ \A q \in DOMAIN object, i, j \in Parts : q # o => object[q].path[i] # Canonical(p, j)
    /\ object' = [object EXCEPT ![o] = f]
    /\ \A i \in Parts : f.path[i] = Canonical(p, i) /\ f.persistent[i]
    /\ f.canonical_paths
    /\ \A x : x \in DOMAIN disk' <=> \/ x \in DOMAIN disk /\ \A i \in Parts : x # object[o].path[i]
                                     \/ \E i \in Parts : x = Canonical(p, i)
    /\ \A x \in DOMAIN disk : (\A i \in Parts : x # object[o].path[i]) => disk'[x] = disk[x]
    /\ \A i \in Parts : disk'[Canonical(p, i)] = ContentOf(object[o].path[i])
    /\ IsDisk(disk')
    /\ failures' \in Nat

LEMMA PersistStep ==
    ASSUME StoreInv, NEW o \in DOMAIN object, NEW p \in PathPrefixes, NEW f \in File,
           IsPersisting(o, p, f)
    PROVE  /\ StoreInv' /\ StoreStep /\ Orphans' \subseteq Orphans
           /\ \A q \in DOMAIN object : q # o => Undisturbed(q)
<1> USE DEF StoreInv, IsPersisting
<1> DEFINE path == object[o].path
<1>1. /\ ~IsPersistent(o) /\ o \in Objects
      /\ \A i \in Parts : Canonical(p, i) \in DOMAIN disk => Canonical(p, i) = path[i]
      /\ \A q \in DOMAIN object, i, j \in Parts : q # o => object[q].path[i] # Canonical(p, j)
      /\ \A q \in DOMAIN object, i, j \in Parts : q # o => object[q].path[i] # path[j]
  BY DEF PathsAreOwn, StoreTypeOK, Exists
<1>2. /\ DOMAIN object' = DOMAIN object /\ object'[o] = f
      /\ object' \in [DOMAIN object' -> File]
      /\ \A q \in DOMAIN object : q # o => object'[q] = object[q]
      /\ f.persistent[LevelInfo] /\ LevelInfo \in Parts
  BY PathsAreTyped DEF StoreTypeOK
<1>3. ASSUME NEW q \in DOMAIN object, q # o, NEW i \in Parts
      PROVE  /\ object[q].path[i] \in DOMAIN disk' <=> object[q].path[i] \in DOMAIN disk
             /\ object[q].path[i] \in DOMAIN disk => disk'[object[q].path[i]] = disk[object[q].path[i]]
  <2>1. \A j \in Parts : object[q].path[i] # path[j] /\ object[q].path[i] # Canonical(p, j)
    BY <1>1, <1>3
  <2> QED BY <2>1
<1>4. \A i \in Parts : Canonical(p, i) \in DOMAIN disk'
  OBVIOUS
<1>5. StoreInv'
  <2>1. /\ \A i \in Parts : \E r \in PathPrefixes : f.path[i] = Canonical(r, i)
        /\ \E r \in PathPrefixes : \A i \in Parts : f.path[i] = Canonical(r, i)
        /\ \A q \in DOMAIN object, i, j \in Parts : q # o => f.path[i] # object[q].path[j]
    BY <1>1
  <2>2. ASSUME NEW q \in Objects, NEW i \in Parts, TemporaryPath(q, i) \in DOMAIN disk'
        PROVE  q # o /\ Exists(TemporaryPath(q, i))
    <3>1. \A j \in Parts : TemporaryPath(q, i) # Canonical(p, j)
      BY NamesDiffer
    <3>2. TemporaryPath(q, i) \in DOMAIN disk /\ \A j \in Parts : TemporaryPath(q, i) # path[j]
      BY <2>2, <3>1
    <3> QED BY <3>2 DEF TemporariesAreUsed, Exists
  <2>3. \A i \in Parts : /\ f.persistent[i] = f.persistent[LevelInfo]
                         /\ f.path[i] \in DOMAIN disk' <=> f.path[LevelInfo] \in DOMAIN disk'
    <3>1. \A i \in Parts : f.persistent[i] = TRUE
      BY DEF File
    <3> QED BY <1>2, <1>4, <3>1, ZenonT(40)
  <2>4. DOMAIN object' = DOMAIN object \cup {o} /\ f.path[LevelInfo] \in DOMAIN disk'
    BY <1>2, <1>4, ZenonT(40)
  <2>5. \A q \in DOMAIN object, i \in Parts :
            q # o => (object[q].path[i] \in DOMAIN disk' <=> Exists(object[q].path[i]))
    BY <1>3 DEF Exists
  <2>6. f.canonical_paths /\ IsDisk(disk') /\ failures' \in Nat
    OBVIOUS
  <2>7. /\ \A i \in Parts : \/ f.path[i] = TemporaryPath(o, i)
                            \/ \E r \in PathPrefixes : f.path[i] = Canonical(r, i)
        /\ \A q \in DOMAIN object, i, j \in Parts :
              q # o /\ f.path[i] = object[q].path[j] => f.persistent[LevelInfo] /\ IsPersistent(q)
        /\ \A q \in Objects, i \in Parts : TemporaryPath(q, i) \in DOMAIN disk' =>
              IF q = o THEN f.path[i] = TemporaryPath(o, i) ELSE Exists(TemporaryPath(q, i))
    BY <2>1, <2>2
  <2> HIDE DEF StoreInv, IsPersisting
  <2> QED BY <1>1, <1>2, <2>1, <2>3, <2>4, <2>5, <2>6, <2>7, StoreChange, ZenonT(40)
<1>6. ASSUME NEW r \in PathPrefixes
      PROVE  r \in KeptPrefixes' <=> r \in KeptPrefixes \/ r = p
  <2>1. ASSUME r \in KeptPrefixes
        PROVE  r \in KeptPrefixes'
    <3>1. \A i \in Parts : /\ Canonical(r, i) \in DOMAIN disk
                           /\ \A q \in DOMAIN object, j \in Parts :
                                 object[q].path[j] = Canonical(r, i) => q # o /\ IsPersistent(q)
      BY <1>1, <2>1, KeptIs
    <3>2. r # p
      BY <2>1
    <3>3. \A i \in Parts : Canonical(r, i) \in DOMAIN disk'
      BY <1>1, <3>1
    <3>4. ASSUME NEW i \in Parts, NEW q \in DOMAIN object', NEW j \in Parts,
                 object'[q].path[j] = Canonical(r, i)
          PROVE  IsPersistent(q)'
      <4>1. CASE q = o
        BY <1>2, <4>1 DEF IsPersistent
      <4>2. CASE q # o
        BY <1>2, <3>1, <3>4, <4>2 DEF IsPersistent
      <4> QED BY <4>1, <4>2
    <3> QED BY <1>5, <3>3, <3>4, KeptAfter
  <2>2. ASSUME r \in KeptPrefixes', r # p
        PROVE  r \in KeptPrefixes
    <3>1. \A i \in Parts : /\ Canonical(r, i) \in DOMAIN disk'
                           /\ \A q \in DOMAIN object', j \in Parts :
                                 object'[q].path[j] = Canonical(r, i) => object'[q].persistent[LevelInfo]
      BY <1>5, <2>2, KeptAfter DEF IsPersistent
    <3>2. \A i, j \in Parts : Canonical(r, i) # Canonical(p, j)
      BY <2>2 DEF Canonical
    <3>3. \A i \in Parts : Canonical(r, i) \in DOMAIN disk /\ \A j \in Parts : Canonical(r, i) # path[j]
      BY <3>1, <3>2
    <3>4. ASSUME NEW i \in Parts, NEW q \in DOMAIN object, NEW j \in Parts,
                 object[q].path[j] = Canonical(r, i)
          PROVE  IsPersistent(q)
      BY <1>2, <3>1, <3>3, <3>4 DEF IsPersistent
    <3> QED BY <3>3, <3>4, KeptIs
  <2>3. p \in KeptPrefixes'
    <3> SUFFICES ASSUME NEW i \in Parts, NEW q \in DOMAIN object', NEW j \in Parts,
                        object'[q].path[j] = Canonical(p, i)
                 PROVE  IsPersistent(q)'
      BY <1>4, <1>5, KeptAfter
    <3>1. q = o
      BY <1>1, <1>2
    <3> QED BY <1>2, <3>1 DEF IsPersistent
  <2> QED BY <2>1, <2>2, <2>3
<1>7. KeptPrefixes' = KeptPrefixes \cup {p}
  BY <1>5, <1>6, KeptIs, KeptAfter
<1>8. ASSUME NEW r \in KeptPrefixes
      PROVE  StoredUnder'[r] = StoredUnder[r]
  <2>1. ASSUME NEW i \in Parts
        PROVE  disk'[Canonical(r, i)] = disk[Canonical(r, i)]
    <3>1. /\ Canonical(r, i) \in DOMAIN disk
          /\ \A j \in Parts : path[j] # Canonical(r, i)
      BY <1>1, KeptIs
    <3> QED BY <3>1
  <2> QED BY <1>7, <2>1 DEF StoredUnder
<1>9. ASSUME NEW q \in DOMAIN object
      PROVE  Contents'[q] = Contents[q]
  <2>1. /\ Contents[q] = [i \in Parts |-> IF object[q].path[i] \in DOMAIN disk
                                          THEN disk[object[q].path[i]] ELSE <<>>]
        /\ Contents'[q] = [i \in Parts |-> IF object'[q].path[i] \in DOMAIN disk'
                                           THEN disk'[object'[q].path[i]] ELSE <<>>]
    BY <1>2 DEF Contents, ContentsOf, ContentOf, Exists
  <2>2. CASE q = o
    BY <1>2, <1>4, <2>1, <2>2 DEF ContentOf, Exists
  <2>3. CASE q # o
    BY <1>2, <1>3, <2>1, <2>3
  <2> QED BY <2>2, <2>3
<1>10. StoredUnder'[p] = Contents[o]
  BY <1>7 DEF StoredUnder, Contents, ContentsOf
<1>11. object'[o].path[LevelInfo][1] = p
  BY <1>2 DEF Canonical
<1>12. StoreStep
  BY <1>1, <1>2, <1>7, <1>8, <1>9, <1>10, <1>11, StorePersists
<1>13. Orphans' \subseteq Orphans
  <2> SUFFICES ASSUME NEW x \in Orphans' PROVE x \in Orphans
    OBVIOUS
  <2>1. /\ x \in DOMAIN disk' /\ x \notin KeptPrefixes \X Parts
        /\ \A q \in DOMAIN object', i \in Parts : object'[q].path[i] # x
    BY <1>7, OrphansAre
  <2>2. x \in DOMAIN disk /\ \A i \in Parts : x # path[i]
    BY <1>2, <2>1
  <2>3. \A q \in DOMAIN object, i \in Parts : object[q].path[i] # x
    BY <1>2, <2>1, <2>2
  <2> QED BY <2>1, <2>2, <2>3, OrphansAre
<1>14. \A q \in DOMAIN object : q # o => Undisturbed(q)
  BY <1>2, <1>3 DEF Undisturbed, Exists
<1> QED BY <1>5, <1>12, <1>13, <1>14

LEMMA MadePersistentIs ==
    ASSUME NEW f \in File
    PROVE  /\ MadePersistent(f) \in File /\ MadePersistent(f).path = f.path
           /\ MadePersistent(f).canonical_paths = f.canonical_paths
           /\ \A i \in Parts : MadePersistent(f).persistent[i]
BY DEF MadePersistent, File

(* What make_persistent finds persistent already, it leaves as it is.      *)
LEMMA StayStep ==
    ASSUME StoreInv, object' = object, disk' = disk, failures' = failures
    PROVE  StoreInv' /\ StoreStep /\ Orphans' = Orphans
<1>1. StoreInv'
  BY DEF StoreInv, StoreTypeOK, PathsAreNamed, PathsAreOwn, CanonicalIsMeant, TemporariesAreUsed,
         PartsAreInStep, IsPersistent, FileExists, Exists
<1>2. Claimed' = Claimed
  BY DEF Claimed
<1>3. KeptPrefixes' = KeptPrefixes
  BY <1>2 DEF KeptPrefixes, IsPersisted, Exists
<1>4. Contents' = Contents /\ Names' = Names /\ StoredUnder' = StoredUnder
  BY <1>3 DEF Contents, ContentsOf, ContentOf, Exists, Names, IsPersistent, StoredUnder
<1>5. Orphans' = Orphans
  BY <1>3 DEF Orphans
<1> QED BY <1>1, <1>4, <1>5, StoreStays

LEMMA MakePersistentStep ==
    ASSUME StoreInv, NEW h, MakePersistent(h), handle[h] \in DOMAIN object
    PROVE  /\ StoreInv' /\ StoreStep /\ Orphans' \subseteq Orphans
           /\ \A q \in DOMAIN object : q # handle[h] => Undisturbed(q)
<1> USE DEF StoreInv
<1>1. PICK o \in DOMAIN object : o = handle[h]
  OBVIOUS
<1>2. /\ object[o].canonical_paths /\ failures' = failures
      /\ object' = [object EXCEPT ![o] = MadePersistent(object[o])]
      /\ disk' = Touched(disk, object[o])
  BY <1>1 DEF MakePersistent
<1>3. PICK p \in PathPrefixes : \A i \in Parts : object[o].path[i] = Canonical(p, i)
  BY <1>2 DEF CanonicalIsMeant
<1>4. PICK f \in File : f = MadePersistent(object[o])
  BY MadePersistentIs, ObjectIsFile
<1>5. /\ f.path = object[o].path /\ f.canonical_paths
      /\ \A i \in Parts : f.persistent[i]
  BY <1>2, <1>4, MadePersistentIs, ObjectIsFile
<1>6. /\ \A x : x \in DOMAIN disk' <=> x \in DOMAIN disk \/ \E i \in Parts : x = object[o].path[i]
      /\ \A x \in DOMAIN disk : disk'[x] = disk[x]
      /\ \A x \in DOMAIN disk' : x \notin DOMAIN disk => disk'[x] = <<>>
      /\ IsDisk(disk')
  <2>1. Grows(disk') /\ DOMAIN disk' = DOMAIN disk \cup {object[o].path[i] : i \in Parts}
    BY <1>2, TouchedIs
  <2> QED BY <2>1 DEF Grows
<1>7. CASE IsPersistent(o)
  <2>1. DOMAIN disk' = DOMAIN disk
    <3>1. \A i \in Parts : object[o].path[i] \in DOMAIN disk
      BY <1>7 DEF CanonicalIsMeant, PartsAreInStep, Exists
    <3> QED BY <1>6, <3>1
  <2>2. disk' = disk
    BY <1>6, <2>1 DEF IsDisk, StoreTypeOK
  <2>3. MadePersistent(object[o]) = object[o]
    <3>1. object[o] \in File /\ \A i \in Parts : object[o].persistent[i] = TRUE
      BY <1>7, ObjectIsFile DEF PartsAreInStep, File
    <3>2. object[o].persistent = [i \in Parts |-> TRUE]
      BY <3>1 DEF File
    <3> QED BY <3>1, <3>2 DEF MadePersistent, File
  <2>4. object' = object
    BY <1>2, <2>3 DEF StoreTypeOK
  <2>5. \A q \in DOMAIN object : Undisturbed(q)
    BY <2>2, <2>4 DEF Undisturbed, Exists
  <2> QED BY <1>2, <2>2, <2>4, <2>5, StayStep
<1>8. CASE ~IsPersistent(o)
  <2>1. p \notin KeptPrefixes
    BY <1>3, <1>8, KeptIs, PathsAreTyped
  <2>2. \A q \in DOMAIN object, i, j \in Parts : q # o => object[q].path[i] # Canonical(p, j)
    BY <1>3, <1>8 DEF PathsAreOwn
  <2>3. \A i \in Parts : disk'[Canonical(p, i)] = ContentOf(object[o].path[i])
    BY <1>3, <1>6 DEF ContentOf, Exists
  <2>4. failures' \in Nat
    BY <1>2 DEF StoreTypeOK
  <2>5. IsPersisting(o, p, f)
    <3>1. \A x : x \in DOMAIN disk' <=> \/ x \in DOMAIN disk /\ \A i \in Parts : x # object[o].path[i]
                                        \/ \E i \in Parts : x = Canonical(p, i)
      BY <1>3, <1>6
    <3>2. \A i \in Parts : f.path[i] = Canonical(p, i)
      BY <1>3, <1>5
    <3>3. \A i \in Parts : Exists(Canonical(p, i)) => Canonical(p, i) = object[o].path[i]
      BY <1>3
    <3>4. \A x \in DOMAIN disk : (\A i \in Parts : x # object[o].path[i]) => disk'[x] = disk[x]
      BY <1>6
    <3>5. object' = [object EXCEPT ![o] = f]
      BY <1>2, <1>4
    <3> QED BY <1>5, <1>6, <1>8, <2>1, <2>2, <2>3, <2>4, <3>1, <3>2, <3>3, <3>4, <3>5 DEF IsPersisting
  <2> QED BY <1>1, <2>5, PersistStep
<1> QED BY <1>7, <1>8

LEMMA MakePersistentAtStep ==
    ASSUME StoreInv, NEW h, NEW prefix \in PathPrefixes, MakePersistentAt(h, prefix),
           handle[h] \in DOMAIN object
    PROVE  /\ StoreInv' /\ StoreStep /\ Orphans' \subseteq Orphans
           /\ \A q \in DOMAIN object : q # handle[h] => Undisturbed(q)
<1> USE DEF StoreInv
<1>1. PICK o \in DOMAIN object : o = handle[h]
  OBVIOUS
<1>2. /\ CanMoveTo(o, prefix) /\ failures' = failures
      /\ object' = [object EXCEPT ![o] = MadePersistent(AllMoved(o, prefix))]
      /\ disk' = Touched(MovedDisk(object[o], prefix, Parts), AllMoved(o, prefix))
  BY <1>1 DEF MakePersistentAt
<1>3. PICK m \in File : m = AllMoved(o, prefix)
  BY AllMovedIs
<1>4. PICK f \in File : f = MadePersistent(m)
  BY MadePersistentIs
<1>5. /\ \A i \in Parts : f.path[i] = Canonical(prefix, i) /\ m.path[i] = Canonical(prefix, i)
      /\ f.canonical_paths /\ \A i \in Parts : f.persistent[i]
      /\ object' = [object EXCEPT ![o] = f]
  <2>1. m.canonical_paths
    BY <1>3, AllMovedIs, MovedFileIs DEF AllMoved, File
  <2> QED BY <1>2, <1>3, <1>4, <2>1, AllMovedIs, MadePersistentIs
<1>6. PICK d : d = MovedDisk(object[o], prefix, Parts)
  OBVIOUS
<1>7. /\ ~IsPersistent(o)
      /\ \A i \in Parts : ~Exists(Canonical(prefix, i))
      /\ \A q \in DOMAIN object, i, j \in Parts : q # o => object[q].path[i] # Canonical(prefix, j)
  BY <1>2 DEF CanMoveTo
<1>8. /\ \A x : x \in DOMAIN d <=>
            \/ x \in DOMAIN disk /\ \A i \in Parts : x # object[o].path[i]
            \/ \E i \in Parts : x = Canonical(prefix, i) /\ Exists(object[o].path[i])
      /\ \A x \in DOMAIN disk : x \in DOMAIN d => d[x] = disk[x]
      /\ \A i \in Parts : Exists(object[o].path[i]) => d[Canonical(prefix, i)] = disk[object[o].path[i]]
      /\ IsDisk(d)
  BY <1>6, <1>7, MovedDiskIs
<1>9. /\ \A x : x \in DOMAIN disk' <=> x \in DOMAIN d \/ \E i \in Parts : x = Canonical(prefix, i)
      /\ \A x \in DOMAIN d : disk'[x] = d[x]
      /\ \A x \in DOMAIN disk' : x \notin DOMAIN d => disk'[x] = <<>>
      /\ disk' = [x \in DOMAIN disk' |-> disk'[x]]
  <2>1. disk' = Touched(d, m)
    BY <1>2, <1>3, <1>6
  <2>2. {m.path[i] : i \in Parts} = {Canonical(prefix, i) : i \in Parts}
    BY <1>5
  <2> QED BY <2>1, <2>2 DEF Touched, Extended
<1>10. IsDisk(disk')
  <2> DEFINE g == [i \in Parts |-> Canonical(prefix, i)]
             all == {Canonical(prefix, i) : i \in Parts}
  <2>1. IsFiniteSet(all) /\ all \subseteq Path
    <3>1. g \in [Parts -> Path] /\ all = {g[i] : i \in Parts}
      BY PathsAreTyped
    <3> HIDE DEF g, all
    <3> QED BY <3>1, PathsAreFinite
  <2>2. DOMAIN disk' = DOMAIN d \cup all
    BY <1>9
  <2> HIDE DEF all
  <2>3. IsFiniteSet(DOMAIN d \cup all)
    BY <1>8, <2>1, FS_Union, Zenon DEF IsDisk
  <2>4. \A x \in DOMAIN disk' : disk'[x] \in Seq(Elements)
    <3>1. <<>> \in Seq(Elements)
      OBVIOUS
    <3> QED BY <1>8, <1>9, <3>1 DEF IsDisk
  <2>5. DOMAIN disk' \subseteq Path
    BY <1>8, <2>1, <2>2 DEF IsDisk
  <2> QED BY <1>9, <2>2, <2>3, <2>4, <2>5 DEF IsDisk
<1>11. IsPersisting(o, prefix, f)
  <2>1. prefix \notin KeptPrefixes
    BY <1>7, KeptIs, PathsAreTyped DEF Exists
  <2>2. \A x : x \in DOMAIN disk' <=> \/ x \in DOMAIN disk /\ \A i \in Parts : x # object[o].path[i]
                                      \/ \E i \in Parts : x = Canonical(prefix, i)
    BY <1>8, <1>9
  <2>3. \A x \in DOMAIN disk : (\A i \in Parts : x # object[o].path[i]) => disk'[x] = disk[x]
    BY <1>8, <1>9
  <2>4. ASSUME NEW i \in Parts
        PROVE  disk'[Canonical(prefix, i)] = ContentOf(object[o].path[i])
    <3>1. CASE Exists(object[o].path[i])
      BY <1>8, <1>9, <3>1 DEF ContentOf
    <3>2. CASE ~Exists(object[o].path[i])
      <4>1. Canonical(prefix, i) \notin DOMAIN d
        BY <1>7, <1>8, <3>2 DEF Canonical, Exists
      <4> QED BY <1>9, <3>2, <4>1 DEF ContentOf
    <3> QED BY <3>1, <3>2
  <2>5. failures' \in Nat
    BY <1>2 DEF StoreTypeOK
  <2>6. \A i \in Parts : Exists(Canonical(prefix, i)) => Canonical(prefix, i) = object[o].path[i]
    BY <1>7
  <2> QED BY <1>5, <1>7, <1>10, <2>1, <2>2, <2>3, <2>4, <2>5, <2>6 DEF IsPersisting
<1> QED BY <1>1, <1>11, PersistStep

-----------------------------------------------------------------------------
(* The handles and the streams                                             *)

LEMMA UsersAreInMemory ==
    ASSUME FilesInv
    PROVE  /\ \A h \in Handles : handle[h] # Nothing => handle[h] \in DOMAIN object
           /\ writer.file_ptr # Nothing => writer.file_ptr \in DOMAIN object
           /\ reader.file_ptr # Nothing => reader.file_ptr \in DOMAIN object
           /\ Nothing \notin DOMAIN object
BY NamesAssumption DEF FilesInv, StoreInv, StoreTypeOK, UsersInv, UsersTypeOK,
                       LivesWhileReferenced, IsReferenced

(* What leaves the streams alone, and the files they are attached to.      *)
LEMMA StreamsStay ==
    ASSUME FilesInv, StoreInv', UNCHANGED <<writer, reader>>,
           handle' \in [Handles -> Objects \cup {Nothing}],
           \A o \in Objects : o \in DOMAIN object' <=> IsReferenced(o)',
           \A o \in DOMAIN object : IsAttached(o) => Undisturbed(o)
    PROVE  UsersInv'
<1> USE DEF FilesInv, UsersInv
<1>1. UsersTypeOK'
  BY DEF UsersTypeOK
<1>2. LivesWhileReferenced'
  BY DEF LivesWhileReferenced
<1>3. ASSUME NEW o \in Objects, IsAttached(o)
      PROVE  o \in DOMAIN object /\ o \in DOMAIN object' /\ Undisturbed(o)
  <2>1. IsReferenced(o) /\ IsReferenced(o)'
    BY <1>3 DEF IsAttached, IsReferenced
  <2> QED BY <1>3, <2>1 DEF LivesWhileReferenced
<1>4. LevelInfo \in Parts /\ reader.part \in Parts
  BY PathsAreTyped DEF UsersTypeOK
<1>5. WriterIsAlone'
  <2> SUFFICES ASSUME writer.open
               PROVE  /\ writer.file_ptr \in DOMAIN object'
                      /\ ~object'[writer.file_ptr].persistent[LevelInfo]
                      /\ object'[writer.file_ptr].path[LevelInfo] \in DOMAIN disk'
                      /\ reader.file_ptr # writer.file_ptr
    BY DEF WriterIsAlone, IsPersistent, FileExists, Exists
  <2>1. PICK o \in Objects : o = writer.file_ptr /\ o \in DOMAIN object
    BY DEF WriterIsAlone, StoreInv, StoreTypeOK
  <2>2. IsAttached(o)
    BY <2>1 DEF IsAttached
  <2>3. o \in DOMAIN object' /\ Undisturbed(o)
    BY <1>3, <2>2
  <2> QED BY <1>4, <2>1, <2>3 DEF WriterIsAlone, Undisturbed, IsPersistent, FileExists, Exists
<1>6. ReaderIsInside'
  <2>1. CASE reader.file_ptr = Nothing
    BY <2>1 DEF ReaderIsInside
  <2>2. CASE reader.file_ptr # Nothing
    <3>1. PICK o \in DOMAIN object : o = reader.file_ptr
      BY <2>2, UsersAreInMemory
    <3>2. o \in Objects /\ IsAttached(o)
      BY <3>1 DEF IsAttached, StoreInv, StoreTypeOK
    <3>3. o \in DOMAIN object' /\ Undisturbed(o)
      BY <1>3, <3>2
    <3>4. /\ Exists(object[o].path[LevelInfo]) /\ Exists(object[o].path[reader.part])
          /\ reader.offset <= Len(disk[object[o].path[reader.part]]) /\ Len(reader.peeked) <= 1
      BY <1>4, <2>2, <3>1 DEF ReaderIsInside, FileOf, FileExists, StoreInv, PartsAreInStep
    <3>5. /\ object'[o].path[LevelInfo] \in DOMAIN disk'
          /\ disk'[object'[o].path[reader.part]] = disk[object[o].path[reader.part]]
      BY <1>4, <3>3, <3>4 DEF Undisturbed
    <3> QED BY <2>2, <3>1, <3>4, <3>5 DEF ReaderIsInside, FileOf, FileExists, Exists
  <2> QED BY <2>1, <2>2
<1> QED BY <1>1, <1>2, <1>5, <1>6

(* What leaves the references alone, too.                                  *)
LEMMA UsersStay ==
    ASSUME FilesInv, StoreInv', UNCHANGED <<handle, writer, reader>>, DOMAIN object' = DOMAIN object,
           \A o \in DOMAIN object : IsAttached(o) => Undisturbed(o)
    PROVE  UsersInv'
<1>1. \A o \in Objects : IsReferenced(o)' <=> IsReferenced(o)
  BY DEF IsReferenced
<1>2. \A o \in Objects : o \in DOMAIN object' <=> IsReferenced(o)'
  BY <1>1 DEF FilesInv, UsersInv, LivesWhileReferenced
<1>3. handle' \in [Handles -> Objects \cup {Nothing}]
  BY DEF FilesInv, UsersInv, UsersTypeOK
<1> QED BY <1>2, <1>3, StreamsStay

(* What orphans a step may leave, and how often.                           *)
OrphansGrow ==
    \/ Orphans' \subseteq Orphans /\ failures' = failures
    \/ (\E x : Orphans' \subseteq Orphans \cup {x}) /\ failures' = failures + 1

(* A reader that stays as it is finds its file as it was.                  *)
ReadIsUndisturbed ==
    reader' = reader /\ reader.file_ptr # Nothing => Undisturbed(reader.file_ptr)

FilesStep == FilesInv' /\ StoreStep /\ OrphansGrow /\ ReadIsUndisturbed

(* An object is added, held by a handle that held none.                    *)
LEMMA AddUsers ==
    ASSUME FilesInv, StoreInv', NEW h \in Handles, handle[h] = Nothing,
           NEW o \in Objects \ DOMAIN object, handle' = [handle EXCEPT ![h] = o],
           DOMAIN object' = DOMAIN object \cup {o}, UNCHANGED <<writer, reader>>,
           \A q \in DOMAIN object : Undisturbed(q)
    PROVE  UsersInv'
<1> USE DEF FilesInv, UsersInv
<1>1. handle' \in [Handles -> Objects \cup {Nothing}]
  BY DEF UsersTypeOK
<1>2. /\ handle'[h] = o /\ \A g \in Handles : g # h => handle'[g] = handle[g]
  BY DEF UsersTypeOK
<1>3. ASSUME NEW q \in Objects
      PROVE  q \in DOMAIN object' <=> IsReferenced(q)'
  <2>1. q \in DOMAIN object <=> IsReferenced(q)
    BY DEF LivesWhileReferenced
  <2>2. q # Nothing
    BY NamesAssumption
  <2> QED BY <1>2, <2>1, <2>2 DEF IsReferenced
<1> QED BY <1>1, <1>3, StreamsStay

LEMMA CreateKeeps ==
    ASSUME FilesInv, NEW h \in Handles, Create(h)
    PROVE  FilesStep
<1>1. StoreInv' /\ StoreStep /\ Orphans' \subseteq Orphans
  BY CreateStep DEF FilesInv
<1>2. PICK o \in Objects \ DOMAIN object :
        handle' = [handle EXCEPT ![h] = o] /\ object' = With(object, o, Temporary(o))
  BY DEF Create
<1>3. /\ disk' = disk /\ failures' = failures /\ UNCHANGED <<writer, reader>> /\ handle[h] = Nothing
  BY DEF Create
<1>4. DOMAIN object' = DOMAIN object \cup {o} /\ \A q \in DOMAIN object : object'[q] = object[q]
  BY <1>2, TemporaryIs, NewObject DEF FilesInv
<1>5. \A q \in DOMAIN object : Undisturbed(q)
  BY <1>3, <1>4 DEF Undisturbed, Exists
<1>6. UsersInv'
  BY <1>1, <1>2, <1>3, <1>4, <1>5, AddUsers
<1>7. ReadIsUndisturbed
  BY <1>5, UsersAreInMemory DEF ReadIsUndisturbed
<1> QED BY <1>1, <1>3, <1>6, <1>7 DEF FilesStep, FilesInv, OrphansGrow

LEMMA ReopenKeeps ==
    ASSUME FilesInv, NEW h \in Handles, NEW p \in PathPrefixes, Reopen(h, p)
    PROVE  FilesStep
<1>1. StoreInv' /\ StoreStep /\ Orphans' \subseteq Orphans
  BY ReopenStep DEF FilesInv
<1>2. PICK o \in Objects \ DOMAIN object :
        handle' = [handle EXCEPT ![h] = o] /\ object' = With(object, o, Persisted(p))
  BY DEF Reopen
<1>3. /\ disk' = disk /\ failures' = failures /\ UNCHANGED <<writer, reader>> /\ handle[h] = Nothing
  BY DEF Reopen
<1>4. DOMAIN object' = DOMAIN object \cup {o} /\ \A q \in DOMAIN object : object'[q] = object[q]
  BY <1>2, PersistedIs, NewObject DEF FilesInv
<1>5. \A q \in DOMAIN object : Undisturbed(q)
  BY <1>3, <1>4 DEF Undisturbed, Exists
<1>6. UsersInv'
  BY <1>1, <1>2, <1>3, <1>4, <1>5, AddUsers
<1>7. ReadIsUndisturbed
  BY <1>5, UsersAreInMemory DEF ReadIsUndisturbed
<1> QED BY <1>1, <1>3, <1>6, <1>7 DEF FilesStep, FilesInv, OrphansGrow

LEMMA CopyKeeps ==
    ASSUME FilesInv, NEW h \in Handles, NEW g \in Handles, Copy(h, g)
    PROVE  FilesStep
<1>0. handle[g] \in DOMAIN object
  BY UsersAreInMemory DEF Copy
<1>1. StoreInv' /\ StoreStep /\ Orphans' \subseteq Orphans
  BY <1>0, CopyStep DEF FilesInv
<1>2. PICK o, f :
        /\ o \in Objects \ DOMAIN object
        /\ handle' = [handle EXCEPT ![h] = o] /\ object' = With(object, o, Temporary(o))
        /\ disk' = Extended(disk, f)
  BY DEF Copy
<1>3. /\ failures' = failures /\ UNCHANGED <<writer, reader>> /\ handle[h] = Nothing
  BY DEF Copy
<1>4. DOMAIN object' = DOMAIN object \cup {o} /\ \A q \in DOMAIN object : object'[q] = object[q]
  BY <1>2, TemporaryIs, NewObject DEF FilesInv
<1>5. \A x \in DOMAIN disk : x \in DOMAIN disk' /\ disk'[x] = disk[x]
  BY <1>2 DEF Extended
<1>6. \A q \in DOMAIN object : Undisturbed(q)
  BY <1>4, <1>5 DEF Undisturbed, Exists
<1>7. UsersInv'
  BY <1>1, <1>2, <1>3, <1>4, <1>6, AddUsers
<1>8. ReadIsUndisturbed
  BY <1>6, UsersAreInMemory DEF ReadIsUndisturbed
<1> QED BY <1>1, <1>3, <1>7, <1>8 DEF FilesStep, FilesInv, OrphansGrow

LEMMA TouchKeeps ==
    ASSUME FilesInv, NEW h \in Handles, Touch(h)
    PROVE  FilesStep
<1>1. handle[h] \in DOMAIN object /\ ~FileExists(handle[h])
  BY UsersAreInMemory DEF Touch
<1>2. /\ StoreInv' /\ StoreStep /\ Orphans' \subseteq Orphans
      /\ \A q \in DOMAIN object : q # handle[h] => Undisturbed(q)
  BY <1>1, TouchStep DEF FilesInv
<1>3. ~IsAttached(handle[h])
  BY <1>1, UsersAreInMemory DEF IsAttached, FilesInv, UsersInv, WriterIsAlone, ReaderIsInside
<1>4. UNCHANGED <<object, handle, writer, reader, failures>>
  BY DEF Touch
<1>5. UsersInv'
  BY <1>2, <1>3, <1>4, UsersStay
<1>6. ReadIsUndisturbed
  BY <1>2, <1>3, UsersAreInMemory DEF ReadIsUndisturbed, IsAttached
<1> QED BY <1>2, <1>4, <1>5, <1>6 DEF FilesStep, FilesInv, OrphansGrow

LEMMA SortKeeps ==
    ASSUME FilesInv, NEW h \in Handles, NEW i \in Parts, Sort(h, i)
    PROVE  FilesStep
<1>1. handle[h] \in DOMAIN object /\ ~IsAttached(handle[h])
  BY UsersAreInMemory DEF Sort
<1>2. /\ StoreInv' /\ StoreStep /\ Orphans' \subseteq Orphans
      /\ \A q \in DOMAIN object : q # handle[h] => Undisturbed(q)
  BY <1>1, SortStep DEF FilesInv
<1>3. UNCHANGED <<object, handle, writer, reader, failures>>
  BY DEF Sort
<1>4. UsersInv'
  BY <1>1, <1>2, <1>3, UsersStay
<1>5. ReadIsUndisturbed
  BY <1>1, <1>2, UsersAreInMemory DEF ReadIsUndisturbed, IsAttached
<1> QED BY <1>2, <1>3, <1>4, <1>5 DEF FilesStep, FilesInv, OrphansGrow

LEMMA PersistNextKeeps ==
    ASSUME FilesInv, PersistNext
    PROVE  FilesStep
<1>1. ASSUME NEW h \in Handles, NEW p \in PathPrefixes, Reopen(h, p)
      PROVE  FilesStep
  BY <1>1, ReopenKeeps
<1>2. ASSUME NEW h \in Handles, handle[h] \in DOMAIN object, ~IsAttached(handle[h]),
             StoreInv', \A q \in DOMAIN object : q # handle[h] => Undisturbed(q),
             DOMAIN object' = DOMAIN object, UNCHANGED <<handle, writer, reader>>
      PROVE  FilesInv' /\ ReadIsUndisturbed
  <2>1. \A o \in DOMAIN object : IsAttached(o) => Undisturbed(o)
    BY <1>2
  <2>2. ReadIsUndisturbed
    BY <2>1, UsersAreInMemory DEF ReadIsUndisturbed, IsAttached
  <2> QED BY <1>2, <2>1, <2>2, UsersStay DEF FilesInv
<1>3. ASSUME NEW h \in Handles, NEW p \in PathPrefixes, Move(h, p)
      PROVE  FilesStep
  <2>1. /\ handle[h] \in DOMAIN object /\ ~IsAttached(handle[h]) /\ failures' = failures
        /\ DOMAIN object' = DOMAIN object /\ UNCHANGED <<handle, writer, reader>>
    BY <1>3, UsersAreInMemory DEF Move, CanMoveTo
  <2>2. /\ StoreInv' /\ StoreStep /\ Orphans' \subseteq Orphans
        /\ \A q \in DOMAIN object : q # handle[h] => Undisturbed(q)
    BY <1>3, <2>1, MoveStep DEF FilesInv
  <2> QED BY <1>2, <2>1, <2>2 DEF FilesStep, OrphansGrow
<1>4. ASSUME NEW h \in Handles, NEW p \in PathPrefixes, MoveFails(h, p)
      PROVE  FilesStep
  <2>1. /\ handle[h] \in DOMAIN object /\ ~IsAttached(handle[h]) /\ failures' = failures + 1
        /\ DOMAIN object' = DOMAIN object /\ UNCHANGED <<handle, writer, reader>>
    BY <1>4, UsersAreInMemory DEF MoveFails, CanMoveTo
  <2>2. /\ StoreInv' /\ StoreStep /\ \E x : Orphans' \subseteq Orphans \cup {x}
        /\ \A q \in DOMAIN object : q # handle[h] => Undisturbed(q)
    BY <1>4, <2>1, MoveFailsStep DEF FilesInv
  <2> QED BY <1>2, <2>1, <2>2 DEF FilesStep, OrphansGrow
<1>5. ASSUME NEW h \in Handles, MakePersistent(h)
      PROVE  FilesStep
  <2>1. /\ handle[h] \in DOMAIN object /\ ~IsAttached(handle[h]) /\ failures' = failures
        /\ DOMAIN object' = DOMAIN object /\ UNCHANGED <<handle, writer, reader>>
    BY <1>5, UsersAreInMemory DEF MakePersistent
  <2>2. /\ StoreInv' /\ StoreStep /\ Orphans' \subseteq Orphans
        /\ \A q \in DOMAIN object : q # handle[h] => Undisturbed(q)
    BY <1>5, <2>1, MakePersistentStep DEF FilesInv
  <2> QED BY <1>2, <2>1, <2>2 DEF FilesStep, OrphansGrow
<1>6. ASSUME NEW h \in Handles, NEW p \in PathPrefixes, MakePersistentAt(h, p)
      PROVE  FilesStep
  <2>1. /\ handle[h] \in DOMAIN object /\ ~IsAttached(handle[h]) /\ failures' = failures
        /\ DOMAIN object' = DOMAIN object /\ UNCHANGED <<handle, writer, reader>>
    BY <1>6, UsersAreInMemory DEF MakePersistentAt, CanMoveTo
  <2>2. /\ StoreInv' /\ StoreStep /\ Orphans' \subseteq Orphans
        /\ \A q \in DOMAIN object : q # handle[h] => Undisturbed(q)
    BY <1>6, <2>1, MakePersistentAtStep DEF FilesInv
  <2> QED BY <1>2, <2>1, <2>2 DEF FilesStep, OrphansGrow
<1> QED BY <1>1, <1>3, <1>4, <1>5, <1>6 DEF PersistNext

-----------------------------------------------------------------------------
(* What drops or takes references                                          *)

(* The streams `w` and `r` may be attached as they are.                    *)
Fits(contents, w, r) ==
    /\ w.open => /\ w.file_ptr # Nothing /\ r.file_ptr # w.file_ptr /\ ~IsPersistent(w.file_ptr)
                 /\ object[w.file_ptr].path[LevelInfo] \in DOMAIN contents
    /\ IF r.file_ptr = Nothing THEN r.peeked = <<>> /\ r.pulled = Nothing
       ELSE /\ object[r.file_ptr].path[LevelInfo] \in DOMAIN contents
            /\ r.offset <= Len(contents[object[r.file_ptr].path[r.part]]) /\ Len(r.peeked) <= 1

LEMMA StreamsFit ==
    ASSUME FilesInv, NEW contents, Grows(contents)
    PROVE  /\ Fits(contents, writer, reader) /\ Fits(contents, NoWriter, reader)
           /\ Fits(contents, writer, NoReader)
<1> USE DEF FilesInv, UsersInv
<1>1. ASSUME writer.open
      PROVE  /\ writer.file_ptr # Nothing /\ reader.file_ptr # writer.file_ptr
             /\ ~IsPersistent(writer.file_ptr)
             /\ object[writer.file_ptr].path[LevelInfo] \in DOMAIN contents
  BY <1>1, UsersAreInMemory DEF WriterIsAlone, FileExists, Exists, Grows
<1>2. ASSUME reader.file_ptr # Nothing
      PROVE  /\ object[reader.file_ptr].path[LevelInfo] \in DOMAIN contents
             /\ reader.offset <= Len(contents[object[reader.file_ptr].path[reader.part]])
             /\ Len(reader.peeked) <= 1
  <2>1. PICK o \in DOMAIN object : o = reader.file_ptr
    BY <1>2, UsersAreInMemory
  <2>2. reader.part \in Parts
    BY DEF UsersTypeOK
  <2>3. object[o].path[LevelInfo] \in DOMAIN disk /\ object[o].path[reader.part] \in DOMAIN disk
    BY <1>2, <2>1, <2>2 DEF ReaderIsInside, FileExists, Exists, StoreInv, PartsAreInStep
  <2>4. contents[object[o].path[reader.part]] = disk[object[o].path[reader.part]]
    BY <2>3 DEF Grows
  <2> QED BY <1>2, <2>1, <2>3, <2>4 DEF ReaderIsInside, FileOf, Grows
<1>3. reader.file_ptr = Nothing => reader.peeked = <<>> /\ reader.pulled = Nothing
  BY DEF ReaderIsInside
<1>4. ~NoWriter.open /\ NoReader.file_ptr = Nothing /\ NoReader.peeked = <<>> /\ NoReader.pulled = Nothing
  BY DEF NoWriter, NoReader
<1>5. writer.open => NoReader.file_ptr # writer.file_ptr
  BY <1>1, <1>4
<1> QED BY <1>1, <1>2, <1>3, <1>4, <1>5 DEF Fits

LEMMA CollectKeeps ==
    ASSUME FilesInv, NEW contents, Grows(contents), Collect(object, contents), failures' = failures,
           UsersTypeOK', NEW d, \A o \in DOMAIN object : o # d => IsReferenced(o)',
           \A o \in Objects : IsReferenced(o)' => o \in DOMAIN object,
           NEW w, w = writer', NEW r, r = reader', Fits(contents, w, r)
    PROVE  FilesStep
<1> USE DEF FilesInv
<1>1. /\ StoreInv' /\ StoreStep /\ Orphans' \subseteq Orphans
      /\ DOMAIN object' \subseteq DOMAIN object
      /\ \A o \in DOMAIN object : o \in DOMAIN object' <=> IsReferenced(o)'
      /\ \A o \in DOMAIN object', i \in Parts :
            /\ object[o].path[i] \in DOMAIN disk' <=> object[o].path[i] \in DOMAIN contents
            /\ object[o].path[i] \in DOMAIN disk' =>
                  disk'[object[o].path[i]] = contents[object[o].path[i]]
      /\ \A o \in DOMAIN object' : object'[o] = object[o] /\ Undisturbed(o)
  BY CollectStep DEF Undisturbed
<1>2. LivesWhileReferenced'
  BY <1>1 DEF LivesWhileReferenced
<1>3. /\ w \in [file_ptr : Objects \cup {Nothing}, open : BOOLEAN]
      /\ r \in [file_ptr : Objects \cup {Nothing}, part : Parts, Reverse : BOOLEAN,
                offset : Nat, peeked : Seq(Elements), pulled : Elements \cup {Nothing}]
  BY DEF UsersTypeOK
<1>4. /\ w.file_ptr # Nothing => w.file_ptr \in DOMAIN object'
      /\ r.file_ptr # Nothing => r.file_ptr \in DOMAIN object'
  <2>1. ASSUME NEW o \in Objects, w.file_ptr = o \/ r.file_ptr = o
        PROVE  o \in DOMAIN object'
    <3>1. IsReferenced(o)'
      BY <2>1 DEF IsReferenced
    <3> QED BY <1>1, <3>1
  <2> QED BY <1>3, <2>1
<1>5. LevelInfo \in Parts /\ r.part \in Parts
  BY <1>3, PathsAreTyped
<1>6. WriterIsAlone'
  <2> SUFFICES ASSUME w.open
               PROVE  /\ w.file_ptr \in DOMAIN object'
                      /\ ~object'[w.file_ptr].persistent[LevelInfo]
                      /\ object'[w.file_ptr].path[LevelInfo] \in DOMAIN disk'
                      /\ r.file_ptr # w.file_ptr
    BY DEF WriterIsAlone, IsPersistent, FileExists, Exists
  <2> QED BY <1>1, <1>4, <1>5 DEF Fits, IsPersistent
<1>7. ReaderIsInside'
  <2>1. CASE r.file_ptr = Nothing
    BY <2>1 DEF ReaderIsInside, Fits
  <2>2. CASE r.file_ptr # Nothing
    <3>1. PICK o \in DOMAIN object' : o = r.file_ptr
      BY <1>4, <2>2
    <3>2. /\ object[o].path[LevelInfo] \in DOMAIN contents
          /\ r.offset <= Len(contents[object[o].path[r.part]]) /\ Len(r.peeked) <= 1
      BY <2>2, <3>1 DEF Fits
    <3>3. /\ object'[o].path[LevelInfo] \in DOMAIN disk' /\ object'[o] = object[o]
      BY <1>1, <1>5, <3>2
    <3>4. object'[o].path[r.part] \in DOMAIN disk'
      BY <1>1, <1>5, <3>3 DEF StoreInv, PartsAreInStep, FileExists, Exists
    <3>5. disk'[object'[o].path[r.part]] = contents[object[o].path[r.part]]
      BY <1>1, <1>5, <3>3, <3>4
    <3>6. FileOf(reader)' = contents[object[o].path[r.part]]
      BY <3>1, <3>5 DEF FileOf
    <3> QED BY <2>2, <3>1, <3>2, <3>3, <3>6 DEF ReaderIsInside, FileExists, Exists
  <2> QED BY <2>1, <2>2
<1>8. UsersInv'
  BY <1>2, <1>6, <1>7 DEF UsersInv
<1>9. ReadIsUndisturbed
  BY <1>1, <1>4 DEF ReadIsUndisturbed
<1> QED BY <1>1, <1>8, <1>9 DEF FilesStep, OrphansGrow

LEMMA NoStreams ==
    /\ NoWriter \in [file_ptr : Objects \cup {Nothing}, open : BOOLEAN]
    /\ NoReader \in [file_ptr : Objects \cup {Nothing}, part : Parts, Reverse : BOOLEAN,
                     offset : Nat, peeked : Seq(Elements), pulled : Elements \cup {Nothing}]
    /\ NoWriter.file_ptr = Nothing /\ NoReader.file_ptr = Nothing
<1>1. <<>> \in Seq(Elements)
  OBVIOUS
<1> QED BY <1>1, PathsAreTyped DEF NoWriter, NoReader

LEMMA DropKeeps ==
    ASSUME FilesInv, NEW h \in Handles, Drop(h)
    PROVE  FilesStep
<1> USE DEF FilesInv, UsersInv
<1>1. /\ handle' = [handle EXCEPT ![h] = Nothing] /\ UNCHANGED <<writer, reader, failures>>
      /\ Collect(object, disk) /\ handle[h] # Nothing
  BY DEF Drop
<1>2. UsersTypeOK' /\ handle'[h] = Nothing /\ \A g \in Handles : g # h => handle'[g] = handle[g]
  BY <1>1 DEF UsersTypeOK
<1>3. ASSUME NEW o \in DOMAIN object, o # handle[h]
      PROVE  IsReferenced(o)'
  <2>1. IsReferenced(o)
    BY DEF LivesWhileReferenced, StoreInv, StoreTypeOK
  <2> QED BY <1>1, <1>2, <1>3, <2>1 DEF IsReferenced
<1>4. ASSUME NEW o \in Objects, IsReferenced(o)'
      PROVE  o \in DOMAIN object
  <2>1. IsReferenced(o)
    BY <1>1, <1>2, <1>4, NamesAssumption DEF IsReferenced
  <2> QED BY <2>1 DEF LivesWhileReferenced
<1>5. Grows(disk) /\ Fits(disk, writer, reader)
  BY DiskGrows, StreamsFit
<1> QED BY <1>1, <1>2, <1>3, <1>4, <1>5, CollectKeeps

LEMMA ShareKeeps ==
    ASSUME FilesInv, NEW h \in Handles, NEW g \in Handles, Share(h, g)
    PROVE  FilesStep
<1> USE DEF FilesInv, UsersInv
<1>1. /\ handle' = [handle EXCEPT ![h] = handle[g]] /\ UNCHANGED <<writer, reader, failures>>
      /\ Collect(object, disk) /\ handle[g] # Nothing
  BY DEF Share
<1>2. /\ UsersTypeOK' /\ handle'[h] = handle[g]
      /\ \A k \in Handles : k # h => handle'[k] = handle[k]
  BY <1>1 DEF UsersTypeOK
<1>3. ASSUME NEW o \in DOMAIN object, o # handle[h]
      PROVE  IsReferenced(o)'
  <2>1. IsReferenced(o)
    BY DEF LivesWhileReferenced, StoreInv, StoreTypeOK
  <2> QED BY <1>1, <1>2, <1>3, <2>1 DEF IsReferenced
<1>4. ASSUME NEW o \in Objects, IsReferenced(o)'
      PROVE  o \in DOMAIN object
  <2>1. IsReferenced(o)
    BY <1>1, <1>2, <1>4, NamesAssumption DEF IsReferenced
  <2> QED BY <2>1 DEF LivesWhileReferenced
<1>5. Grows(disk) /\ Fits(disk, writer, reader)
  BY DiskGrows, StreamsFit
<1> QED BY <1>1, <1>2, <1>3, <1>4, <1>5, CollectKeeps

LEMMA CloseWriterKeeps ==
    ASSUME FilesInv, CloseWriter
    PROVE  FilesStep
<1> USE DEF FilesInv, UsersInv
<1>1. /\ writer' = NoWriter /\ UNCHANGED <<handle, reader, failures>> /\ Collect(object, disk)
  BY DEF CloseWriter
<1>2. UsersTypeOK'
  BY <1>1, NoStreams DEF UsersTypeOK
<1>3. ASSUME NEW o \in DOMAIN object, o # writer.file_ptr
      PROVE  IsReferenced(o)'
  <2>1. IsReferenced(o)
    BY DEF LivesWhileReferenced, StoreInv, StoreTypeOK
  <2> QED BY <1>1, <1>3, <2>1 DEF IsReferenced
<1>4. ASSUME NEW o \in Objects, IsReferenced(o)'
      PROVE  o \in DOMAIN object
  <2>1. IsReferenced(o)
    BY <1>1, <1>4, NoStreams, NamesAssumption DEF IsReferenced
  <2> QED BY <2>1 DEF LivesWhileReferenced
<1>5. Grows(disk) /\ Fits(disk, NoWriter, reader)
  BY DiskGrows, StreamsFit
<1> QED BY <1>1, <1>2, <1>3, <1>4, <1>5, CollectKeeps

LEMMA CloseReaderKeeps ==
    ASSUME FilesInv, CloseReader
    PROVE  FilesStep
<1> USE DEF FilesInv, UsersInv
<1>1. /\ reader' = NoReader /\ UNCHANGED <<handle, writer, failures>> /\ Collect(object, disk)
  BY DEF CloseReader
<1>2. UsersTypeOK'
  BY <1>1, NoStreams DEF UsersTypeOK
<1>3. ASSUME NEW o \in DOMAIN object, o # reader.file_ptr
      PROVE  IsReferenced(o)'
  <2>1. IsReferenced(o)
    BY DEF LivesWhileReferenced, StoreInv, StoreTypeOK
  <2> QED BY <1>1, <1>3, <2>1 DEF IsReferenced
<1>4. ASSUME NEW o \in Objects, IsReferenced(o)'
      PROVE  o \in DOMAIN object
  <2>1. IsReferenced(o)
    BY <1>1, <1>4, NoStreams, NamesAssumption DEF IsReferenced
  <2> QED BY <2>1 DEF LivesWhileReferenced
<1>5. Grows(disk) /\ Fits(disk, writer, NoReader)
  BY DiskGrows, StreamsFit
<1> QED BY <1>1, <1>2, <1>3, <1>4, <1>5, CollectKeeps

LEMMA OpenWriterKeeps ==
    ASSUME FilesInv, NEW h \in Handles, OpenWriter(h)
    PROVE  FilesStep
<1> USE DEF FilesInv, UsersInv
<1>1. PICK o \in DOMAIN object : o = handle[h]
  BY UsersAreInMemory DEF OpenWriter
<1>2. PICK contents : contents = IF IsPersistent(o) THEN disk ELSE Touched(disk, object[o])
  OBVIOUS
<1>3. PICK w : w = [file_ptr |-> o, open |-> ~IsPersistent(o)]
  OBVIOUS
<1>4. /\ ~IsAttached(o) /\ writer' = w /\ UNCHANGED <<handle, reader, failures>>
      /\ Collect(object, contents)
  BY <1>1, <1>2, <1>3 DEF OpenWriter
<1>5. o \in Objects /\ o # Nothing
  BY ObjectIsFile DEF StoreInv
<1>6. UsersTypeOK'
  BY <1>3, <1>4, <1>5 DEF UsersTypeOK
<1>7. ASSUME NEW q \in DOMAIN object, q # writer.file_ptr
      PROVE  IsReferenced(q)'
  <2>1. IsReferenced(q)
    BY DEF LivesWhileReferenced, StoreInv, StoreTypeOK
  <2> QED BY <1>4, <1>7, <2>1 DEF IsReferenced
<1>8. ASSUME NEW q \in Objects, IsReferenced(q)'
      PROVE  q \in DOMAIN object
  <2>1. q = o \/ IsReferenced(q)
    BY <1>3, <1>4, <1>8 DEF IsReferenced
  <2> QED BY <2>1 DEF LivesWhileReferenced
<1>9. Grows(contents) /\ (~IsPersistent(o) => object[o].path[LevelInfo] \in DOMAIN contents)
  BY <1>2, DiskGrows, TouchedIs, PathsAreTyped
<1>10. Fits(contents, w, reader)
  <2>1. Fits(contents, NoWriter, reader) /\ reader.file_ptr # o
    BY <1>4, <1>9, StreamsFit DEF IsAttached
  <2> QED BY <1>3, <1>5, <1>9, <2>1 DEF Fits
<1> QED BY <1>4, <1>6, <1>7, <1>8, <1>9, <1>10, CollectKeeps

LEMMA OpenReaderKeeps ==
    ASSUME FilesInv, NEW h \in Handles, NEW i \in Parts, NEW backwards \in BOOLEAN,
           OpenReader(h, i, backwards)
    PROVE  FilesStep
<1> USE DEF FilesInv, UsersInv
<1>1. PICK o \in DOMAIN object : o = handle[h]
  BY UsersAreInMemory DEF OpenReader
<1>2. PICK contents : contents = TouchedUnlessExists(o)
  OBVIOUS
<1>3. PICK r : r = [NoReader EXCEPT
                       !.file_ptr = o, !.part = i, !.Reverse = backwards,
                       !.offset = IF backwards THEN Len(contents[object[o].path[i]]) ELSE 0]
  OBVIOUS
<1>4. /\ ~(writer.open /\ writer.file_ptr = o) /\ reader' = r
      /\ UNCHANGED <<handle, writer, failures>> /\ Collect(object, contents)
  BY <1>1, <1>2, <1>3 DEF OpenReader
<1>5. o \in Objects /\ o # Nothing
  BY ObjectIsFile DEF StoreInv
<1>6. Grows(contents) /\ \A j \in Parts : object[o].path[j] \in DOMAIN contents
  <2>1. CASE FileExists(o)
    BY <1>2, <2>1, DiskGrows DEF TouchedUnlessExists, StoreInv, PartsAreInStep, Exists
  <2>2. CASE ~FileExists(o)
    BY <1>2, <2>2, TouchedIs DEF TouchedUnlessExists
  <2> QED BY <2>1, <2>2
<1>7. Len(contents[object[o].path[i]]) \in Nat
  BY <1>6 DEF Grows, IsDisk
<1>8. /\ r.file_ptr = o /\ r.part = i /\ r.Reverse = backwards /\ r.peeked = <<>>
      /\ r.offset = IF backwards THEN Len(contents[object[o].path[i]]) ELSE 0
      /\ r.pulled = Nothing
  BY <1>3 DEF NoReader
<1>9. UsersTypeOK'
  <2>1. r \in [file_ptr : Objects \cup {Nothing}, part : Parts, Reverse : BOOLEAN,
               offset : Nat, peeked : Seq(Elements), pulled : Elements \cup {Nothing}]
    BY <1>3, <1>5, <1>7, NoStreams
  <2> QED BY <1>4, <2>1 DEF UsersTypeOK
<1>10. ASSUME NEW q \in DOMAIN object, q # reader.file_ptr
       PROVE  IsReferenced(q)'
  <2>1. IsReferenced(q)
    BY DEF LivesWhileReferenced, StoreInv, StoreTypeOK
  <2> QED BY <1>4, <1>10, <2>1 DEF IsReferenced
<1>11. ASSUME NEW q \in Objects, IsReferenced(q)'
       PROVE  q \in DOMAIN object
  <2>1. q = o \/ IsReferenced(q)
    BY <1>4, <1>8, <1>11 DEF IsReferenced
  <2> QED BY <2>1 DEF LivesWhileReferenced
<1>12. Fits(contents, writer, r)
  <2>1. Fits(contents, writer, NoReader)
    BY <1>6, StreamsFit
  <2>2. r.offset <= Len(contents[object[o].path[i]]) /\ Len(r.peeked) <= 1
    BY <1>7, <1>8
  <2> QED BY <1>4, <1>5, <1>6, <1>8, <2>1, <2>2, PathsAreTyped DEF Fits
<1> QED BY <1>4, <1>6, <1>9, <1>10, <1>11, <1>12, CollectKeeps

-----------------------------------------------------------------------------
(* Reading: what a read head leaves to come                                *)

ReaderType ==
    [file_ptr : Objects \cup {Nothing}, part : Parts, Reverse : BOOLEAN,
     offset : Nat, peeked : Seq(Elements), pulled : Elements \cup {Nothing}]

(* A state `r` of the reader that is attached as it is.                    *)
ReadsOn(r) ==
    /\ r \in ReaderType
    /\ r.file_ptr = reader.file_ptr /\ reader.file_ptr # Nothing
    /\ r.part = reader.part /\ r.Reverse = reader.Reverse
    /\ FileOf(r) \in Seq(Elements)
    /\ r.offset <= Len(FileOf(r))
    /\ Len(r.peeked) <= 1

Rest(r) == r.peeked \o BeyondHead(r)

LEMMA ReaderReadsOn ==
    ASSUME FilesInv, reader.file_ptr # Nothing
    PROVE  ReadsOn(reader)
<1> USE DEF FilesInv, UsersInv
<1>1. PICK o \in DOMAIN object : o = reader.file_ptr
  BY UsersAreInMemory
<1>2. reader \in ReaderType
  BY DEF UsersTypeOK, ReaderType
<1>3. reader.part \in Parts
  BY <1>2 DEF ReaderType
<1>4. object[o].path[reader.part] \in DOMAIN disk
  BY <1>1, <1>3 DEF ReaderIsInside, FileExists, Exists, StoreInv, PartsAreInStep
<1>5. FileOf(reader) \in Seq(Elements)
  BY <1>1, <1>4 DEF FileOf, StoreInv, StoreTypeOK, IsDisk
<1> QED BY <1>2, <1>5 DEF ReadsOn, ReaderIsInside

LEMMA ReversedIs ==
    ASSUME NEW S, NEW s \in Seq(S)
    PROVE  /\ Reverse(s) \in Seq(S) /\ Len(Reverse(s)) = Len(s)
           /\ \A k \in 1 .. Len(s) : Reverse(s)[k] = s[Len(s) - k + 1]
<1>1. Len(s) \in Nat /\ \A k \in 1 .. Len(s) : s[k] \in S
  BY ElementOfSeq
<1>2. \A k \in 1 .. Len(s) : Len(s) - k + 1 \in 1 .. Len(s)
  BY <1>1
<1>3. PICK n \in Nat : n = Len(s)
  BY <1>1
<1>4. Reverse(s) = [k \in 1 .. n |-> s[n - k + 1]]
  BY <1>3 DEF Reverse
<1>5. Reverse(s) \in [1 .. n -> S]
  BY <1>1, <1>2, <1>3, <1>4
<1> QED BY <1>3, <1>4, <1>5

LEMMA BeyondHeadIs ==
    ASSUME NEW r, ReadsOn(r)
    PROVE  /\ BeyondHead(r) \in Seq(Elements)
           /\ Len(BeyondHead(r)) = IF r.Reverse THEN r.offset ELSE Len(FileOf(r)) - r.offset
           /\ \A k \in 1 .. Len(BeyondHead(r)) :
                 BeyondHead(r)[k] = FileOf(r)[IF r.Reverse THEN r.offset - k + 1 ELSE r.offset + k]
           /\ CanRead(r) <=> Len(BeyondHead(r)) > 0
<1>1. PICK F \in Seq(Elements), n \in Nat : F = FileOf(r) /\ n = Len(F)
  BY DEF ReadsOn
<1>2. PICK m \in 0 .. n : m = r.offset
  BY <1>1 DEF ReadsOn, ReaderType
<1>3. \A k \in 1 .. n : F[k] \in Elements
  BY <1>1, ElementOfSeq
<1>4. r.file_ptr # Nothing
  BY DEF ReadsOn
<1>5. CASE r.Reverse
  <2>1. \A k \in 1 .. m : F[k] \in Elements
    BY <1>3
  <2>2. /\ SubSeq(F, 1, m) \in Seq(Elements) /\ Len(SubSeq(F, 1, m)) = m
        /\ \A k \in 1 .. m : SubSeq(F, 1, m)[k] = F[k]
    <3>1. /\ SubSeq(F, 1, m) \in Seq(Elements)
          /\ Len(SubSeq(F, 1, m)) = IF 1 <= m THEN m - 1 + 1 ELSE 0
          /\ \A k \in 1 .. m - 1 + 1 : SubSeq(F, 1, m)[k] = F[1 + k - 1]
      BY <2>1, SubSeqProperties
    <3> QED BY <3>1
  <2>3. BeyondHead(r) = Reverse(SubSeq(F, 1, m))
    BY <1>1, <1>2, <1>4, <1>5 DEF BeyondHead
  <2>4. /\ BeyondHead(r) \in Seq(Elements) /\ Len(BeyondHead(r)) = m
        /\ \A k \in 1 .. m : BeyondHead(r)[k] = SubSeq(F, 1, m)[m - k + 1]
    <3>1. PICK t \in Seq(Elements) : t = SubSeq(F, 1, m)
      BY <2>2
    <3>2. /\ Reverse(t) \in Seq(Elements) /\ Len(Reverse(t)) = Len(t)
          /\ \A k \in 1 .. Len(t) : Reverse(t)[k] = t[Len(t) - k + 1]
      BY ReversedIs
    <3>3. Len(t) = m
      BY <2>2, <3>1
    <3> QED BY <2>3, <3>1, <3>2, <3>3
  <2>5. \A k \in 1 .. m : m - k + 1 \in 1 .. m
    OBVIOUS
  <2>6. \A k \in 1 .. m : SubSeq(F, 1, m)[m - k + 1] = F[m - k + 1]
    BY <2>2, <2>5
  <2>7. \A k \in 1 .. m : BeyondHead(r)[k] = FileOf(r)[r.offset - k + 1]
    BY <1>1, <1>2, <2>4, <2>6
  <2>8. CanRead(r) <=> m > 0
    BY <1>2, <1>5 DEF CanRead
  <2> QED BY <1>2, <1>5, <2>4, <2>7, <2>8
<1>6. CASE ~r.Reverse
  <2>1. \A k \in m + 1 .. n : F[k] \in Elements
    BY <1>3
  <2>2. BeyondHead(r) = SubSeq(F, m + 1, n)
    BY <1>1, <1>2, <1>4, <1>6 DEF BeyondHead
  <2>3. /\ BeyondHead(r) \in Seq(Elements) /\ Len(BeyondHead(r)) = n - m
        /\ \A k \in 1 .. n - m : BeyondHead(r)[k] = F[m + k]
    <3>1. /\ SubSeq(F, m + 1, n) \in Seq(Elements)
          /\ Len(SubSeq(F, m + 1, n)) = IF m + 1 <= n THEN n - (m + 1) + 1 ELSE 0
          /\ \A k \in 1 .. n - (m + 1) + 1 : SubSeq(F, m + 1, n)[k] = F[m + 1 + k - 1]
      BY <2>1, SubSeqProperties
    <3>2. n - (m + 1) + 1 = n - m /\ \A k \in Int : m + 1 + k - 1 = m + k
      OBVIOUS
    <3> QED BY <2>2, <3>1, <3>2
  <2> QED BY <1>1, <1>2, <1>6, <2>3 DEF CanRead
<1> QED BY <1>5, <1>6

LEMMA RestIs ==
    ASSUME NEW r, ReadsOn(r)
    PROVE  /\ Rest(r) \in Seq(Elements) /\ Len(Rest(r)) = Len(r.peeked) + Len(BeyondHead(r))
           /\ \A k \in 1 .. Len(Rest(r)) : Rest(r)[k] =
                 IF k <= Len(r.peeked) THEN r.peeked[k] ELSE BeyondHead(r)[k - Len(r.peeked)]
           /\ Rest(r) # <<>> <=> r.peeked # <<>> \/ CanRead(r)
<1>1. PICK s \in Seq(Elements) : s = r.peeked
  BY DEF ReadsOn, ReaderType
<1>2. PICK b \in Seq(Elements) : b = BeyondHead(r) /\ (CanRead(r) <=> Len(b) > 0)
  BY BeyondHeadIs
<1>3. /\ s \o b \in Seq(Elements) /\ Len(s \o b) = Len(s) + Len(b)
      /\ \A k \in 1 .. Len(s) + Len(b) : (s \o b)[k] = IF k <= Len(s) THEN s[k] ELSE b[k - Len(s)]
  BY ConcatProperties
<1>4. /\ s # <<>> <=> Len(s) > 0
      /\ s \o b # <<>> <=> Len(s \o b) > 0
      /\ Len(s) \in Nat /\ Len(b) \in Nat
  BY <1>3, EmptySeq
<1> QED BY <1>1, <1>2, <1>3, <1>4 DEF Rest

(* The head moves by n elements.                                           *)
LEMMA HeadMoves ==
    ASSUME NEW r, ReadsOn(r), NEW n \in Nat, n <= Len(BeyondHead(r)),
           NEW q \in ReaderType, q.file_ptr = r.file_ptr, q.part = r.part, q.Reverse = r.Reverse,
           Len(q.peeked) <= 1, q.offset = IF r.Reverse THEN r.offset - n ELSE r.offset + n
    PROVE  /\ ReadsOn(q) /\ Len(BeyondHead(q)) = Len(BeyondHead(r)) - n
           /\ \A k \in 1 .. Len(BeyondHead(q)) : BeyondHead(q)[k] = BeyondHead(r)[k + n]
<1>1. FileOf(q) = FileOf(r)
  BY DEF FileOf
<1>2. PICK F \in Seq(Elements), l \in Nat : F = FileOf(r) /\ l = Len(F)
  BY DEF ReadsOn
<1>3. PICK m \in 0 .. l : m = r.offset
  BY <1>2 DEF ReadsOn, ReaderType
<1>4. Len(BeyondHead(r)) = IF r.Reverse THEN m ELSE l - m
  BY <1>2, <1>3, BeyondHeadIs
<1>5. q.offset \in Nat /\ q.offset <= l
  BY <1>3, <1>4 DEF ReaderType, ReadsOn
<1>6. ReadsOn(q)
  BY <1>1, <1>2, <1>5 DEF ReadsOn
<1>7. Len(BeyondHead(q)) = Len(BeyondHead(r)) - n
  <2>1. Len(BeyondHead(q)) = IF q.Reverse THEN q.offset ELSE l - q.offset
    BY <1>1, <1>2, <1>6, BeyondHeadIs
  <2>2. m = r.offset /\ m \in Nat /\ l \in Nat
    BY <1>3
  <2>3. CASE r.Reverse
    BY <1>4, <2>1, <2>2, <2>3
  <2>4. CASE ~r.Reverse
    BY <1>4, <2>1, <2>2, <2>4
  <2> QED BY <2>3, <2>4
<1>8. ASSUME NEW k \in 1 .. Len(BeyondHead(q))
      PROVE  BeyondHead(q)[k] = BeyondHead(r)[k + n]
  <2>1. BeyondHead(q)[k] = F[IF r.Reverse THEN q.offset - k + 1 ELSE q.offset + k]
    BY <1>1, <1>2, <1>6, BeyondHeadIs, ZenonT(40)
  <2>2. k \in Nat /\ k + n \in 1 .. Len(BeyondHead(r))
    BY <1>3, <1>4, <1>7, SMTT(30)
  <2>3. BeyondHead(r)[k + n] = F[IF r.Reverse THEN m - (k + n) + 1 ELSE m + (k + n)]
    BY <1>2, <1>3, <2>2, BeyondHeadIs
  <2>4. CASE r.Reverse
    <3>1. q.offset - k + 1 = m - (k + n) + 1
      BY <1>3, <2>2, <2>4
    <3> QED BY <2>1, <2>3, <2>4, <3>1
  <2>5. CASE ~r.Reverse
    <3>1. q.offset + k = m + (k + n)
      BY <1>3, <2>2, <2>5
    <3> QED BY <2>1, <2>3, <2>5, <3>1
  <2> QED BY <2>4, <2>5
<1> QED BY <1>6, <1>7, <1>8

(* The next element is the one the reader's stream gives.                  *)
LEMMA ElementIs ==
    ASSUME NEW r, ReadsOn(r), CanRead(r)
    PROVE  /\ Element(r) = BeyondHead(r)[1] /\ Element(r) \in Elements
           /\ Len(BeyondHead(r)) \in Nat \ {0}
<1>1. PICK b \in Seq(Elements) : b = BeyondHead(r) /\ Len(b) > 0
  BY BeyondHeadIs
<1>2. Len(b) \in Nat /\ 1 \in 1 .. Len(b) /\ b[1] \in Elements
  BY <1>1, ElementOfSeq
<1>3. b[1] = FileOf(r)[IF r.Reverse THEN r.offset - 1 + 1 ELSE r.offset + 1]
  BY <1>1, <1>2, BeyondHeadIs
<1>4. r.offset - 1 + 1 = r.offset
  BY DEF ReadsOn, ReaderType
<1>5. b[1] = Element(r)
  BY <1>3, <1>4 DEF Element
<1> QED BY <1>1, <1>2, <1>5

LEMMA PeekedIs ==
    ASSUME NEW r, ReadsOn(r), Rest(r) # <<>>
    PROVE  /\ ReadsOn(Peeked(r)) /\ Rest(Peeked(r)) = Rest(r)
           /\ Peeked(r).pulled = r.pulled /\ Len(Peeked(r).peeked) = 1
<1>1. r.peeked \in Seq(Elements) /\ Len(r.peeked) <= 1 /\ r \in ReaderType
  BY DEF ReadsOn, ReaderType
<1>2. CASE r.peeked # <<>>
  <2>1. Len(r.peeked) = 1
    <3>1. Len(r.peeked) \in Nat \ {0}
      BY <1>1, <1>2, EmptySeq, Zenon
    <3>2. PICK l \in Nat : l = Len(r.peeked) /\ l # 0
      BY <3>1
    <3>3. l <= 1 /\ l # 0
      BY <1>1, <3>2
    <3>4. l = 1
      BY <3>3
    <3> QED BY <3>2, <3>4
  <2> QED BY <1>2, <2>1 DEF Peeked
<1>3. CASE r.peeked = <<>>
  <2>1. CanRead(r)
    BY <1>3, RestIs
  <2>2. PICK e \in Elements : e = Element(r) /\ e = BeyondHead(r)[1]
    BY <2>1, ElementIs
  <2>3. PICK q : q = Peeked(r)
    OBVIOUS
  <2>4. /\ q \in ReaderType /\ q.file_ptr = r.file_ptr /\ q.part = r.part
        /\ q.Reverse = r.Reverse /\ q.pulled = r.pulled /\ q.peeked = <<e>>
        /\ q.offset = IF r.Reverse THEN r.offset - 1 ELSE r.offset + 1
    <3>1. q = [r EXCEPT !.offset = IF r.Reverse THEN r.offset - 1 ELSE r.offset + 1,
                        !.peeked = <<e>>]
      BY <1>1, <1>3, <2>2, <2>3 DEF Peeked, Step, ReaderType
    <3>2. (IF r.Reverse THEN r.offset - 1 ELSE r.offset + 1) \in Nat
      BY <1>1, <2>1 DEF ReaderType, CanRead
    <3>3. <<e>> \in Seq(Elements)
      OBVIOUS
    <3> QED BY <1>1, <3>1, <3>2, <3>3 DEF ReaderType
  <2>5. Len(q.peeked) = 1 /\ q.peeked[1] = e
    BY <2>4
  <2>6. Len(BeyondHead(r)) \in Nat \ {0}
    BY <2>1, ElementIs
  <2>7. /\ ReadsOn(q) /\ Len(BeyondHead(q)) = Len(BeyondHead(r)) - 1
        /\ \A k \in 1 .. Len(BeyondHead(q)) : BeyondHead(q)[k] = BeyondHead(r)[k + 1]
    <3>1. 1 <= Len(BeyondHead(r)) /\ 1 \in Nat /\ Len(q.peeked) <= 1
      BY <2>5, <2>6
    <3> QED BY <2>4, <3>1, HeadMoves
  <2>8. /\ Rest(r) \in Seq(Elements) /\ Len(Rest(r)) = Len(BeyondHead(r))
        /\ \A k \in 1 .. Len(Rest(r)) : Rest(r)[k] = BeyondHead(r)[k]
    <3>1. Len(r.peeked) = 0
      BY <1>3
    <3>2. /\ Rest(r) \in Seq(Elements) /\ Len(Rest(r)) = 0 + Len(BeyondHead(r))
          /\ \A k \in 1 .. Len(Rest(r)) : Rest(r)[k] =
                IF k <= 0 THEN r.peeked[k] ELSE BeyondHead(r)[k - 0]
      BY <3>1, RestIs
    <3> QED BY <2>6, <3>2
  <2>9. /\ Rest(q) \in Seq(Elements) /\ Len(Rest(q)) = 1 + Len(BeyondHead(q))
        /\ \A k \in 1 .. Len(Rest(q)) : Rest(q)[k] =
              IF k <= 1 THEN q.peeked[k] ELSE BeyondHead(q)[k - 1]
    BY <2>5, <2>7, RestIs
  <2>10. Len(Rest(q)) = Len(Rest(r))
    BY <2>6, <2>7, <2>8, <2>9
  <2>11. ASSUME NEW k \in 1 .. Len(Rest(q))
         PROVE  Rest(q)[k] = Rest(r)[k]
    <3>1. CASE k = 1
      BY <2>2, <2>5, <2>8, <2>9, <2>10, <3>1
    <3>2. CASE k # 1
      <4>1. k - 1 \in 1 .. Len(BeyondHead(q)) /\ (k - 1) + 1 = k
        BY <2>6, <2>7, <2>9, <3>2
      <4> QED BY <2>7, <2>8, <2>9, <2>10, <3>2, <4>1
    <3> QED BY <3>1, <3>2
  <2>12. Rest(q) = Rest(r)
    BY <2>8, <2>9, <2>10, <2>11, SeqEqual
  <2> QED BY <2>3, <2>4, <2>5, <2>7, <2>12
<1> QED BY <1>2, <1>3

LEMMA PulledIs ==
    ASSUME NEW r, ReadsOn(r), Rest(r) # <<>>
    PROVE  /\ ReadsOn(Pulled(r)) /\ Pulled(r).pulled = Head(Rest(r))
           /\ Rest(Pulled(r)) = Tail(Rest(r))
<1>1. r.peeked \in Seq(Elements) /\ Len(r.peeked) <= 1 /\ r \in ReaderType
  BY DEF ReadsOn, ReaderType
<1>2. PICK q : q = Pulled(r)
  OBVIOUS
<1>3. PICK n \in {0, 1} : n = IF r.peeked = <<>> THEN 1 ELSE 0
  OBVIOUS
<1>4. /\ Rest(r) \in Seq(Elements) /\ Len(Rest(r)) = 1 - n + Len(BeyondHead(r))
      /\ \A k \in 1 .. Len(Rest(r)) : Rest(r)[k] =
            IF k <= 1 - n THEN r.peeked[k] ELSE BeyondHead(r)[k - (1 - n)]
      /\ Len(BeyondHead(r)) \in Nat /\ n <= Len(BeyondHead(r))
      /\ Len(r.peeked) = 1 - n
  <2>1. Len(r.peeked) = 1 - n
    <3>1. r.peeked # <<>> => Len(r.peeked) \in Nat \ {0}
      BY <1>1, EmptySeq, Zenon
    <3>2. r.peeked = <<>> => Len(r.peeked) = 0
      OBVIOUS
    <3>3. PICK l \in Nat : l = Len(r.peeked) /\ (r.peeked # <<>> => l # 0)
      BY <3>1, <3>2
    <3>4. l <= 1 /\ (r.peeked = <<>> => l = 0)
      BY <1>1, <3>2, <3>3
    <3>5. l = 1 - n
      <4>1. CASE r.peeked = <<>>
        BY <1>3, <3>4, <4>1
      <4>2. CASE r.peeked # <<>>
        <5>1. l # 0 /\ n = 0
          BY <1>3, <3>3, <4>2
        <5>2. l = 1
          BY <3>4, <5>1
        <5> QED BY <5>1, <5>2
      <4> QED BY <4>1, <4>2
    <3> QED BY <3>3, <3>5
  <2>2. Len(BeyondHead(r)) \in Nat
    BY BeyondHeadIs
  <2>3. n = 1 => CanRead(r)
    BY <1>3, RestIs
  <2>4. n <= Len(BeyondHead(r))
    BY <1>3, <2>2, <2>3, BeyondHeadIs
  <2> QED BY <2>1, <2>2, <2>4, RestIs
<1>5. PICK e \in Elements : e = IF n = 1 THEN Element(r) ELSE r.peeked[1]
  <2>1. n = 1 => CanRead(r)
    BY <1>3, RestIs
  <2>2. n = 0 => r.peeked[1] \in Elements
    BY <1>1, <1>4, ElementOfSeq
  <2> QED BY <1>3, <2>1, <2>2, ElementIs
<1>6. /\ q \in ReaderType /\ q.file_ptr = r.file_ptr /\ q.part = r.part
      /\ q.Reverse = r.Reverse /\ q.pulled = e /\ q.peeked = <<>>
      /\ q.offset = IF r.Reverse THEN r.offset - n ELSE r.offset + n
  <2>1. CASE n = 1
    <3>1. r.peeked = <<>> /\ CanRead(r)
      BY <1>3, <2>1, RestIs
    <3>2. q = [r EXCEPT !.offset = IF r.Reverse THEN r.offset - 1 ELSE r.offset + 1, !.pulled = e]
      BY <1>1, <1>2, <1>5, <2>1, <3>1 DEF Pulled, Answer, Step, ReaderType
    <3>3. (IF r.Reverse THEN r.offset - 1 ELSE r.offset + 1) \in Nat
      BY <1>1, <3>1 DEF ReaderType, CanRead
    <3> QED BY <1>1, <2>1, <3>1, <3>2, <3>3 DEF ReaderType
  <2>2. CASE n = 0
    <3>1. r.peeked # <<>> /\ Head(r.peeked) = e
      BY <1>1, <1>3, <1>5, <2>2
    <3>2. q = [r EXCEPT !.peeked = <<>>, !.pulled = e]
      BY <1>1, <1>2, <3>1 DEF Pulled, Answer, ReaderType
    <3>3. <<>> \in Seq(Elements)
      OBVIOUS
    <3>4. r.offset - 0 = r.offset /\ r.offset + 0 = r.offset
      BY <1>1 DEF ReaderType
    <3>5. /\ q \in ReaderType /\ q.file_ptr = r.file_ptr /\ q.part = r.part
          /\ q.Reverse = r.Reverse /\ q.pulled = e /\ q.peeked = <<>> /\ q.offset = r.offset
      BY <1>1, <3>2, <3>3 DEF ReaderType
    <3> QED BY <2>2, <3>4, <3>5
  <2> QED BY <2>1, <2>2
<1>7. Len(q.peeked) = 0
  BY <1>6
<1>8. /\ ReadsOn(q) /\ Len(BeyondHead(q)) = Len(BeyondHead(r)) - n
      /\ \A k \in 1 .. Len(BeyondHead(q)) : BeyondHead(q)[k] = BeyondHead(r)[k + n]
  <2>1. n \in Nat /\ Len(q.peeked) <= 1
    BY <1>7
  <2> QED BY <1>4, <1>6, <2>1, HeadMoves
<1>9. /\ Rest(q) \in Seq(Elements) /\ Len(Rest(q)) = Len(BeyondHead(q))
      /\ \A k \in 1 .. Len(Rest(q)) : Rest(q)[k] = BeyondHead(q)[k]
  <2>1. /\ Rest(q) \in Seq(Elements) /\ Len(Rest(q)) = 0 + Len(BeyondHead(q))
        /\ \A k \in 1 .. Len(Rest(q)) : Rest(q)[k] =
              IF k <= 0 THEN q.peeked[k] ELSE BeyondHead(q)[k - 0]
    BY <1>7, <1>8, RestIs
  <2>2. Len(BeyondHead(q)) \in Int
    BY <1>3, <1>4, <1>8
  <2> QED BY <2>1, <2>2
<1>10. /\ Tail(Rest(r)) \in Seq(Elements) /\ Len(Tail(Rest(r))) = Len(Rest(r)) - 1
       /\ \A k \in 1 .. Len(Tail(Rest(r))) : Tail(Rest(r))[k] = Rest(r)[k + 1]
  BY <1>4, HeadTailProperties
<1>11. Len(Rest(q)) = Len(Tail(Rest(r)))
  BY <1>3, <1>4, <1>8, <1>9, <1>10
<1>12. ASSUME NEW k \in 1 .. Len(Rest(q))
       PROVE  Rest(q)[k] = Tail(Rest(r))[k]
  <2>1. Rest(q)[k] = BeyondHead(r)[k + n]
    BY <1>8, <1>9
  <2>2. k + 1 \in 1 .. Len(Rest(r)) /\ ~(k + 1 <= 1 - n) /\ k + 1 - (1 - n) = k + n
    BY <1>3, <1>4, <1>8, <1>9
  <2>3. Tail(Rest(r))[k] = Rest(r)[k + 1]
    BY <1>10, <1>11
  <2> QED BY <1>4, <2>1, <2>2, <2>3
<1>13. Rest(q) = Tail(Rest(r))
  BY <1>9, <1>10, <1>11, <1>12, SeqEqual
<1>14. Head(Rest(r)) = e
  <2>1. 1 \in 1 .. Len(Rest(r)) /\ Head(Rest(r)) = Rest(r)[1]
    BY <1>4, EmptySeq
  <2>2. CASE n = 1
    <3>1. Rest(r)[1] = BeyondHead(r)[1]
      BY <1>4, <2>1, <2>2
    <3>2. CanRead(r)
      BY <1>3, <2>2, RestIs
    <3> QED BY <1>5, <2>1, <2>2, <3>1, <3>2, ElementIs
  <2>3. CASE n = 0
    BY <1>4, <1>5, <2>1, <2>3
  <2> QED BY <2>2, <2>3
<1> QED BY <1>2, <1>6, <1>8, <1>13, <1>14

LEMMA AdvancedIs ==
    ASSUME NEW r, ReadsOn(r), Len(r.peeked) = 1, NEW n \in Nat, n <= Len(BeyondHead(r))
    PROVE  /\ ReadsOn(Advanced(r, n)) /\ Advanced(r, n).pulled = r.pulled
           /\ Len(Advanced(r, n).peeked) = 1 /\ Head(Advanced(r, n).peeked) = Rest(r)[n + 1]
           /\ Len(Rest(r)) = 1 + Len(BeyondHead(r))
           /\ Rest(Advanced(r, n)) = SubSeq(Rest(r), n + 1, Len(Rest(r)))
           /\ CanRead(Advanced(r, n)) <=> n < Len(BeyondHead(r))
<1>1. r.peeked \in Seq(Elements) /\ r \in ReaderType /\ r.offset \in Nat
  BY DEF ReadsOn, ReaderType
<1>2. PICK l \in Nat : l = Len(BeyondHead(r))
  BY BeyondHeadIs
<1>3. n <= l
  BY <1>2
<1>4. /\ Rest(r) \in Seq(Elements) /\ Len(Rest(r)) = 1 + l
      /\ \A k \in 1 .. 1 + l : Rest(r)[k] = IF k <= 1 THEN r.peeked[k] ELSE BeyondHead(r)[k - 1]
  <2>1. /\ Rest(r) \in Seq(Elements) /\ Len(Rest(r)) = 1 + l
        /\ \A k \in 1 .. Len(Rest(r)) : Rest(r)[k] =
              IF k <= 1 THEN r.peeked[k] ELSE BeyondHead(r)[k - 1]
    BY <1>2, RestIs
  <2> QED BY <2>1
<1>5. PICK q : q = Advanced(r, n)
  OBVIOUS
<1>6. PICK e \in Elements : e = Rest(r)[n + 1]
  <2>1. n + 1 \in 1 .. 1 + l
    BY <1>3
  <2> QED BY <1>4, <2>1, ElementOfSeq
<1>7. /\ q \in ReaderType /\ q.file_ptr = r.file_ptr /\ q.part = r.part
      /\ q.Reverse = r.Reverse /\ q.pulled = r.pulled /\ q.peeked = <<e>>
      /\ q.offset = IF r.Reverse THEN r.offset - n ELSE r.offset + n
  <2>1. CASE n = 0
    <3>1. q = r
      BY <1>5, <2>1 DEF Advanced
    <3>2. e = r.peeked[1]
      <4>1. 1 \in 1 .. 1 + l /\ n + 1 = 1
        BY <2>1
      <4> QED BY <1>4, <1>6, <4>1
    <3>3. r.peeked = <<e>>
      BY <1>1, <3>2
    <3>4. r.offset - 0 = r.offset /\ r.offset + 0 = r.offset
      BY <1>1
    <3> QED BY <1>1, <2>1, <3>1, <3>3, <3>4
  <2>2. CASE n # 0
    <3>1. PICK p : p = [r EXCEPT !.offset = IF r.Reverse THEN r.offset - n + 1 ELSE r.offset + n - 1]
      OBVIOUS
    <3>2. PICK m \in Nat : m = n - 1
      BY <2>2
    <3>3. (IF r.Reverse THEN r.offset - n + 1 ELSE r.offset + n - 1) =
              IF r.Reverse THEN r.offset - m ELSE r.offset + m
      BY <1>1, <3>2
    <3>4. l = IF r.Reverse THEN r.offset ELSE Len(FileOf(r)) - r.offset
      BY <1>2, BeyondHeadIs
    <3>5. r.Reverse => n <= r.offset
      BY <1>3, <3>4
    <3>6. (IF r.Reverse THEN r.offset - m ELSE r.offset + m) \in Nat
      BY <1>1, <3>2, <3>5
    <3>7. /\ p \in ReaderType /\ p.file_ptr = r.file_ptr /\ p.part = r.part
          /\ p.Reverse = r.Reverse /\ p.pulled = r.pulled /\ p.peeked = r.peeked
          /\ p.offset = IF r.Reverse THEN r.offset - m ELSE r.offset + m
      BY <1>1, <3>1, <3>3, <3>6 DEF ReaderType
    <3>8. /\ ReadsOn(p) /\ Len(BeyondHead(p)) = l - m
          /\ \A k \in 1 .. Len(BeyondHead(p)) : BeyondHead(p)[k] = BeyondHead(r)[k + m]
      <4>1. m <= Len(BeyondHead(r)) /\ Len(p.peeked) <= 1
        <5>1. m <= l
          BY <1>3, <3>2
        <5>2. Len(p.peeked) = 1
          BY <3>7
        <5> QED BY <1>2, <5>1, <5>2
      <4> QED BY <1>2, <3>7, <4>1, HeadMoves
    <3>9. CanRead(p) /\ 1 \in 1 .. Len(BeyondHead(p))
      BY <1>3, <3>2, <3>8, BeyondHeadIs
    <3>10. Element(p) = BeyondHead(r)[1 + m]
      BY <3>8, <3>9, ElementIs
    <3>11. Element(p) = e
      <4>1. n + 1 \in 1 .. 1 + l /\ ~(n + 1 <= 1) /\ n + 1 - 1 = 1 + m
        BY <1>3, <2>2, <3>2
      <4> QED BY <1>4, <1>6, <3>10, <4>1
    <3>12. q = [Step(p) EXCEPT !.peeked = <<e>>]
      BY <1>5, <2>2, <3>1, <3>11 DEF Advanced
    <3>13. q = [p EXCEPT !.offset = IF p.Reverse THEN p.offset - 1 ELSE p.offset + 1, !.peeked = <<e>>]
      BY <3>7, <3>12 DEF Step, ReaderType
    <3>14. (IF p.Reverse THEN p.offset - 1 ELSE p.offset + 1) =
               IF r.Reverse THEN r.offset - n ELSE r.offset + n
      BY <1>1, <3>2, <3>7
    <3>15. (IF r.Reverse THEN r.offset - n ELSE r.offset + n) \in Nat
      BY <1>1, <3>5
    <3>16. <<e>> \in Seq(Elements)
      OBVIOUS
    <3> QED BY <3>7, <3>13, <3>14, <3>15, <3>16 DEF ReaderType
  <2> QED BY <2>1, <2>2
<1>8. Len(q.peeked) = 1 /\ Head(q.peeked) = e /\ q.peeked[1] = e
  BY <1>7
<1>9. /\ ReadsOn(q) /\ Len(BeyondHead(q)) = l - n
      /\ \A k \in 1 .. Len(BeyondHead(q)) : BeyondHead(q)[k] = BeyondHead(r)[k + n]
  <2>1. n <= Len(BeyondHead(r)) /\ Len(q.peeked) <= 1
    BY <1>8
  <2> QED BY <1>2, <1>7, <2>1, HeadMoves
<1>10. /\ Rest(q) \in Seq(Elements) /\ Len(Rest(q)) = 1 + (l - n)
       /\ \A k \in 1 .. Len(Rest(q)) : Rest(q)[k] =
             IF k <= 1 THEN q.peeked[k] ELSE BeyondHead(q)[k - 1]
  BY <1>8, <1>9, RestIs
<1>11. PICK s : s = SubSeq(Rest(r), n + 1, Len(Rest(r)))
  OBVIOUS
<1>12. /\ s \in Seq(Elements) /\ Len(s) = 1 + l - n
       /\ \A k \in 1 .. 1 + l - n : s[k] = Rest(r)[k + n]
  <2>1. \A k \in n + 1 .. 1 + l : Rest(r)[k] \in Elements
    BY <1>4, ElementOfSeq
  <2>2. /\ SubSeq(Rest(r), n + 1, 1 + l) \in Seq(Elements)
        /\ Len(SubSeq(Rest(r), n + 1, 1 + l)) = IF n + 1 <= 1 + l THEN 1 + l - (n + 1) + 1 ELSE 0
        /\ \A k \in 1 .. 1 + l - (n + 1) + 1 :
              SubSeq(Rest(r), n + 1, 1 + l)[k] = Rest(r)[n + 1 + k - 1]
    <3>1. n + 1 \in Int /\ 1 + l \in Int
      OBVIOUS
    <3> QED BY <2>1, <3>1, SubSeqProperties
  <2>3. /\ n + 1 <= 1 + l /\ 1 + l - (n + 1) + 1 = 1 + l - n
        /\ \A k \in Int : n + 1 + k - 1 = k + n
    BY <1>3
  <2> QED BY <1>4, <1>11, <2>2, <2>3
<1>13. Len(Rest(q)) = Len(s)
  BY <1>10, <1>12
<1>14. ASSUME NEW k \in 1 .. Len(Rest(q))
       PROVE  Rest(q)[k] = s[k]
  <2>1. k \in 1 .. 1 + l - n /\ k \in Nat
    BY <1>10
  <2>2. s[k] = Rest(r)[k + n]
    BY <1>12, <2>1
  <2>3. CASE k = 1
    BY <1>6, <1>8, <1>10, <2>2, <2>3
  <2>4. CASE k # 1
    <3>1. /\ ~(k <= 1) /\ k - 1 \in 1 .. l - n
          /\ k + n \in 1 .. 1 + l /\ ~(k + n <= 1) /\ k + n - 1 = k - 1 + n
      BY <1>3, <2>1, <2>4
    <3>2. Rest(q)[k] = BeyondHead(r)[k - 1 + n]
      BY <1>9, <1>10, <3>1
    <3> QED BY <1>4, <2>2, <3>1, <3>2
  <2> QED BY <2>3, <2>4
<1>15. Rest(q) = s
  BY <1>10, <1>12, <1>13, <1>14, SeqEqual
<1>16. CanRead(q) <=> n < l
  BY <1>3, <1>9, BeyondHeadIs
<1> QED BY <1>2, <1>4, <1>5, <1>6, <1>7, <1>8, <1>9, <1>11, <1>15, <1>16

(* Where the head is after seeking past n elements.                        *)
LEMMA AdvancedBy ==
    ASSUME NEW r, ReadsOn(r), NEW n \in Nat
    PROVE  CanRead(Advanced(r, n)) => n < Len(BeyondHead(r))
<1>1. r \in ReaderType /\ r.offset \in Nat
  BY DEF ReadsOn, ReaderType
<1>2. PICK l \in Nat : l = Len(FileOf(r))
  BY DEF ReadsOn
<1>3. Len(BeyondHead(r)) = IF r.Reverse THEN r.offset ELSE l - r.offset
  BY <1>2, BeyondHeadIs
<1>4. PICK q : q = Advanced(r, n)
  OBVIOUS
<1>5. /\ q.file_ptr = r.file_ptr /\ q.part = r.part /\ q.Reverse = r.Reverse
      /\ q.offset = IF r.Reverse THEN r.offset - n ELSE r.offset + n
  <2>1. CASE n = 0
    <3>1. q = r
      BY <1>4, <2>1 DEF Advanced
    <3>2. r.offset - 0 = r.offset /\ r.offset + 0 = r.offset
      BY <1>1
    <3> QED BY <2>1, <3>1, <3>2
  <2>2. CASE n # 0
    <3>1. PICK p : p = [r EXCEPT !.offset = IF r.Reverse THEN r.offset - n + 1 ELSE r.offset + n - 1]
      OBVIOUS
    <3>2. PICK e : e = <<Element(p)>>
      OBVIOUS
    <3>3. q = [Step(p) EXCEPT !.peeked = e]
      BY <1>4, <2>2, <3>1, <3>2 DEF Advanced
    <3>4. /\ p.Reverse = r.Reverse
          /\ p.offset = IF r.Reverse THEN r.offset - n + 1 ELSE r.offset + n - 1
          /\ p = [r EXCEPT !.offset = p.offset]
      BY <1>1, <3>1 DEF ReaderType
    <3>5. q = [r EXCEPT !.offset = IF r.Reverse THEN p.offset - 1 ELSE p.offset + 1, !.peeked = e]
      BY <1>1, <3>3, <3>4 DEF Step, ReaderType
    <3>6. (IF r.Reverse THEN p.offset - 1 ELSE p.offset + 1) =
              IF r.Reverse THEN r.offset - n ELSE r.offset + n
      BY <1>1, <3>4
    <3> QED BY <1>1, <3>5, <3>6 DEF ReaderType
  <2> QED BY <2>1, <2>2
<1>6. FileOf(q) = FileOf(r)
  BY <1>5 DEF FileOf
<1>7. CanRead(q) <=> IF r.Reverse THEN q.offset > 0 ELSE q.offset < l
  BY <1>2, <1>5, <1>6 DEF CanRead
<1> QED BY <1>1, <1>3, <1>4, <1>5, <1>7

LEMMA SeekIs ==
    ASSUME NEW r, ReadsOn(r), Len(r.peeked) = 1, NEW n \in Nat, NEW target \in Elements,
           \A k \in 0 .. n - 1 : GoesOn(Advanced(r, k), target), ~GoesOn(Advanced(r, n), target)
    PROVE  /\ ReadsOn(Advanced(r, n)) /\ Advanced(r, n).pulled = r.pulled
           /\ LET rest == Rest(r)
                  passed == {k \in 1 .. Len(rest) - 1 : \A j \in 1 .. k : rest[j] < target}
                  m == IF passed = {} THEN 0 ELSE CHOOSE k \in passed : \A j \in passed : j <= k
              IN  Rest(Advanced(r, n)) = SubSeq(rest, m + 1, Len(rest))
<1> DEFINE rest == Rest(r)
           passed == {k \in 1 .. Len(rest) - 1 : \A j \in 1 .. k : rest[j] < target}
           m == IF passed = {} THEN 0 ELSE CHOOSE k \in passed : \A j \in passed : j <= k
<1>1. PICK l \in Nat : l = Len(BeyondHead(r))
  BY BeyondHeadIs
<1>2. n <= l
  <2>1. CASE n = 0
    BY <1>1, <2>1
  <2>2. CASE n # 0
    <3>1. n - 1 \in 0 .. n - 1 /\ n - 1 \in Nat
      BY <2>2
    <3>2. CanRead(Advanced(r, n - 1))
      BY <3>1 DEF GoesOn
    <3>3. n - 1 < l
      BY <1>1, <3>1, <3>2, AdvancedBy
    <3> QED BY <3>3
  <2> QED BY <2>1, <2>2
<1>3. /\ ReadsOn(Advanced(r, n)) /\ Advanced(r, n).pulled = r.pulled
      /\ Rest(Advanced(r, n)) = SubSeq(rest, n + 1, Len(rest))
      /\ Len(rest) = 1 + l
  BY <1>1, <1>2, AdvancedIs
<1>4. ASSUME NEW k \in Nat, k <= l
      PROVE  GoesOn(Advanced(r, k), target) <=> rest[k + 1] < target /\ k < l
  <2>1. Head(Advanced(r, k).peeked) = rest[k + 1] /\ (CanRead(Advanced(r, k)) <=> k < l)
    BY <1>1, <1>4, AdvancedIs
  <2> QED BY <2>1 DEF GoesOn
<1>5. \A k \in 1 .. n : rest[k] < target /\ k <= l
  <2> SUFFICES ASSUME NEW k \in 1 .. n PROVE rest[k] < target /\ k <= l
    OBVIOUS
  <2>1. k - 1 \in 0 .. n - 1 /\ k - 1 \in Nat /\ k - 1 <= l /\ k - 1 + 1 = k
    BY <1>2
  <2>2. GoesOn(Advanced(r, k - 1), target)
    BY <2>1
  <2> QED BY <1>2, <1>4, <2>1, <2>2
<1>6. ~(rest[n + 1] < target /\ n < l)
  BY <1>2, <1>4
<1> HIDE DEF rest
<1>7. passed = 1 .. n
  <2>1. ASSUME NEW k \in 1 .. n PROVE k \in passed
    <3>1. k \in 1 .. Len(rest) - 1
      BY <1>2, <1>3
    <3>2. \A j \in 1 .. k : rest[j] < target
      BY <1>5
    <3> QED BY <3>1, <3>2
  <2>2. ASSUME NEW k \in passed PROVE k \in 1 .. n
    <3>1. k \in 1 .. l /\ \A j \in 1 .. k : rest[j] < target
      BY <1>3
    <3>2. CASE k <= n
      BY <3>1, <3>2
    <3>3. CASE ~(k <= n)
      <4>1. n + 1 \in 1 .. k /\ n < l
        BY <3>1, <3>3
      <4> QED BY <1>6, <3>1, <4>1
    <3> QED BY <3>2, <3>3
  <2> QED BY <2>1, <2>2
<1>8. m = n
  <2> HIDE DEF passed
  <2>1. CASE n = 0
    BY <1>7, <2>1
  <2>2. CASE n # 0
    <3>1. n \in passed /\ \A j \in passed : j <= n
      BY <1>7, <2>2
    <3>2. PICK k : k = CHOOSE c \in passed : \A j \in passed : j <= c
      OBVIOUS
    <3>3. k \in passed /\ \A j \in passed : j <= k
      BY <3>1, <3>2
    <3>4. k = n
      BY <1>7, <3>1, <3>3
    <3>5. passed # {}
      BY <3>1
    <3> QED BY <3>2, <3>4, <3>5
  <2> QED BY <2>1, <2>2
<1> QED BY <1>3, <1>8 DEF rest

-----------------------------------------------------------------------------
(* The remaining steps keep the invariant                                  *)

LEMMA PushKeeps ==
    ASSUME FilesInv, NEW i \in Parts, NEW e \in Elements, Push(i, e)
    PROVE  FilesStep
<1> USE DEF FilesInv, UsersInv
<1>1. /\ writer.file_ptr \in DOMAIN object /\ ~IsPersistent(writer.file_ptr)
      /\ FileExists(writer.file_ptr) /\ reader.file_ptr # writer.file_ptr
  BY DEF Push, WriterIsAlone
<1>2. /\ StoreInv' /\ StoreStep /\ Orphans' \subseteq Orphans
      /\ \A q \in DOMAIN object : q # writer.file_ptr => Undisturbed(q)
  BY <1>1, PushStep
<1>3. /\ UNCHANGED <<object, handle, writer, reader, failures>> /\ DOMAIN disk' = DOMAIN disk
  BY DEF Push
<1>4. UsersTypeOK' /\ LivesWhileReferenced'
  BY <1>3 DEF UsersTypeOK, LivesWhileReferenced, IsReferenced
<1>5. WriterIsAlone'
  BY <1>3 DEF WriterIsAlone, IsPersistent, FileExists, Exists
<1>6. ReaderIsInside'
  <2>1. CASE reader.file_ptr = Nothing
    BY <1>3, <2>1 DEF ReaderIsInside
  <2>2. CASE reader.file_ptr # Nothing
    <3>1. PICK o \in DOMAIN object : o = reader.file_ptr /\ o # writer.file_ptr
      BY <1>1, <2>2, UsersAreInMemory
    <3>2. reader.part \in Parts
      BY DEF UsersTypeOK
    <3>3. Exists(object[o].path[reader.part]) /\ FileExists(o)
      BY <2>2, <3>1, <3>2 DEF ReaderIsInside, StoreInv, PartsAreInStep
    <3>4. disk'[object[o].path[reader.part]] = disk[object[o].path[reader.part]]
      BY <1>2, <3>1, <3>2, <3>3 DEF Undisturbed
    <3> QED BY <1>3, <2>2, <3>1, <3>3, <3>4 DEF ReaderIsInside, FileOf, FileExists, Exists
  <2> QED BY <2>1, <2>2
<1>7. ReadIsUndisturbed
  BY <1>1, <1>2, UsersAreInMemory DEF ReadIsUndisturbed
<1> QED BY <1>2, <1>3, <1>4, <1>5, <1>6, <1>7 DEF FilesStep, OrphansGrow

(* The reader only reads.                                                  *)
LEMMA ReadKeeps ==
    ASSUME FilesInv, UNCHANGED <<disk, object, handle, writer, failures>>,
           NEW r, r = reader', ReadsOn(r)
    PROVE  FilesStep
<1> USE DEF FilesInv, UsersInv
<1>1. StoreInv' /\ StoreStep /\ Orphans' = Orphans
  BY StayStep
<1>2. r.file_ptr = reader.file_ptr /\ reader.file_ptr # Nothing
  BY DEF ReadsOn
<1>3. UsersTypeOK'
  BY DEF UsersTypeOK, ReadsOn, ReaderType
<1>4. LivesWhileReferenced' /\ WriterIsAlone'
  BY <1>2 DEF LivesWhileReferenced, IsReferenced, WriterIsAlone, IsPersistent, FileExists, Exists
<1>5. ReaderIsInside'
  <2>1. FileOf(reader)' = FileOf(r)
    BY DEF FileOf
  <2>2. FileExists(r.file_ptr)
    BY <1>2 DEF ReaderIsInside
  <2> QED BY <1>2, <2>1, <2>2 DEF ReaderIsInside, ReadsOn, FileExists, Exists
<1>6. ReadIsUndisturbed
  BY DEF ReadIsUndisturbed, Undisturbed, Exists
<1> QED BY <1>1, <1>3, <1>4, <1>5, <1>6 DEF FilesStep, OrphansGrow

LEMMA ResetReadsOn ==
    ASSUME FilesInv, Reset
    PROVE  /\ ReadsOn(reader') /\ reader' = [reader EXCEPT !.offset = Begin(reader), !.pulled = Nothing]
           /\ reader.file_ptr # Nothing /\ reader.peeked = <<>>
<1>1. /\ reader.file_ptr # Nothing /\ reader.peeked = <<>>
      /\ reader' = [reader EXCEPT !.offset = Begin(reader), !.pulled = Nothing]
  BY DEF Reset
<1>2. ReadsOn(reader)
  BY <1>1, ReaderReadsOn
<1>3. PICK l \in Nat : l = Len(FileOf(reader))
  BY <1>2 DEF ReadsOn
<1>4. PICK b \in 0 .. l : b = Begin(reader)
  BY <1>3 DEF Begin
<1>5. PICK r : r = [reader EXCEPT !.offset = b, !.pulled = Nothing]
  OBVIOUS
<1>6. /\ r \in ReaderType /\ r.file_ptr = reader.file_ptr /\ r.part = reader.part
      /\ r.Reverse = reader.Reverse /\ r.offset = b /\ r.peeked = reader.peeked
  <2>1. reader \in ReaderType /\ b \in Nat
    BY <1>2, <1>4 DEF ReadsOn
  <2> QED BY <1>5, <2>1 DEF ReaderType
<1>7. FileOf(r) = FileOf(reader)
  BY <1>6 DEF FileOf
<1>8. ReadsOn(r)
  BY <1>2, <1>3, <1>4, <1>6, <1>7 DEF ReadsOn
<1> QED BY <1>1, <1>4, <1>5, <1>8

(* Pull, Peek and Seek have a next element.                                *)
LEMMA PullableRest ==
    ASSUME FilesInv, CanPull
    PROVE  ReadsOn(reader) /\ Rest(reader) # <<>>
<1>1. reader.file_ptr # Nothing /\ (reader.peeked # <<>> \/ CanRead(reader))
  BY DEF CanPull
<1>2. ReadsOn(reader)
  BY <1>1, ReaderReadsOn
<1> QED BY <1>1, <1>2, RestIs

LEMMA SeekStep ==
    ASSUME FilesInv, NEW target \in Elements, Seek(target)
    PROVE  /\ ReadsOn(reader') /\ reader'.pulled = reader.pulled
           /\ LET rest == Rest(reader)
                  passed == {k \in 1 .. Len(rest) - 1 : \A j \in 1 .. k : rest[j] < target}
                  m == IF passed = {} THEN 0 ELSE CHOOSE k \in passed : \A j \in passed : j <= k
              IN  Rest(reader') = SubSeq(rest, m + 1, Len(rest))
<1>1. PICK n \in 0 .. MaxElements :
         /\ \A k \in 0 .. n - 1 : GoesOn(Advanced(Peeked(reader), k), target)
         /\ ~GoesOn(Advanced(Peeked(reader), n), target)
         /\ reader' = Advanced(Peeked(reader), n)
  BY DEF Seek
<1>2. n \in Nat
  BY <1>1
<1>3. ReadsOn(reader) /\ Rest(reader) # <<>>
  BY PullableRest DEF Seek
<1>4. PICK r : r = Peeked(reader)
  OBVIOUS
<1>5. ReadsOn(r) /\ Rest(r) = Rest(reader) /\ r.pulled = reader.pulled /\ Len(r.peeked) = 1
  BY <1>3, <1>4, PeekedIs
<1>6. /\ \A k \in 0 .. n - 1 : GoesOn(Advanced(r, k), target)
      /\ ~GoesOn(Advanced(r, n), target)
      /\ reader' = Advanced(r, n)
  BY <1>1, <1>4
<1>7. /\ ReadsOn(Advanced(r, n)) /\ Advanced(r, n).pulled = r.pulled
      /\ LET rest == Rest(r)
             passed == {k \in 1 .. Len(rest) - 1 : \A j \in 1 .. k : rest[j] < target}
             m == IF passed = {} THEN 0 ELSE CHOOSE k \in passed : \A j \in passed : j <= k
         IN  Rest(Advanced(r, n)) = SubSeq(rest, m + 1, Len(rest))
  BY <1>2, <1>5, <1>6, SeekIs
<1> QED BY <1>5, <1>6, <1>7

LEMMA ReaderNextKeeps ==
    ASSUME FilesInv, ReaderNext
    PROVE  FilesStep
<1>1. ASSUME NEW h \in Handles, NEW i \in Parts, NEW backwards \in BOOLEAN, OpenReader(h, i, backwards)
      PROVE  FilesStep
  BY <1>1, OpenReaderKeeps
<1>2. ASSUME CloseReader PROVE FilesStep
  BY <1>2, CloseReaderKeeps
<1>3. ASSUME Reset PROVE FilesStep
  BY <1>3, ResetReadsOn, ReadKeeps DEF Reset
<1>4. ASSUME Pull PROVE FilesStep
  BY <1>4, PullableRest, PulledIs, ReadKeeps DEF Pull
<1>5. ASSUME Peek PROVE FilesStep
  BY <1>5, PullableRest, PeekedIs, ReadKeeps DEF Peek
<1>6. ASSUME NEW target \in Elements, Seek(target) PROVE FilesStep
  BY <1>6, SeekStep, ReadKeeps DEF Seek
<1> QED BY <1>1, <1>2, <1>3, <1>4, <1>5, <1>6 DEF ReaderNext

LEMMA NextKeeps ==
    ASSUME FilesInv, [Next]_vars
    PROVE  FilesStep
<1>1. ASSUME HandleNext PROVE FilesStep
  BY <1>1, DropKeeps, CreateKeeps, TouchKeeps, ShareKeeps, CopyKeeps, SortKeeps DEF HandleNext
<1>2. ASSUME WriterNext PROVE FilesStep
  BY <1>2, OpenWriterKeeps, PushKeeps, CloseWriterKeeps DEF WriterNext
<1>3. ASSUME UNCHANGED vars PROVE FilesStep
  <2>1. StoreInv' /\ StoreStep /\ Orphans' = Orphans
    BY <1>3, StayStep DEF vars, FilesInv
  <2>2. UsersInv'
    <3>1. \A o \in DOMAIN object : Undisturbed(o)
      BY <1>3 DEF vars, Undisturbed, Exists
    <3> QED BY <1>3, <2>1, <3>1, UsersStay DEF vars
  <2>3. ReadIsUndisturbed
    BY <1>3 DEF vars, ReadIsUndisturbed, Undisturbed, Exists
  <2> QED BY <1>3, <2>1, <2>2, <2>3 DEF FilesStep, FilesInv, OrphansGrow, vars
<1> QED BY <1>1, <1>2, <1>3, PersistNextKeeps, ReaderNextKeeps DEF Next

LEMMA InitHolds ==
    ASSUME Init
    PROVE  FilesInv /\ Store!Init /\ Source!Init /\ Orphans = {} /\ failures = 0
<1> USE DEF Init
<1>1. DOMAIN disk = {} /\ DOMAIN object = {}
  OBVIOUS
<1>2. StoreTypeOK
  <2>1. IsDisk(disk)
    <3>1. IsFiniteSet({})
      BY FS_EmptySet
    <3> QED BY <1>1, <3>1 DEF IsDisk
  <2> QED BY <1>1, <2>1 DEF StoreTypeOK
<1>3. StoreInv
  BY <1>1, <1>2 DEF StoreInv, PathsAreNamed, PathsAreOwn, CanonicalIsMeant, TemporariesAreUsed,
                    PartsAreInStep, Exists
<1>4. ~writer.open /\ writer.file_ptr = Nothing
  BY DEF NoWriter
<1>5. reader.file_ptr = Nothing /\ reader.peeked = <<>> /\ reader.pulled = Nothing
  BY DEF NoReader
<1>6. UsersInv
  <2>1. UsersTypeOK
    BY NoStreams DEF UsersTypeOK
  <2>2. LivesWhileReferenced
    BY <1>1, <1>4, <1>5, NamesAssumption DEF LivesWhileReferenced, IsReferenced
  <2> QED BY <1>4, <1>5, <2>1, <2>2 DEF UsersInv, WriterIsAlone, ReaderIsInside
<1>7. Orphans = {}
  BY <1>1, OrphansAre
<1>8. KeptPrefixes = {}
  BY <1>1, <1>3, KeptIs, PathsAreTyped
<1>9. Store!Init
  BY <1>1, <1>8 DEF Store!Init, IsPersistent
<1>10. Source!Init
  <2>1. InDirection(reader) = <<>> /\ BeyondHead(reader) = <<>>
    BY <1>5 DEF InDirection, BeyondHead
  <2>2. <<>> \o <<>> = <<>>
    OBVIOUS
  <2> QED BY <1>5, <2>1, <2>2 DEF Source!Init
<1> QED BY <1>3, <1>6, <1>7, <1>9, <1>10 DEF FilesInv

-----------------------------------------------------------------------------
(* What the reader hands out                                               *)

CursorStep == [Source!Next]_(Source!vars)

(* The reader of `r` is a cursor over what it reads.                       *)
LEMMA CursorStays ==
    ASSUME InDirection(reader)' = InDirection(reader), UNCHANGED reader,
           BeyondHead(reader)' = BeyondHead(reader)
    PROVE  CursorStep
BY DEF CursorStep, Source!vars

(* The reader stays as it is, and so does the file it reads.               *)
LEMMA CursorUndisturbed ==
    ASSUME FilesInv, UNCHANGED reader,
           reader.file_ptr # Nothing => Undisturbed(reader.file_ptr)
    PROVE  CursorStep
<1>1. CASE reader.file_ptr = Nothing
  BY <1>1, CursorStays DEF InDirection, BeyondHead
<1>2. CASE reader.file_ptr # Nothing
  <2>1. PICK o \in DOMAIN object : o = reader.file_ptr
    BY <1>2, UsersAreInMemory
  <2>2. PICK i \in Parts : i = reader.part
    BY DEF FilesInv, UsersInv, UsersTypeOK
  <2>3. Exists(object[o].path[i])
    BY <1>2, <2>1, <2>2 DEF FilesInv, UsersInv, ReaderIsInside, StoreInv, PartsAreInStep
  <2>4. object'[o] = object[o] /\ disk'[object[o].path[i]] = disk[object[o].path[i]]
    BY <1>2, <2>1, <2>2, <2>3 DEF Undisturbed
  <2>5. FileOf(reader)' = FileOf(reader)
    BY <2>1, <2>2, <2>4 DEF FileOf
  <2> QED BY <2>5, CursorStays DEF InDirection, BeyondHead
<1> QED BY <1>1, <1>2

(* At its beginning, a stream has all of its file before it.               *)
LEMMA AllIsBeyondBegin ==
    ASSUME NEW r, r.file_ptr # Nothing, r.peeked = <<>>, FileOf(r) \in Seq(Elements),
           r.offset = Begin(r)
    PROVE  Rest(r) = InDirection(r)
<1>1. PICK F \in Seq(Elements) : F = FileOf(r)
  OBVIOUS
<1>2. SubSeq(F, 1, Len(F)) = F
  BY SubSeqFull
<1>3. 0 + 1 = 1
  OBVIOUS
<1>4. BeyondHead(r) = InDirection(r)
  BY <1>1, <1>2, <1>3 DEF BeyondHead, InDirection, Begin
<1>5. InDirection(r) \in Seq(Elements)
  <2>1. Reverse(F) \in Seq(Elements)
    BY ReversedIs
  <2> QED BY <1>1, <2>1 DEF InDirection
<1>6. <<>> \o InDirection(r) = InDirection(r)
  BY <1>5, ConcatEmptySeq
<1> QED BY <1>4, <1>6 DEF Rest

(* A step of the reader alone                                              *)
LEMMA ReaderMoves ==
    ASSUME FilesInv, UNCHANGED <<disk, object>>, NEW r, r = reader', ReadsOn(r)
    PROVE  /\ InDirection(reader)' = InDirection(reader) /\ Rest(reader)' = Rest(r)
           /\ InDirection(reader)' = InDirection(r)
<1>1. FileOf(reader)' = FileOf(r) /\ FileOf(r) = FileOf(reader)
  BY DEF FileOf, ReadsOn
<1>2. InDirection(reader)' = InDirection(r) /\ InDirection(r) = InDirection(reader)
  BY <1>1 DEF InDirection, ReadsOn
<1>3. BeyondHead(reader)' = BeyondHead(r)
  BY <1>1 DEF BeyondHead
<1> QED BY <1>2, <1>3 DEF Rest

LEMMA OpenReaderAttaches ==
    ASSUME FilesInv, NEW h \in Handles, NEW i \in Parts, NEW backwards \in BOOLEAN,
           OpenReader(h, i, backwards), FilesInv'
    PROVE  CursorStep
<1>1. PICK o \in DOMAIN object : o = handle[h]
  BY UsersAreInMemory DEF OpenReader
<1>2. PICK contents : contents = TouchedUnlessExists(o)
  OBVIOUS
<1>3. PICK r : r = [NoReader EXCEPT
                       !.file_ptr = o, !.part = i, !.Reverse = backwards,
                       !.offset = IF backwards THEN Len(contents[object[o].path[i]]) ELSE 0]
  OBVIOUS
<1>4. /\ reader' = r /\ failures' = failures /\ Collect(object, contents)
      /\ UNCHANGED <<handle, writer>>
  BY <1>1, <1>2, <1>3 DEF OpenReader
<1>5. /\ r.file_ptr = o /\ r.part = i /\ r.Reverse = backwards /\ r.peeked = <<>>
      /\ r.offset = IF backwards THEN Len(contents[object[o].path[i]]) ELSE 0
      /\ r.pulled = Nothing
  BY <1>3 DEF NoReader
<1>6. o # Nothing /\ o \in Objects
  BY ObjectIsFile DEF FilesInv, StoreInv
<1>7. Grows(contents) /\ object[o].path[i] \in DOMAIN contents
  <2>1. CASE FileExists(o)
    BY <1>2, <2>1, DiskGrows DEF TouchedUnlessExists, FilesInv, StoreInv, PartsAreInStep, Exists
  <2>2. CASE ~FileExists(o)
    BY <1>2, <2>2, TouchedIs DEF TouchedUnlessExists, FilesInv
  <2> QED BY <2>1, <2>2
<1>8. /\ object'[o] = object[o]
      /\ disk'[object[o].path[i]] = contents[object[o].path[i]]
      /\ disk'[object[o].path[i]] \in Seq(Elements)
  <2>1. /\ DOMAIN object' = {q \in DOMAIN object : IsReferenced(q)'}
        /\ object' = [q \in DOMAIN object' |-> object[q]]
        /\ disk' = [x \in DOMAIN disk' |-> contents[x]]
        /\ IsDisk(disk')
    BY <1>4, <1>7, CollectIs DEF FilesInv
  <2>2. o \in DOMAIN object'
    BY <1>4, <1>5, <2>1 DEF IsReferenced
  <2>3. object'[o] = object[o]
    BY <2>1, <2>2
  <2>4. object'[o].path[i] \in DOMAIN disk'
    <3>1. object'[o].path[LevelInfo] \in DOMAIN disk'
      BY <1>4, <1>5, <1>6 DEF FilesInv, UsersInv, ReaderIsInside, FileExists, Exists
    <3> QED BY <2>2, <3>1 DEF FilesInv, StoreInv, PartsAreInStep, FileExists, Exists
  <2> QED BY <2>1, <2>3, <2>4 DEF IsDisk
<1>9. FileOf(reader)' = contents[object[o].path[i]] /\ FileOf(reader)' \in Seq(Elements)
  BY <1>4, <1>5, <1>8 DEF FileOf
<1>10. reader'.offset = Begin(reader)'
  BY <1>4, <1>5, <1>9 DEF Begin
<1>11. /\ reader'.file_ptr # Nothing /\ reader'.peeked = <<>> /\ FileOf(reader)' \in Seq(Elements)
       /\ reader'.offset = Begin(reader)'
  BY <1>4, <1>5, <1>6, <1>9, <1>10
<1>12. PICK F \in Seq(Elements) : F = FileOf(reader)'
  BY <1>9
<1>13. /\ Begin(reader)' = IF backwards THEN Len(F) ELSE 0
       /\ BeyondHead(reader)' = IF backwards THEN Reverse(SubSeq(F, 1, r.offset))
                                ELSE SubSeq(F, r.offset + 1, Len(F))
       /\ InDirection(reader)' = IF backwards THEN Reverse(F) ELSE F
  BY <1>4, <1>5, <1>6, <1>12 DEF Begin, BeyondHead, InDirection
<1>14. BeyondHead(reader)' = InDirection(reader)' /\ InDirection(reader)' \in Seq(Elements)
  <2>1. SubSeq(F, 1, Len(F)) = F /\ 0 + 1 = 1
    BY SubSeqFull
  <2>2. Reverse(F) \in Seq(Elements)
    BY ReversedIs
  <2>3. r.offset = IF backwards THEN Len(F) ELSE 0
    BY <1>4, <1>11, <1>13
  <2> QED BY <1>13, <2>1, <2>2, <2>3
<1>15. reader'.peeked \o BeyondHead(reader)' = InDirection(reader)' /\ reader'.pulled = Nothing
  BY <1>4, <1>5, <1>14, ConcatEmptySeq
<1>16. Source!Attach
  BY <1>15 DEF Source!Attach
<1> QED BY <1>16 DEF CursorStep, Source!Next

LEMMA ReaderNextMoves ==
    ASSUME FilesInv, ReaderNext, FilesInv'
    PROVE  CursorStep
<1> USE DEF CursorStep, Source!Next
<1>1. ASSUME NEW h \in Handles, NEW i \in Parts, NEW backwards \in BOOLEAN, OpenReader(h, i, backwards)
      PROVE  CursorStep
  BY <1>1, OpenReaderAttaches
<1>2. ASSUME CloseReader PROVE CursorStep
  <2>1. reader' = NoReader
    BY <1>2 DEF CloseReader
  <2>2. NoReader.file_ptr = Nothing /\ NoReader.peeked = <<>> /\ NoReader.pulled = Nothing
    BY DEF NoReader
  <2>3. InDirection(reader)' = <<>> /\ BeyondHead(reader)' = <<>>
    BY <2>1, <2>2 DEF InDirection, BeyondHead
  <2>4. <<>> \o <<>> = <<>>
    OBVIOUS
  <2>5. Source!Attach
    BY <2>1, <2>2, <2>3, <2>4 DEF Source!Attach
  <2> QED BY <2>5
<1>3. ASSUME Reset PROVE CursorStep
  <2>1. PICK r : r = reader'
    OBVIOUS
  <2>2. /\ ReadsOn(r) /\ r = [reader EXCEPT !.offset = Begin(reader), !.pulled = Nothing]
        /\ reader.file_ptr # Nothing /\ reader.peeked = <<>> /\ UNCHANGED <<disk, object>>
    BY <1>3, <2>1, ResetReadsOn DEF Reset
  <2>3. ReadsOn(reader)
    BY <2>2, ReaderReadsOn
  <2>4. /\ r.file_ptr # Nothing /\ r.peeked = <<>> /\ r.offset = Begin(reader) /\ r.pulled = Nothing
        /\ r.file_ptr = reader.file_ptr /\ r.part = reader.part /\ r.Reverse = reader.Reverse
    BY <2>2, <2>3 DEF ReadsOn, ReaderType
  <2>5. FileOf(r) = FileOf(reader) /\ Begin(r) = Begin(reader) /\ FileOf(r) \in Seq(Elements)
    BY <2>2, <2>4 DEF FileOf, Begin, ReadsOn
  <2>6. Rest(r) = InDirection(r)
    BY <2>4, <2>5, AllIsBeyondBegin
  <2>7. Rest(reader)' = InDirection(reader)'
    BY <2>1, <2>2, <2>6, ReaderMoves
  <2>8. Source!Attach
    BY <2>1, <2>4, <2>7 DEF Source!Attach, Rest
  <2> QED BY <2>8
<1>4. ASSUME Pull PROVE CursorStep
  <2>1. PICK r : r = reader'
    OBVIOUS
  <2>2. r = Pulled(reader) /\ UNCHANGED <<disk, object>>
    BY <1>4, <2>1 DEF Pull
  <2>3. ReadsOn(reader) /\ Rest(reader) # <<>>
    BY <1>4, PullableRest DEF Pull
  <2>4. ReadsOn(r) /\ r.pulled = Head(Rest(reader)) /\ Rest(r) = Tail(Rest(reader))
    BY <2>2, <2>3, PulledIs
  <2>5. InDirection(reader)' = InDirection(reader) /\ Rest(reader)' = Rest(r)
    BY <2>1, <2>2, <2>4, ReaderMoves
  <2>6. Source!Pull
    BY <2>1, <2>3, <2>4, <2>5 DEF Source!Pull, Rest
  <2> QED BY <2>6
<1>5. ASSUME Peek PROVE CursorStep
  <2>1. PICK r : r = reader'
    OBVIOUS
  <2>2. r = Peeked(reader) /\ UNCHANGED <<disk, object>>
    BY <1>5, <2>1 DEF Peek
  <2>3. ReadsOn(reader) /\ Rest(reader) # <<>>
    BY <1>5, PullableRest DEF Peek
  <2>4. ReadsOn(r) /\ r.pulled = reader.pulled /\ Rest(r) = Rest(reader)
    BY <2>2, <2>3, PeekedIs
  <2>5. InDirection(reader)' = InDirection(reader) /\ Rest(reader)' = Rest(r)
    BY <2>1, <2>2, <2>4, ReaderMoves
  <2>6. UNCHANGED Source!vars
    BY <2>1, <2>4, <2>5 DEF Source!vars, Rest
  <2> QED BY <2>6
<1>6. ASSUME NEW target \in Elements, Seek(target) PROVE CursorStep
  <2>1. PICK r : r = reader'
    OBVIOUS
  <2>2. UNCHANGED <<disk, object>>
    BY <1>6 DEF Seek
  <2>3. ReadsOn(reader) /\ Rest(reader) # <<>>
    BY <1>6, PullableRest DEF Seek
  <2>4. /\ ReadsOn(r) /\ r.pulled = reader.pulled
        /\ LET rest == Rest(reader)
               passed == {k \in 1 .. Len(rest) - 1 : \A j \in 1 .. k : rest[j] < target}
               m == IF passed = {} THEN 0 ELSE CHOOSE k \in passed : \A j \in passed : j <= k
           IN  Rest(r) = SubSeq(rest, m + 1, Len(rest))
    BY <1>6, <2>1, SeekStep
  <2>5. InDirection(reader)' = InDirection(reader) /\ Rest(reader)' = Rest(r)
    BY <2>1, <2>2, <2>4, ReaderMoves
  <2>6. Source!Seek(target)
    BY <2>1, <2>3, <2>4, <2>5 DEF Source!Seek, Rest
  <2> QED BY <2>6
<1> QED BY <1>1, <1>2, <1>3, <1>4, <1>5, <1>6 DEF ReaderNext

LEMMA NextMoves ==
    ASSUME FilesInv, [Next]_vars
    PROVE  CursorStep
<1>1. FilesInv' /\ ReadIsUndisturbed
  BY NextKeeps DEF FilesStep
<1>2. CASE ReaderNext
  BY <1>1, <1>2, ReaderNextMoves
<1>3. CASE HandleNext \/ PersistNext \/ WriterNext \/ UNCHANGED vars
  <2>1. UNCHANGED reader
    BY <1>3 DEF HandleNext, Drop, Create, Touch, Share, Copy, Sort,
                PersistNext, MakePersistent, Reopen, Move, MoveFails, MakePersistentAt,
                WriterNext, OpenWriter, Push, CloseWriter, vars
  <2> QED BY <1>1, <2>1, CursorUndisturbed DEF ReadIsUndisturbed
<1> QED BY <1>2, <1>3 DEF Next

-----------------------------------------------------------------------------
(* The number of orphans                                                   *)

LEMMA OrphansAreFinite == ASSUME FilesInv PROVE IsFiniteSet(Orphans)
<1>1. Orphans \subseteq DOMAIN disk
  BY DEF Orphans
<1> QED BY <1>1, FS_Subset DEF FilesInv, StoreInv, StoreTypeOK, IsDisk

LEMMA LeakStep ==
    ASSUME FilesInv, NothingIsLeaked, FilesStep
    PROVE  NothingIsLeaked'
<1>1. PICK n \in Nat : n = Cardinality(Orphans) /\ IsFiniteSet(Orphans)
  BY OrphansAreFinite, FS_CardinalityType
<1>2. PICK f \in Nat : f = failures
  BY DEF FilesInv, StoreInv, StoreTypeOK
<1>3. n <= f
  BY <1>1, <1>2 DEF NothingIsLeaked
<1>4. CASE Orphans' \subseteq Orphans /\ failures' = failures
  <2>1. PICK k \in Nat : k = Cardinality(Orphans') /\ k <= n
    BY <1>1, <1>4, FS_Subset, FS_CardinalityType
  <2> QED BY <1>2, <1>3, <1>4, <2>1 DEF NothingIsLeaked
<1>5. CASE (\E x : Orphans' \subseteq Orphans \cup {x}) /\ failures' = failures + 1
  <2>1. PICK x : Orphans' \subseteq Orphans \cup {x}
    BY <1>5
  <2>2. PICK m \in Nat : /\ m = Cardinality(Orphans \cup {x}) /\ m <= n + 1
                         /\ IsFiniteSet(Orphans \cup {x})
    <3>1. /\ IsFiniteSet(Orphans \cup {x})
          /\ Cardinality(Orphans \cup {x}) = IF x \in Orphans THEN n ELSE n + 1
      BY <1>1, FS_AddElement
    <3> QED BY <3>1
  <2>3. PICK k \in Nat : k = Cardinality(Orphans') /\ k <= m
    BY <2>1, <2>2, FS_Subset, FS_CardinalityType
  <2>4. k <= f + 1
    BY <1>3, <2>2, <2>3
  <2> QED BY <1>2, <1>5, <2>3, <2>4 DEF NothingIsLeaked
<1> QED BY <1>4, <1>5 DEF FilesStep, OrphansGrow

-----------------------------------------------------------------------------
(* The invariant holds in every behaviour.                                 *)
THEOREM FilesInvariant == Spec => []FilesInv
<1>1. Init => FilesInv
  BY InitHolds
<1>2. FilesInv /\ [Next]_vars => FilesInv'
  BY NextKeeps DEF FilesStep
<1> QED BY <1>1, <1>2, PTL DEF Spec

(* The parts of a diagram are persistent together and exist together,      *)
(* after a move that fails half-way too, for any number of files in a      *)
(* diagram.                                                                *)
THEOREM PartsStayInStep == Spec => []PartsAreInStep
<1>1. FilesInv => PartsAreInStep
  BY DEF FilesInv, StoreInv
<1> QED BY <1>1, FilesInvariant, PTL

(* However handles and streams are shared and dropped, no file is on disk  *)
(* that nobody can reach, but for one copy for each move that failed.      *)
THEOREM LeaksNothing == Spec => []NothingIsLeaked
<1>1. Init => NothingIsLeaked
  BY InitHolds, FS_EmptySet DEF NothingIsLeaked
<1>2. FilesInv /\ NothingIsLeaked /\ [Next]_vars => NothingIsLeaked'
  BY NextKeeps, LeakStep
<1> QED BY <1>1, <1>2, FilesInvariant, PTL DEF Spec

(* The files of diagrams keep what they promise: the content of a diagram  *)
(* lasts as long as somebody uses it, changes only when it is written or   *)
(* sorted, and outlives every user, unchanged, once it has a name.         *)
THEOREM FilesImplementStore == Spec => ImplementsStore
<1>1. Init => Store!Init
  BY InitHolds
<1>2. FilesInv /\ [Next]_vars => [Store!Next]_(Store!vars)
  BY NextKeeps DEF FilesStep, StoreStep
<1> QED BY <1>1, <1>2, FilesInvariant, PTL DEF Spec, ImplementsStore, Store!Spec

(* Whatever else happens to the files, and however looking, pulling and    *)
(* seeking are mixed, a reader hands out its file in the direction of      *)
(* reading.                                                                *)
THEOREM ReaderImplementsCursor == Spec => ImplementsCursor
<1>1. Init => Source!Init
  BY InitHolds
<1>2. FilesInv /\ [Next]_vars => [Source!Next]_(Source!vars)
  BY NextMoves DEF CursorStep
<1> QED BY <1>1, <1>2, FilesInvariant, PTL DEF Spec, ImplementsCursor, Source!Spec
=============================================================================
