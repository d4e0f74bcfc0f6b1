------------------------------- MODULE Files -------------------------------
(***************************************************************************)
(* The files of a diagram on disk (src/src/adiar/internal/io/file.h and    *)
(* levelized_file.h), the references that keep them (shared_file_ptr.h,    *)
(* the handles of dd.h) and the streams that read and write them           *)
(* (ifstream.h, ofstream.h, levelized_ifstream.h, levelized_ofstream.h).   *)
(*                                                                         *)
(* A levelized file is FILES files of elements and one of level            *)
(* information: part FILES, as in `paths()`.  The disk maps each path that *)
(* exists to the elements written there.  tpie::temp_file is outside the   *)
(* repository: it names a path of its own, and removes what is at its path *)
(* when it is destructed, unless it is persistent.                         *)
(*                                                                         *)
(* Adiar runs in one thread, so each operation is one step, and so is the  *)
(* exception that ends one half-way.                                       *)
(***************************************************************************)
EXTENDS Naturals, Sequences, SequencesExt, FiniteSets

CONSTANTS FILES,            \* number of files with elements
          Objects,          \* identities of levelized files in memory
          Handles,          \* variables of the user that hold a diagram
          PathPrefixes,         \* path prefixes given to move
          Elements,         \* what is stored, compared with <; a file has each once
          Nothing,          \* no object, no answer
          MaxElements,      \* bound: elements on disk when one more is written
          MaxFailures       \* bound: moves that fail

ASSUME FilesAssumption == FILES \in Nat \ {0} /\ Elements \subseteq Nat

(* A temporary file's path is not one a caller names *)
ASSUME NamesAssumption == Objects \cap PathPrefixes = {} /\ Nothing \notin Objects

VARIABLES disk, object, handle, writer, reader, failures

vars == <<disk, object, handle, writer, reader, failures>>

LevelInfo == FILES
Parts     == 0..FILES

Canonical(prefix, i) == <<prefix, i>>
TemporaryPath(o, i)  == <<o, i>>

Exists(path) == path \in DOMAIN disk

(* levelized_file::exists asks for the level information only *)
FileExists(o) == Exists(object[o].path[LevelInfo])

IsPersistent(o) == object[o].persistent[LevelInfo]

NoWriter == [file_ptr |-> Nothing, open |-> FALSE]
NoReader == [file_ptr |-> Nothing, part |-> 0, Reverse |-> FALSE,
             offset |-> 0, peeked |-> <<>>, pulled |-> Nothing]

(* Handles and streams share the ownership of the file *)
IsReferenced(o) ==
    \/ \E h \in Handles : handle[h] = o
    \/ writer.file_ptr = o
    \/ reader.file_ptr = o

IsAttached(o) == (writer.open /\ writer.file_ptr = o) \/ reader.file_ptr = o

(* A persistent file stays on disk when its object is destructed *)
Removed(file, i) == ~file.persistent[i]

(* The last reference was dropped: the object and its temporary files go.  *)
(* `files` and `contents` are the objects and the disk before that.        *)
Collect(files, contents) ==
    LET dead == {o \in DOMAIN files : ~IsReferenced(o)'}
    IN  /\ object' = Restrict(files, DOMAIN files \ dead)
        /\ disk' = Restrict(contents, DOMAIN contents \
               UNION {{files[o].path[i] : i \in {j \in Parts : Removed(files[o], j)}} :
                          o \in dead})

(* A map that grows by what it does not have yet *)
Extended(f, g) ==
    [x \in DOMAIN f \cup DOMAIN g |-> IF x \in DOMAIN f THEN f[x] ELSE g[x]]

With(f, x, y) == Extended(f, [z \in {x} |-> y])

(* touch: the parts that are not on disk yet are created empty *)
Touched(contents, file) ==
    Extended(contents, [path \in {file.path[i] : i \in Parts} |-> <<>>])

TouchedUnlessExists(o) ==
    IF FileExists(o) THEN disk ELSE Touched(disk, object[o])

Temporary(o) ==
    [path |-> [i \in Parts |-> TemporaryPath(o, i)],
     persistent |-> [i \in Parts |-> FALSE], canonical_paths |-> FALSE]

PersistedFiles(prefix) ==                                                 \* (mutant)
    [path |-> [i \in Parts |-> Canonical(prefix, i)],
     persistent |-> [i \in Parts |-> i /= LevelInfo], canonical_paths |-> TRUE]

Persisted(prefix) ==
    [path |-> [i \in Parts |-> Canonical(prefix, i)],
     persistent |-> [i \in Parts |-> TRUE], canonical_paths |-> TRUE]

Init ==
    /\ disk = <<>> /\ object = <<>>
    /\ handle = [h \in Handles |-> Nothing]
    /\ writer = NoWriter /\ reader = NoReader
    /\ failures = 0

-----------------------------------------------------------------------------
(* Handles.  An assignment first drops what the handle held (deref).       *)

Drop(h) ==
    /\ handle[h] /= Nothing
    /\ handle' = [handle EXCEPT ![h] = Nothing]
    /\ UNCHANGED <<writer, reader, failures>>
    /\ Collect(object, disk)

(* A fresh temporary file: nothing of it is on disk yet *)
Create(h) ==
    /\ handle[h] = Nothing
    /\ \E o \in Objects \ DOMAIN object :
        /\ handle' = [handle EXCEPT ![h] = o]
        /\ object' = With(object, o, Temporary(o))
    /\ UNCHANGED <<disk, writer, reader, failures>>

Share(h, g) ==
    /\ handle[g] /= Nothing /\ handle[h] /= handle[g]
    /\ handle' = [handle EXCEPT ![h] = handle[g]]
    /\ UNCHANGED <<writer, reader, failures>>
    /\ Collect(object, disk)

(* copy: each part that exists is copied into a temporary file *)
Copy(h, g) ==
    /\ handle[h] = Nothing /\ handle[g] /= Nothing
    /\ \E o \in Objects \ DOMAIN object :
        LET source == object[handle[g]].path
            there  == {i \in Parts : Exists(source[i])}
        IN  /\ handle' = [handle EXCEPT ![h] = o]
            /\ object' = With(object, o, Temporary(o))
            /\ disk' = Extended(disk, [path \in {TemporaryPath(o, i) : i \in there} |->
                                           disk[source[path[2]]]])
    /\ UNCHANGED <<writer, reader, failures>>

(* A persisted file, by its prefix.  The constructor throws unless all of  *)
(* its parts exist; the caller names a file that was persisted, not one    *)
(* that is still temporary elsewhere.                                      *)
Claimed ==
    UNION {{object[o].path[i] : i \in {j \in Parts : ~object[o].persistent[j]}} :
               o \in DOMAIN object}

IsPersisted(prefix) ==
    \A i \in Parts : Exists(Canonical(prefix, i)) /\ Canonical(prefix, i) \notin Claimed

Reopen(h, prefix) ==
    /\ handle[h] = Nothing
    /\ IsPersisted(prefix)
    /\ \E o \in Objects \ DOMAIN object :
        /\ handle' = [handle EXCEPT ![h] = o]
        /\ object' = With(object, o, Persisted(prefix))
    /\ UNCHANGED <<disk, writer, reader, failures>>

Touch(h) ==
    /\ handle[h] /= Nothing /\ ~FileExists(handle[h])
    /\ disk' = TouchedUnlessExists(handle[h])
    /\ UNCHANGED <<object, handle, writer, reader, failures>>

(* What sorting a file may leave: its elements in ascending order *)
Sortings(s) ==
    {t \in {[i \in DOMAIN s |-> s[p[i]]] : p \in Bijection(DOMAIN s, DOMAIN s)} :
        \A i, j \in DOMAIN t : i < j => t[i] <= t[j]}

(* sort throws on a persistent file; no stream is attached *)
Sort(h, i) ==
    /\ handle[h] /= Nothing /\ ~IsPersistent(handle[h]) /\ ~IsAttached(handle[h])
    /\ LET path == object[handle[h]].path[i]
       IN  /\ Exists(path) /\ disk[path] /= <<>>
           /\ \E sorted \in Sortings(disk[path]) : disk' = [disk EXCEPT ![path] = sorted]
    /\ UNCHANGED <<object, handle, writer, reader, failures>>

-----------------------------------------------------------------------------
(* Moving and persisting                                                   *)

(* The order in which move takes the parts: level information comes first  *)
MoveOrder == <<LevelInfo>> \o [i \in 1..FILES |-> i - 1]

(* The disk and the object once the parts `moved` are at `prefix`; set_path *)
(* leaves the disk alone, so a part that does not exist only changes path.  *)
MovedFile(file, prefix, moved) ==
    [file EXCEPT !.path = [i \in Parts |-> IF i \in moved THEN Canonical(prefix, i)
                                           ELSE file.path[i]]]

CopiedDisk(file, prefix, moved) ==                                        \* (mutant)
    Extended(disk, [path \in {Canonical(prefix, i) : i \in {j \in moved : Exists(file.path[j])}} |->
                       disk[file.path[path[2]]]])

MovedDisk(file, prefix, moved) ==
    LET from == {i \in moved : Exists(file.path[i])}
    IN  Extended(Restrict(disk, DOMAIN disk \ {file.path[i] : i \in from}),
                 [path \in {Canonical(prefix, i) : i \in from} |-> disk[file.path[path[2]]]])

(* The checks of move, and its precondition that no stream is attached.    *)
(* A path another object already goes by counts as taken, although only    *)
(* the disk is asked.                                                      *)
CanMoveTo(o, prefix) ==
    /\ ~IsPersistent(o)
    /\ \A i \in Parts : ~Exists(Canonical(prefix, i))
    /\ ~IsAttached(o)
    /\ \A q \in DOMAIN object \ {o}, i, j \in Parts :
           object[q].path[i] /= Canonical(prefix, j)

AllMoved(o, prefix) ==
    [MovedFile(object[o], prefix, Parts) EXCEPT !.canonical_paths = TRUE]

Move(h, prefix) ==
    LET o == handle[h]
    IN  /\ o /= Nothing /\ CanMoveTo(o, prefix)
        /\ object' = [object EXCEPT ![o] = AllMoved(o, prefix)]
        /\ disk' = MovedDisk(object[o], prefix, Parts)
        /\ UNCHANGED <<handle, writer, reader, failures>>

FailedMoveIsCanonical(file) == [file EXCEPT !.canonical_paths = TRUE]     \* (mutant)

(* Neither renaming nor copying one of the parts works: those before it    *)
(* have moved, and the exception leaves canonical_paths as it was.  When   *)
(* only removing the copied part fails, its copy stays behind.  Failures   *)
(* are those of the first move of an object.                               *)
FailedMove(file) == file

MoveFails(h, prefix) ==
    LET o == handle[h]
    IN  /\ o /= Nothing /\ CanMoveTo(o, prefix)
        /\ ~object[o].canonical_paths
        /\ failures < MaxFailures /\ failures' = failures + 1
        /\ \E n \in 0..FILES, copied \in BOOLEAN :
            LET moved == {MoveOrder[k] : k \in 1..n}
                part  == MoveOrder[n + 1]
                path  == object[o].path[part]
            IN  /\ Exists(path)
                /\ object' = [object EXCEPT ![o] =
                                  FailedMove(MovedFile(@, prefix, moved))]
                /\ disk' = IF copied
                           THEN With(MovedDisk(object[o], prefix, moved),
                                     Canonical(prefix, part), disk[path])
                           ELSE MovedDisk(object[o], prefix, moved)
        /\ UNCHANGED <<handle, writer, reader>>

(* make_persistent without a path throws unless the paths are canonical.   *)
(* Nobody writes any longer.                                               *)
MadePersistent(file) == [file EXCEPT !.persistent = [i \in Parts |-> TRUE]]

MakePersistent(h) ==
    LET o == handle[h]
    IN  /\ o /= Nothing /\ object[o].canonical_paths /\ ~IsAttached(o)
        /\ object' = [object EXCEPT ![o] = MadePersistent(@)]
        /\ disk' = Touched(disk, object[o])
        /\ UNCHANGED <<handle, writer, reader, failures>>

(* make_persistent with a path moves first *)
MakePersistentAt(h, prefix) ==
    LET o == handle[h]
    IN  /\ o /= Nothing /\ CanMoveTo(o, prefix)
        /\ object' = [object EXCEPT ![o] = MadePersistent(AllMoved(o, prefix))]
        /\ disk' = Touched(MovedDisk(object[o], prefix, Parts), AllMoved(o, prefix))
        /\ UNCHANGED <<handle, writer, reader, failures>>

-----------------------------------------------------------------------------
ElementsOnDisk == FoldSet(LAMBDA path, n : n + Len(disk[path]), 0, DOMAIN disk)

(* Writing.  An open writer first closes what it is attached to.  It then  *)
(* takes its reference; attaching to a persistent file throws after that.  *)

OpenWriter(h) ==
    LET o == handle[h]
    IN  /\ o /= Nothing
        /\ ~IsAttached(o)
        /\ writer' = [file_ptr |-> o, open |-> ~IsPersistent(o)]
        /\ UNCHANGED <<handle, reader, failures>>
        /\ Collect(object, IF IsPersistent(o) THEN disk ELSE Touched(disk, object[o]))

Push(i, e) ==
    /\ writer.open
    /\ ElementsOnDisk < MaxElements
    /\ LET path == object[writer.file_ptr].path[i]
       IN  /\ e \notin ToSet(disk[path])
           /\ disk' = [disk EXCEPT ![path] = Append(@, e)]
    /\ UNCHANGED <<object, handle, writer, reader, failures>>

CloseWriter ==
    /\ writer /= NoWriter
    /\ writer' = NoWriter
    /\ UNCHANGED <<handle, reader, failures>>
    /\ Collect(object, disk)

-----------------------------------------------------------------------------
(* Reading a part, forwards or backwards.  A stream is only reset or       *)
(* attached anew when no looked-at element is pending, as in all of Adiar. *)

FileOf(r)  == disk[object[r.file_ptr].path[r.part]]
Begin(r)   == IF r.Reverse THEN Len(FileOf(r)) ELSE 0
CanRead(r) == IF r.Reverse THEN r.offset > 0 ELSE r.offset < Len(FileOf(r))

Step(r)    == [r EXCEPT !.offset = IF r.Reverse THEN @ - 1 ELSE @ + 1]
Element(r) == FileOf(r)[IF r.Reverse THEN r.offset ELSE r.offset + 1]

Answer(r, e) == [r EXCEPT !.pulled = e]

OpenReader(h, i, backwards) ==
    LET o == handle[h]
        contents == TouchedUnlessExists(o)
    IN  /\ o /= Nothing
        /\ ~(writer.open /\ writer.file_ptr = o)
        /\ reader.peeked = <<>>
        /\ reader' = [NoReader EXCEPT
                         !.file_ptr = o, !.part = i, !.Reverse = backwards,
                         !.offset = IF backwards THEN Len(contents[object[o].path[i]]) ELSE 0]
        /\ UNCHANGED <<handle, writer, failures>>
        /\ Collect(object, contents)

CloseReader ==
    /\ reader /= NoReader
    /\ reader' = NoReader
    /\ UNCHANGED <<handle, writer, failures>>
    /\ Collect(object, disk)

Reset ==
    /\ reader.file_ptr /= Nothing
    /\ reader.peeked = <<>>
    /\ reader' = [reader EXCEPT !.offset = Begin(reader), !.pulled = Nothing]
    /\ UNCHANGED <<disk, object, handle, writer, failures>>

CanPull == reader.file_ptr /= Nothing /\ (reader.peeked /= <<>> \/ CanRead(reader))

Peeked(r) ==
    IF r.peeked = <<>> THEN [Step(r) EXCEPT !.peeked = <<Element(r)>>] ELSE r

PulledTwice(r) ==                                                         \* (mutant)
    IF r.peeked = <<>> THEN Answer(Step(r), Element(r)) ELSE Answer(r, Head(r.peeked))

Pulled(r) ==
    IF r.peeked = <<>> THEN Answer(Step(r), Element(r))
    ELSE Answer([r EXCEPT !.peeked = <<>>], Head(r.peeked))

Pull ==
    /\ CanPull
    /\ reader' = Pulled(reader)
    /\ UNCHANGED <<disk, object, handle, writer, failures>>

Peek ==
    /\ CanPull
    /\ reader' = Peeked(reader)
    /\ UNCHANGED <<disk, object, handle, writer, failures>>

(* seek looks at the next element, and replaces it by the one after it     *)
(* while it is below the target and there is more to read.                 *)
Advanced(r, n) ==
    LET last == [r EXCEPT !.offset = IF r.Reverse THEN @ - n + 1 ELSE @ + n - 1]
    IN  IF n = 0 THEN r ELSE [Step(last) EXCEPT !.peeked = <<Element(last)>>]

GoesOn(r, target) == Head(r.peeked) < target /\ CanRead(r)

Seek(target) ==
    /\ CanPull
    /\ \E n \in 0..MaxElements :
        LET found == Advanced(Peeked(reader), n)
        IN  /\ \A k \in 0..n - 1 : GoesOn(Advanced(Peeked(reader), k), target)
            /\ ~GoesOn(found, target)
            /\ reader' = found
    /\ UNCHANGED <<disk, object, handle, writer, failures>>

-----------------------------------------------------------------------------
HandleNext ==
    \E h \in Handles :
        \/ Drop(h) \/ Create(h) \/ Touch(h)
        \/ \E g \in Handles : Share(h, g) \/ Copy(h, g)
        \/ \E i \in Parts : Sort(h, i)

PersistNext ==
    \E h \in Handles :
        \/ MakePersistent(h)
        \/ \E p \in PathPrefixes :
              Reopen(h, p) \/ Move(h, p) \/ MoveFails(h, p) \/ MakePersistentAt(h, p)

WriterNext ==
    \/ \E h \in Handles : OpenWriter(h)
    \/ \E i \in Parts, e \in Elements : Push(i, e)
    \/ CloseWriter

ReaderNext ==
    \/ \E h \in Handles, i \in Parts, backwards \in BOOLEAN : OpenReader(h, i, backwards)
    \/ CloseReader \/ Reset \/ Peek \/ Pull
    \/ \E target \in Elements : Seek(target)

Next == HandleNext \/ PersistNext \/ WriterNext \/ ReaderNext

Spec == Init /\ [][Next]_vars

-----------------------------------------------------------------------------
(* A diagram's content is what is on disk at its paths, wherever they are: *)
(* failed moves, dropped handles and other diagrams leave it alone as long *)
(* as a handle or a stream needs it, and what was made persistent can be   *)
(* opened by its prefix for ever after, with the content it had.           *)
ContentOf(path) == IF Exists(path) THEN disk[path] ELSE <<>>

ContentsOf(paths) == [i \in Parts |-> ContentOf(paths[i])]

KeptPrefixes == {p \in PathPrefixes : IsPersisted(p)}

Store == INSTANCE DiagramStore WITH
    content <- [o \in DOMAIN object |-> ContentsOf(object[o].path)],
    name    <- [o \in {q \in DOMAIN object : IsPersistent(q)} |-> object[o].path[LevelInfo][1]],
    kept    <- [p \in KeptPrefixes |-> [i \in Parts |-> disk[Canonical(p, i)]]]

ImplementsStore == Store!Spec

(* A reader hands out what the file holds, in the direction of reading,    *)
(* however looking, pulling and seeking are mixed: the pending element     *)
(* comes first, and then what is beyond the read head.                     *)
InDirection(r) ==
    IF r.file_ptr = Nothing THEN <<>>
    ELSE IF r.Reverse THEN Reverse(FileOf(r)) ELSE FileOf(r)

BeyondHead(r) ==
    IF r.file_ptr = Nothing THEN <<>>
    ELSE IF r.Reverse THEN Reverse(SubSeq(FileOf(r), 1, r.offset))
         ELSE SubSeq(FileOf(r), r.offset + 1, Len(FileOf(r)))

Source == INSTANCE Cursor WITH
    source <- InDirection(reader), rest <- reader.peeked \o BeyondHead(reader),
    last <- reader.pulled

ImplementsCursor == Source!Spec

(* Every file on disk belongs to an object in memory or to a persisted     *)
(* diagram, but for the copies whose originals could not be removed, one   *)
(* for each failed move: dropping the last reference leaves nothing.       *)
Orphans ==
    DOMAIN disk \ ((UNION {{object[o].path[i] : i \in Parts} : o \in DOMAIN object})
                       \cup (KeptPrefixes \X Parts))

NothingIsLeaked == Cardinality(Orphans) <= failures

(* The parts of a diagram are persistent together and exist together,      *)
(* after every failure too: `is_persistent`, `exists` and `can_move` ask   *)
(* one of them for all.                                                    *)
PartsAreInStep ==
    \A o \in DOMAIN object, i \in Parts :
        /\ object[o].persistent[i] = IsPersistent(o)
        /\ Exists(object[o].path[i]) = FileExists(o)

-----------------------------------------------------------------------------
(* For model checking: a reader is open while no writer is, and before a   *)
(* move has failed.                                                        *)
ReadsUndisturbed == reader = NoReader \/ (writer = NoWriter /\ failures = 0)

Symmetry == Permutations(Objects) \cup Permutations(PathPrefixes) \cup Permutations(Handles)
=============================================================================
