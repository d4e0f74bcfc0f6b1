----------------------------- MODULE NodeWriter -----------------------------
(***************************************************************************)
(* A client of node_ofstream (io/node_ofstream.h): it attaches a writer to *)
(* a new file, in either way the class offers, pushes a terminal or nodes  *)
(* bottom-up with push(), and closes it.                                   *)
(***************************************************************************)
EXTENDS NodeFile

CONSTANT
    Clients     \* Clients: how they attach the writer, and the bounds on the
                \* nodes they push to each level and on the identifiers they
                \* skip from one node to the next

ASSUME ClientsAssumption ==
    \A c \in Clients :
        /\ c.zdd \in BOOLEAN /\ c.attach \in {"constructor", "open"}
        /\ c.width \in [Level -> Nat] /\ c.gap \in Nat

VARIABLES
    client,     \* The client
    attached,   \* Whether it has attached the writer
    w           \* The writer, with the file it is or was attached to

vars == <<zdd, client, attached, w>>

Init ==
    /\ client \in Clients /\ zdd = client.zdd
    /\ attached = FALSE
    /\ w = [Opened(EmptyFile) EXCEPT !.open = FALSE]

Attach ==
    /\ ~attached
    /\ attached' = TRUE
    /\ \/ client.attach = "constructor" /\ w' = Constructed(EmptyFile)
       \/ client.attach = "open" /\ w' = Opened(EmptyFile)

PushTerminal(v) ==
    /\ w.open /\ w.latest = Dummy
    /\ w' = Push(w, TerminalNode(v))
    /\ UNCHANGED attached

(* A client keeps to the order the writer is documented for: nodes come    *)
(* with falling uids, children first.                                      *)
Children(l) ==
    {Terminal(v) : v \in BOOLEAN} \cup
        {n.uid : n \in {m \in InnerNodes(w.file) : LevelOf(m.uid) > l}}

MayPush(l, i) ==
    IF w.latest = Dummy \/ LevelOf(w.latest.uid) > l
    THEN MaxId - i <= client.gap
    ELSE /\ LevelOf(w.latest.uid) = l
         /\ i < IdOf(w.latest.uid) /\ IdOf(w.latest.uid) - 1 - i <= client.gap

PushNode(l, i) ==
    /\ w.open /\ ~IsTerminal(w.latest.uid)
    /\ Cardinality(OnLevel(InnerNodes(w.file), l)) < client.width[l]
    /\ MayPush(l, i)
    /\ \E low, high \in Children(l) : w' = Push(w, Node(Uid(l, i), low, high))
    /\ UNCHANGED attached

Close ==
    /\ w.open
    /\ w' = Closed(w)
    /\ UNCHANGED attached

Next ==
    /\ UNCHANGED <<zdd, client>>
    /\ \/ Attach
       \/ \E v \in BOOLEAN : PushTerminal(v)
       \/ \E l \in Level, i \in 0 .. MaxId : PushNode(l, i)
       \/ Close

Spec == Init /\ [][Next]_vars

----------------------------------------------------------------------------
TypeOK ==
    /\ client \in Clients /\ attached \in BOOLEAN
    /\ w.open \in BOOLEAN
    /\ \A n \in InnerNodes(w.file) : \A p \in Targets(n) : IsNode(p) \/ IsTerminal(p)
    /\ \A k \in CutKinds : w.file.cut1[k] \in Nat /\ w.file.cut2[k] \in Nat
    /\ w.file.terminals \in [BOOLEAN -> Nat]
    /\ w.curShort \in Nat /\ w.long \in Nat /\ w.levelSize \in Nat

Complete == attached /\ ~w.open
OneRoot == Cardinality(Roots(InnerNodes(w.file))) = 1

(* However the nodes of a diagram with one root are pushed, the 1-level    *)
(* and 2-level cuts the closed file claims, of each kind, are at least the *)
(* true ones: algorithms size their priority queues by them.               *)
CutsAreSound == Complete /\ OneRoot => CutsAreBounds(w.file)

(* A closed file has the true number of arcs to each terminal, and one     *)
(* level_info per level with its true width, deepest level first; equality *)
(* tests compare these counts first (pred.cpp, is_isomorphic).             *)
CountsAreRight == Complete => CountsAreExact(w.file)

(* If the writer leaves both canonicity flags set on a reduced diagram,    *)
(* its nodes are those of the one canonical file of its function, so that  *)
(* comparing two such files node by node decides equality of functions.    *)
(* Conversely, a writer attached by its constructor recognises every file  *)
(* that is canonical: the flags are only lost for a reason.                *)
CanonicalFlagsAreRight ==
    /\ Complete => FlagsMeanCanonical(w.file)
    /\ (Complete /\ client.attach = "constructor" /\ OneRoot) =>
        LET inner == InnerNodes(w.file)
        IN  inner = CanonicalNodes(Denotes(inner, (CHOOSE n \in Roots(inner) : TRUE).uid))
                => w.file.sorted /\ w.file.indexable
=============================================================================
