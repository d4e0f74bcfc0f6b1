------------------------------ MODULE Builder ------------------------------
(***************************************************************************)
(* Manual construction of a diagram (builder.h): a client adds nodes       *)
(* bottom-up, gets a builder_ptr for each and uses them as children of     *)
(* later ones, then builds.  A builder goes through phases, each with a    *)
(* file and a builder_shared object of its own; pointers of a phase must   *)
(* not be used in another.                                                 *)
(*                                                                         *)
(* A pointer is its uid and the phase whose shared object it refers to.    *)
(* All copies of the pointer to one node share one 'unreferenced' cell, so *)
(* the cells are the set of pointers whose cell is true.                   *)
(***************************************************************************)
EXTENDS NodeFile

CONSTANTS
    MaxNodes,   \* Bound on the nodes pushed, over all phases, by kind
    MaxPhases   \* Bound on the phases, by kind

(* Identifiers do not run out on a level: the code has 2^41 of them.       *)
ASSUME BoundsAssumption ==
    MaxNodes \in [BOOLEAN -> 1 .. MaxId] /\ MaxPhases \in [BOOLEAN -> Nat]

VARIABLES
    b,          \* The members of the builder
    ptrs,       \* The pointers the client was given
    cells,      \* Those of them that are to an as yet unreferenced node
    call,       \* The latest call with its outcome, for the properties
    built       \* The file of the diagram built last, if any

vars == <<zdd, b, ptrs, cells, call, built>>

Unattached == [Opened(EmptyFile) EXCEPT !.open = FALSE]
NoCall == [op |-> "none", outcome |-> "ok"]
Ptr(u, phase) == [uid |-> u, phase |-> phase]

Init ==
    /\ zdd \in BOOLEAN
    /\ b = [nf |-> FALSE, nw |-> Unattached, label |-> 0,
            id |-> 0, unref |-> 0, created |-> FALSE, value |-> FALSE, phase |-> 0]
    /\ ptrs = {} /\ cells = {}
    /\ call = NoCall
    /\ built = {}

(* attach_if_needed()                                                      *)
Attached ==
    IF b.nf THEN b
    ELSE [nf |-> TRUE, nw |-> Opened(EmptyFile), label |-> Levels - 1, id |-> MaxId,
          unref |-> 0, created |-> FALSE, value |-> FALSE, phase |-> b.phase + 1]

(* close(): the file lives on only in the diagram that was built from it.  *)
Detached(x) == [x EXCEPT !.nw = Unattached, !.nf = FALSE]

Return(op, outcome) == call' = [op |-> op, outcome |-> outcome]

----------------------------------------------------------------------------
(* The arguments a client may pass: a pointer it holds, or a truth value,  *)
(* which the overloads of add_node turn into a pointer of this phase.      *)
Arguments == ptrs \cup {Ptr(Terminal(v), Attached.phase) : v \in BOOLEAN}

PhaseMatches(p) == p.phase = Attached.phase

IsLegal(label, low, high) ==
    /\ PhaseMatches(low) /\ PhaseMatches(high)
    /\ label < Levels /\ label <= Attached.label
    /\ \A p \in {low.uid, high.uid} : IsNode(p) => LevelOf(p) > label

(* The label and identifier are set for the node before it is known to be  *)
(* redundant; the terminal it reduces to is remembered.                    *)
Moved(label) ==
    IF label < Attached.label THEN [Attached EXCEPT !.label = label, !.id = MaxId] ELSE Attached

Noted(x, p) ==
    IF IsTerminal(p) THEN [x EXCEPT !.created = TRUE, !.value = Value(p)] ELSE x

FirstReferencesOfLow(low, high) == {low} \cap cells         \* (mutant)
FirstReferences(low, high) == {low, high} \cap cells

Reject(label, low, high) ==
    /\ ~IsLegal(label, low, high)
    /\ b' = Attached
    /\ Return("add_node", "invalid_argument")
    /\ UNCHANGED <<ptrs, cells, built>>

Reduce(n, low, high) ==
    LET p == Essential(ReductionRule(n))
    IN  /\ p \in {low.uid, high.uid}
        /\ b' = Noted(Moved(LevelOf(n.uid)), p)
        /\ ptrs' = ptrs \cup {IF p = low.uid THEN low ELSE high}
        /\ call' = [op |-> "add_node", outcome |-> "ok", node |-> n, ptr |-> p]
        /\ UNCHANGED <<cells, built>>

(* node_ofstream::push throws if the writer was closed by a failed build.  *)
PushFails(n) ==
    /\ Essential(ReductionRule(n)) = n.uid
    /\ ~Attached.nw.open
    /\ b' = Moved(LevelOf(n.uid))
    /\ Return("add_node", "domain_error")
    /\ UNCHANGED <<ptrs, cells, built>>

SameId(i) == i                                              \* (mutant)
NextId(i) == i - 1

PushNode(n, low, high) ==
    LET x == Moved(LevelOf(n.uid))
        p == Ptr(n.uid, x.phase)
    IN  /\ Essential(ReductionRule(n)) = n.uid
        /\ x.nw.open
        /\ Cardinality({q \in ptrs : IsNode(q.uid)}) < MaxNodes[zdd]
        /\ b' = [x EXCEPT !.nw = Push(@, n), !.id = NextId(@),
                          !.unref = @ + 1 - Cardinality(FirstReferences(low, high))]
        /\ ptrs' = ptrs \cup {p}
        /\ cells' = (cells \ {low, high}) \cup {p}
        /\ call' = [op |-> "add_node", outcome |-> "ok", node |-> n, ptr |-> n.uid]
        /\ UNCHANGED built

AddNode(label, low, high) ==
    \/ Reject(label, low, high)
    \/ /\ IsLegal(label, low, high)
       /\ LET n == Node(Uid(label, Moved(label).id), low.uid, high.uid)
          IN  Reduce(n, low, high) \/ PushFails(n) \/ PushNode(n, low, high)

AddTerminal(v) ==
    /\ b' = [Attached EXCEPT !.created = TRUE, !.value = v]
    /\ ptrs' = ptrs \cup {Ptr(Terminal(v), b'.phase)}
    /\ Return("add_terminal", "ok")
    /\ UNCHANGED <<cells, built>>

----------------------------------------------------------------------------
(* build(): asking a closed writer whether something was pushed is outside *)
(* its precondition; either answer ends in an exception.                   *)
BuildEmpty ==
    /\ ~HasPushed(Attached.nw) \/ ~Attached.nw.open
    /\ ~Attached.created \/ ~Attached.nw.open
    /\ b' = Attached
    /\ Return("build", "domain_error")
    /\ UNCHANGED <<ptrs, cells, built>>

ToBuild ==
    IF HasPushed(Attached.nw) THEN Closed(Attached.nw)
    ELSE Closed(Push(Attached.nw, TerminalNode(Attached.value)))

NoRoots(x) == x.unref < 1                                   \* (mutant)
ManyRoots(x) == x.unref > 1

BuildManyRoots ==
    /\ HasPushed(Attached.nw) /\ ManyRoots(Attached)
    /\ b' = [Attached EXCEPT !.nw = Closed(@)]
    /\ Return("build", "domain_error")
    /\ UNCHANGED <<ptrs, cells, built>>

Build ==
    /\ Attached.nw.open
    /\ HasPushed(Attached.nw) \/ Attached.created
    /\ ~(HasPushed(Attached.nw) /\ ManyRoots(Attached))
    /\ built' = {ToBuild.file}
    /\ b' = Detached(Attached)
    /\ Return("build", "ok")
    /\ UNCHANGED <<ptrs, cells>>

Clear ==
    /\ b' = Detached(b)
    /\ Return("clear", "ok")
    /\ UNCHANGED <<ptrs, cells, built>>

MayAttach == b.nf \/ b.phase < MaxPhases[zdd]

Next ==
    /\ UNCHANGED zdd
    /\ \/ /\ MayAttach
          /\ \/ \E label \in 0 .. Levels, low, high \in Arguments : AddNode(label, low, high)
             \/ \E v \in BOOLEAN : AddTerminal(v)
             \/ BuildEmpty
             \/ BuildManyRoots
             \/ Build
       \/ Clear

Spec == Init /\ [][Next]_vars

----------------------------------------------------------------------------
Nodes == InnerNodes(b.nw.file)
Callee(n) == Denotes(Nodes, n)

TypeOK ==
    /\ zdd \in BOOLEAN
    /\ b.nf \in BOOLEAN /\ b.created \in BOOLEAN /\ b.value \in BOOLEAN
    /\ b.unref \in Nat /\ b.phase \in 0 .. MaxPhases[zdd]
    /\ b.label \in Level
    /\ \A p \in ptrs : (IsNode(p.uid) \/ IsTerminal(p.uid)) /\ p.phase \in 1 .. b.phase
    /\ cells \subseteq ptrs

(* The count of unreferenced nodes is the number of nodes without a parent *)
(* in the file, whatever pointers are reused, copied or reduced away: that *)
(* is how build() detects a second root (builder.h:427).                   *)
UnreferencedAreRoots == b.nf => b.unref = Cardinality(Roots(Nodes))

(* The writer was given the nodes in the order it requires, children       *)
(* before parents: uids fall from each node to the next, even where the    *)
(* current label and identifier moved for a node that was reduced away,    *)
(* and every child is in the file: a pointer of an earlier phase never     *)
(* makes it into a later diagram (builder.h:242).                          *)
ChildrenAreInTheFile ==
    b.nf => \A n \in Nodes : \A p \in Targets(n) : IsNode(p) => \E m \in Nodes : m.uid = p

PushedTopologically ==
    /\ \A i, j \in DOMAIN b.nw.file.nodes :
           i < j => b.nw.file.nodes[i].uid > b.nw.file.nodes[j].uid
    /\ ChildrenAreInTheFile

(* The pointer add_node returns denotes the function that was asked for,   *)
(* be it for the new node or for the child it was reduced to.              *)
PointersMeanWhatWasAsked ==
    (b.nf /\ call.op = "add_node" /\ call.outcome = "ok") =>
        Callee(call.ptr) =
            Choice(zdd, LevelOf(call.node.uid), Callee(call.node.low), Callee(call.node.high))

(* What build() returns is one terminal or a diagram with one root, with   *)
(* exact counts; and its cuts are sound.                                   *)
BuiltIsADiagram ==
    \A f \in built :
        /\ InnerNodes(f) = {} => Count(f) = 1
        /\ InnerNodes(f) # {} => Cardinality(Roots(InnerNodes(f))) = 1
        /\ CountsAreExact(f)

BuiltCutsAreSound == \A f \in built : CutsAreBounds(f)
=============================================================================
