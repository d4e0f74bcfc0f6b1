------------------------------- MODULE Chain --------------------------------
(***************************************************************************)
(* Basic diagrams (internal/algorithms/build.h): a terminal, the node of a *)
(* variable, and chains built bottom-up of the labels that a generator     *)
(* gives in descending order (bdd/build.cpp, zdd/build.cpp).  A chain is   *)
(* written past the checks of the writer: flags and cuts are assigned from *)
(* what is known of chains.                                                *)
(***************************************************************************)
EXTENDS SingleInput

VARIABLES
    nw,         \* The writer of nf, for an operation that writes nodes
    policy,     \* Which chain is built
    given,      \* What the generator is still to give: <<label, negated>>
    tally       \* Local counts: arcs next to those to a terminal, the bottom

chainVars == <<nw, policy, given, tally>>

EmptyTally == [inner |-> 1, beside |-> [b \in BOOLEAN |-> 0], bottom |-> [b \in BOOLEAN |-> 0]]

ChainInit ==
    /\ nw = Constructed(EmptyFile)
    /\ policy = asked.op
    /\ given = <<>>
    /\ tally = EmptyTally

Chains == {"and", "or", "zdd_ithvar", "zdd_nithvar", "vars", "singletons", "powerset"}
Basics == {"const", "ithvar", "nithvar"}

(* The file that is returned, with its nodes for the handle.               *)
Written(negate) == Handle(2, NodesOf(nw'.file), negate, 0)

----------------------------------------------------------------------------
(* One node at most.                                                       *)
TerminalFile(b) ==
    Closed(SetCanonical(PushTerminalNode(Constructed(EmptyFile), b), TRUE))

VariableNode(l) == Node(Uid(l, MaxId), Terminal(FALSE), Terminal(TRUE))
VariableFile(l) ==
    Closed(SetCanonical(
        UnsafePushLevel(UnsafePushNode(Constructed(EmptyFile), VariableNode(l)), l, 1), TRUE))

BuildBasic ==
    /\ phase = "begin" /\ policy \in Basics
    /\ nw' = IF policy = "const" THEN TerminalFile(asked.var = 1) ELSE VariableFile(asked.var)
    /\ result' = Written(policy = "nithvar")
    /\ phase' = "done"
    /\ UNCHANGED <<zdd, asked, bound, sweepVars, policy, given, tally>>

----------------------------------------------------------------------------
(* The policies: the terminal a chain starts from, the labels without a    *)
(* node, and the node on top of what there is.                             *)
InitTerminal == policy # "singletons"
SkipsLabel(l) == policy = "zdd_nithvar" /\ l = asked.var
Children(l, negated, r) ==
    LET false == Terminal(FALSE)
    IN  CASE policy \in {"and", "or"} -> IF negated THEN <<r, false>> ELSE <<false, r>>
          [] policy = "zdd_ithvar" -> IF l = asked.var THEN <<false, r>> ELSE <<r, r>>
          [] policy \in {"zdd_nithvar", "powerset"} -> <<r, r>>
          [] policy = "vars" -> <<false, r>>
          [] policy = "singletons" -> <<r, Terminal(TRUE)>>

(* The labels the caller gives; a disjunction is the negation of the       *)
(* conjunction of the negated variables.                                   *)
Negates(negated) == IF policy = "or" THEN ~negated ELSE negated
Generated == [i \in DOMAIN asked.labels |->
                 <<asked.labels[i], Negates(asked.labels[i] \in asked.negated)>>]

BeginChain ==
    /\ phase = "begin" /\ policy \in Chains
    /\ given' = Generated
    /\ phase' = "chain"
    /\ UNCHANGED <<zdd, asked, bound, sweepVars, result, nw, policy, tally>>

IsEmptyChain == nw.file.nodes = <<>>
ChainRoot == IF IsEmptyChain THEN Terminal(InitTerminal) ELSE Last(nw.file.nodes).uid
Ascends(l) == ~IsEmptyChain /\ LevelOf(ChainRoot) < l
Ignored(l) == (~IsEmptyChain /\ LevelOf(ChainRoot) = l) \/ SkipsLabel(l)

RejectLabel ==
    /\ phase = "chain" /\ given # <<>> /\ Ascends(Head(given)[1])
    /\ phase' = "failed"
    /\ UNCHANGED <<zdd, asked, bound, sweepVars, result, chainVars>>

IgnoreLabel ==
    /\ phase = "chain" /\ given # <<>>
    /\ ~Ascends(Head(given)[1]) /\ Ignored(Head(given)[1])
    /\ given' = Tail(given)
    /\ UNCHANGED <<zdd, asked, phase, bound, sweepVars, result, nw, policy, tally>>

(* What a node adds to the counts.                                         *)
Tallied(n) ==
    [inner |-> Bigger(tally.inner, One(IsNode(n.low)) + One(IsNode(n.high))),
     beside |-> [b \in BOOLEAN |->
         IF Terminal(b) \in Targets(n)
         THEN Bigger(tally.beside[b], One(\E p \in Targets(n) : IsNode(p))) ELSE tally.beside[b]],
     bottom |-> [b \in BOOLEAN |->
         IF IsEmptyChain THEN One(Terminal(b) \in Targets(n)) ELSE tally.bottom[b]]]

AddToChain ==
    /\ phase = "chain" /\ given # <<>>
    /\ ~Ascends(Head(given)[1]) /\ ~Ignored(Head(given)[1])
    /\ LET l == Head(given)[1]
           c == Children(l, Head(given)[2], ChainRoot)
           n == Node(Uid(l, MaxId), c[1], c[2])
       IN  /\ nw' = UnsafePushLevel(UnsafePushNode(nw, n), l, 1)
           /\ tally' = Tallied(n)
    /\ given' = Tail(given)
    /\ UNCHANGED <<zdd, asked, phase, bound, sweepVars, result, policy>>

(* The assigned 1-level cuts.                                              *)
ArcsBeside(b) ==
    Bigger(tally.beside[b] + nw.file.terminals[b] - tally.bottom[b], nw.file.terminals[b])
ChainCut(kind) ==
    LET with(b) == IF Includes(kind, b) THEN ArcsBeside(b) ELSE 0
    IN  Bigger(Bigger(tally.inner, Bigger(with(FALSE), with(TRUE))),
               IF kind = "All" THEN nw.file.terminals[FALSE] + nw.file.terminals[TRUE] ELSE 0)

(* zdd_ithvar makes the empty set of {{}}.                                 *)
TerminalOfChain == InitTerminal /\ policy # "zdd_ithvar"

FinishChain ==
    /\ phase = "chain" /\ given = <<>>
    /\ nw' = IF IsEmptyChain THEN TerminalFile(TerminalOfChain)
             ELSE Closed([SetCanonical(nw, TRUE) EXCEPT
                              !.file.cut1 = [k \in CutKinds |-> ChainCut(k)]])
    /\ result' = Written(policy = "or")
    /\ phase' = "done"
    /\ UNCHANGED <<zdd, asked, bound, sweepVars, policy, given, tally>>

ChainNext ==
    BuildBasic \/ BeginChain \/ RejectLabel \/ IgnoreLabel \/ AddToChain \/ FinishChain

----------------------------------------------------------------------------
(* Reference.                                                              *)
Built ==
    LET labelSet == ToSet(asked.labels)
        var == asked.var
        is(l, b) == {x \in SUBSET Level : (l \in x) = b}
        literals == {is(l, l \notin asked.negated) : l \in labelSet}
    IN  CASE asked.op = "const" -> DenotesOf(zdd, {}, Terminal(var = 1))
          [] asked.op = "ithvar" -> IF zdd THEN {{var}} ELSE is(var, TRUE)
          [] asked.op = "nithvar" -> is(var, FALSE)
          [] asked.op = "and" -> {x \in SUBSET Level : \A s \in literals : x \in s}
          [] asked.op = "or" -> UNION literals
          [] asked.op = "zdd_ithvar" -> {x \in SUBSET labelSet : var \in x}
          [] asked.op = "zdd_nithvar" -> {x \in SUBSET labelSet : var \notin x}
          [] asked.op = "vars" -> {labelSet}
          [] asked.op = "singletons" -> {{l} : l \in labelSet}
          [] asked.op = "powerset" -> SUBSET labelSet
=============================================================================
