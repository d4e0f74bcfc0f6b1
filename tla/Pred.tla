-------------------------------- MODULE Pred --------------------------------
(***************************************************************************)
(* Predicates on two diagrams (internal/algorithms/pred.h and pred.cpp,    *)
(* zdd/pred.cpp): whether they are equal, one is a subset of the other, or *)
(* they are disjoint.  Equality looks at the meta data first and compares  *)
(* canonical files node by node; the other cases explore the product until *)
(* a pair of pointers settles the answer.  Predicates on one diagram       *)
(* (bdd/pred.cpp) look at meta data and the root only.                     *)
(*                                                                         *)
(* Requests have no source; of several for one pair only one is answered.  *)
(* They still take their places in the queue, and are told apart here by   *)
(* the arc of the product they stand for.                                  *)
(***************************************************************************)
EXTENDS DoubleInput

VARIABLES
    verdict,    \* What is returned
    unread,     \* Levels of the first input whose width is not yet looked at
    allowed     \* What remains of the width of the current level

predVars == <<verdict, unread, allowed>>

PredInit == verdict = FALSE /\ unread = {} /\ allowed = 0

Compares == algorithm \in {"equal", "subseteq", "disjoint"}
Begins == Compares /\ phase = "begin"

(* unequal is the opposite of equal; subset is subseteq and then unequal.  *)
Return(v) ==
    IF asked.name = "subset" /\ algorithm = "subseteq" /\ v
    THEN algorithm' = "equal" /\ phase' = "begin" /\ UNCHANGED verdict
    ELSE /\ verdict' = IF algorithm = "equal" /\ asked.name # "equal" THEN ~v ELSE v
         /\ phase' = "done"
         /\ UNCHANGED algorithm

AtOnce(v) ==
    /\ Return(v)
    /\ UNCHANGED <<zdd, asked, in0, in1, access, bound1, bound2, streamVars, unread, allowed>>

----------------------------------------------------------------------------
(* Answers without a sweep.                                                *)
SameFile == in0.file = in1.file

AnswerForSameFile ==
    /\ Begins /\ SameFile
    /\ AtOnce(CASE algorithm = "equal" -> in0.negate = in1.negate /\ in0.shift = in1.shift
                [] algorithm = "subseteq" -> TRUE
                [] algorithm = "disjoint" -> IsTerminalDiagram(in0) /\ ~ValueOf(in0))

(* Sizes, widths, arcs to terminals and levels.                            *)
MetaDataDiffers ==
    \/ Cardinality(in0.nodes) # Cardinality(in1.nodes)
    \/ \E v \in BOOLEAN : NumberOfTerminals(in0, v) # NumberOfTerminals(in1, v)
    \/ LevelInfos(in0) # LevelInfos(in1)

ComparesByNode == IsCanonical(in0) /\ IsCanonical(in1) /\ in0.negate = in1.negate

CompareFiles ==
    /\ Begins /\ ~SameFile /\ algorithm = "equal"
    /\ MetaDataDiffers \/ ComparesByNode
    /\ AtOnce(~MetaDataDiffers /\ Read(in0) = Read(in1))

Explores == ~SameFile /\ (algorithm = "equal" => ~MetaDataDiffers /\ ~ComparesByNode)

(* resolve_terminals: the values it settles the answer to, if it does.     *)
IsTerminalNode(n) == IsTerminal(n.uid)
RootsSettle(m, n) ==
    LET isFalse(k) == IsFalse(k.uid)
        isTrue(k) == IsTrue(k.uid)
        both == IsTerminalNode(m) /\ IsTerminalNode(n)
        either == IsTerminalNode(m) \/ IsTerminalNode(n)
    IN  CASE algorithm = "equal" -> IF either THEN {m.uid = n.uid} ELSE {}
          [] algorithm = "subseteq" ->
                IF both THEN {isFalse(m) \/ isTrue(n)}
                ELSE IF isFalse(m) THEN {TRUE} ELSE IF isTrue(n) THEN {FALSE} ELSE {}
          [] algorithm = "disjoint" ->
                IF isFalse(m) \/ isFalse(n) THEN {TRUE} ELSE IF both THEN {FALSE} ELSE {}

(* resolve_singletons, when the children of both roots are terminals.      *)
IsSingleton(n) == IsTerminal(n.low) /\ IsTerminal(n.high)
Singletons(m, n) ==
    CASE algorithm = "equal" -> m.low = n.low /\ m.high = n.high
      [] algorithm = "subseteq" ->
            LevelOf(m.uid) = LevelOf(n.uid) /\ m.low <= n.low /\ m.high <= n.high
      [] algorithm = "disjoint" ->
            LevelOf(m.uid) # LevelOf(n.uid) \/ m.low # n.low \/ m.high # n.high

CompareRoots ==
    /\ Begins /\ Explores
    /\ LET m == First(in0)
           n == First(in1)
       IN  \/ \E v \in RootsSettle(m, n) : AtOnce(v)
           \/ /\ RootsSettle(m, n) = {}
              /\ IsSingleton(m) /\ IsSingleton(n)
              /\ AtOnce(Singletons(m, n))

----------------------------------------------------------------------------
(* The sweep.  Both queues get the size computed for the first.            *)
RawCut2(d, kind) == TwoLevelCut(d.nodes, kind)
ComparisonBound ==
    LET cut(d, kind) == IF IsTerminalDiagram(d) THEN TerminalCut(d, kind) ELSE RawCut2(d, kind)
    IN  CASE algorithm = "equal" -> Bigger(cut(in0, "Internal"), cut(in1, "Internal"))
          [] algorithm = "subseteq" -> cut(in0, "Internal_True") * cut(in1, "Internal_True")
          [] algorithm = "disjoint" -> cut(in0, "All") * cut(in1, "All")

PairRequest(t, from) == Request(t, from, NoCarry)

BeginComparison ==
    /\ Begins /\ Explores
    /\ v0' = First(in0) /\ v1' = First(in1)
    /\ RootsSettle(v0', v1') = {} /\ ~(IsSingleton(v0') /\ IsSingleton(v1'))
    /\ bound1' = ComparisonBound /\ bound2' = ComparisonBound
    /\ access' = "pq"
    /\ pq1' = {PairRequest(<<v0'.uid, v1'.uid>>, <<NoCarry, 0>>)}
    /\ unread' = LevelInfos(in0)
    /\ phase' = "level"
    /\ UNCHANGED <<zdd, asked, algorithm, in0, in1, pq2, label, verdict, allowed>>

(* The levels of the first input are read one by one, whatever level the   *)
(* queue is at.                                                            *)
NextLevelToCompare ==
    /\ Compares /\ phase = "level" /\ pq1 # {}
    /\ IsNextLevel(label')
    /\ IF algorithm = "equal"
       THEN LET info == CHOOSE i \in unread : \A j \in unread : i[1] <= j[1]
            IN  unread' = unread \ {info} /\ allowed' = info[2]
       ELSE UNCHANGED <<unread, allowed>>
    /\ phase' = "requests"
    /\ UNCHANGED <<inputVars, pq1, pq2, v0, v1, verdict>>

(* All duplicates of a request are taken off the first queue with it.      *)
CarryPair ==
    /\ Compares /\ phase = "requests" /\ AtLabel \cup pq2 # {}
    /\ LET r == NextRequest
       IN  /\ Carries(r)
           /\ SeekBoth(r)
           /\ pq1' = pq1 \ With(pq1, r.target)
           /\ pq2' = pq2 \cup {[r EXCEPT !.carry = AtHand(r.target)]}
    /\ UNCHANGED <<inputVars, phase, label, predVars>>

(* resolve_request: whether a pair of children settles the answer, and     *)
(* whether it has to be looked at.                                         *)
Settles(p) ==
    LET both == IsTerminal(p[1]) /\ IsTerminal(p[2])
        either == IsTerminal(p[1]) \/ IsTerminal(p[2])
    IN  CASE algorithm = "equal" ->
                IF either THEN p[1] # p[2] ELSE LevelOf(p[1]) # LevelOf(p[2])
          [] algorithm = "subseteq" ->
                IF both THEN p[1] > p[2] ELSE ~IsFalse(p[1]) /\ IsFalse(p[2])
          [] algorithm = "disjoint" -> both /\ Value(p[1]) /\ Value(p[2])

Asks(p) ==
    /\ ~Settles(p)
    /\ ~(IsTerminal(p[1]) /\ IsTerminal(p[2]))
    /\ ~IsFalse(p[1]) /\ ~IsFalse(p[2])

TooMany == algorithm = "equal" /\ allowed = 0

ComparePair ==
    /\ Compares /\ phase = "requests" /\ AtLabel \cup pq2 # {}
    /\ LET r == NextRequest
           t == r.target
           children0 == Merge(r, 1, v0')
           children1 == Merge(r, 2, v1')
           pair(i) == <<children0[i], children1[i]>>
           early == TooMany \/ Settles(pair(1)) \/ Settles(pair(2))
       IN  /\ ~Carries(r)
           /\ SeekBoth(r)
           /\ allowed' = IF algorithm = "equal" THEN Bigger(allowed - 1, 0) ELSE 0
           /\ IF early
              THEN Return(FALSE) /\ pq1' = {} /\ pq2' = {}
              ELSE /\ pq1' = (pq1 \ With(pq1, t))
                             \cup {PairRequest(pair(i), <<t, i>>) : i \in {j \in {1, 2} : Asks(pair(j))}}
                   /\ pq2' = pq2 \ {r}
                   /\ UNCHANGED <<algorithm, phase, verdict>>
    /\ UNCHANGED <<zdd, asked, in0, in1, access, bound1, bound2, label, unread>>

EndComparedLevel ==
    /\ Compares /\ phase = "requests" /\ AtLabel \cup pq2 = {}
    /\ phase' = "level"
    /\ UNCHANGED <<inputVars, streamVars, predVars>>

NoneSettled ==
    /\ Compares /\ phase = "level" /\ pq1 = {}
    /\ Return(TRUE)
    /\ UNCHANGED <<zdd, asked, in0, in1, access, bound1, bound2, streamVars, unread, allowed>>

----------------------------------------------------------------------------
(* Predicates on one diagram.                                              *)
Root == First(in0)
TerminalArcs(d) == NumberOfTerminals(d, FALSE) + NumberOfTerminals(d, TRUE)
IsVar == TerminalArcs(in0) = 2
OneWide == \A l \in Level : Cardinality(OnLevel(in0.nodes, l)) <= 1

SinglePredicates == {"isvar", "isithvar", "isnithvar", "iscube", "ispoint"}
HoldsOfOne(name) ==
    CASE name = "isvar" -> IsVar
      [] name = "isithvar" -> IsVar /\ IsTrue(Root.high)
      [] name = "isnithvar" -> IsVar /\ IsTrue(Root.low)
      [] name = "iscube" -> OneWide /\ NumberOfTerminals(in0, TRUE) = 1
                                    /\ NumberOfTerminals(in0, FALSE) = VarCount(in0)
      [] name = "ispoint" -> OneWide /\ NumberOfTerminals(in0, TRUE) = 1

LookAtOne ==
    /\ phase = "begin" /\ algorithm \in SinglePredicates
    /\ verdict' = HoldsOfOne(algorithm)
    /\ phase' = "done"
    /\ UNCHANGED <<inputVars, streamVars, unread, allowed>>

PredNext ==
    \/ AnswerForSameFile \/ CompareFiles \/ CompareRoots
    \/ BeginComparison
    \/ NextLevelToCompare \/ CarryPair \/ ComparePair \/ EndComparedLevel
    \/ NoneSettled
    \/ LookAtOne
=============================================================================
