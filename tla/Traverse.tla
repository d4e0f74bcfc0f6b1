------------------------------ MODULE Traverse ------------------------------
(***************************************************************************)
(* Following one path of a diagram with a visitor that picks the child     *)
(* (internal/algorithms/traverse.h): evaluation (bdd/evaluate.cpp),        *)
(* membership (zdd/contains.cpp), and the first or last of all satisfying  *)
(* assignments or sets (bdd/evaluate.cpp, zdd/elem.cpp), which is reported *)
(* to a callback or put on a stack and built as a chain.                   *)
(***************************************************************************)
EXTENDS Count

VARIABLES
    tgt,        \* The pointer to visit next
    stack       \* What was picked, the last one last

walkVars == <<tgt, stack>>

WalkInit == tgt = Nil /\ stack = <<>>

Evaluations == {"eval", "eval_given"}
Extremes == {"satmin", "satmax", "minelem", "maxelem"}
Walks == Evaluations \cup Extremes \cup {"contains"}
IsWalk == asked.op \in Walks
IsSat == asked.op \in {"satmin", "satmax"}

(* satmin and satmax return a terminal as it is, the true one if no domain *)
(* is given.                                                               *)
NothingToPick ==
    /\ IsSat
    /\ IsTerminalDiagram(asked.in)
    /\ ValueOf(asked.in) => asked.labels = <<>>

ReturnTerminal ==
    /\ phase = "begin" /\ NothingToPick
    /\ result' = asked.in
    /\ phase' = "done"
    /\ UNCHANGED <<zdd, asked, bound, sweepVars, answer, chainVars, walkVars>>

(* The labels of a generator, of which the first is already pulled; with   *)
(* nothing to pull, the variable for it holds 0 and false.                 *)
BeginWalk ==
    /\ phase = "begin" /\ IsWalk /\ ~NothingToPick
    /\ v' = First(asked.in)
    /\ tgt' = v'.uid
    /\ bound' = VarCount(asked.in) + Len(asked.labels)
    /\ labels' = IF asked.op = "eval_given" /\ labels = <<>> THEN <<0>> ELSE labels
    /\ phase' = "walk"
    /\ UNCHANGED <<zdd, asked, pq, label, outId, aw, result, answer, chainVars, stack>>

----------------------------------------------------------------------------
(* Evaluation: the labels above the node are passed; they have to ascend,  *)
(* and the one of the node has to be among them.                           *)
Passed(l) ==
    LET first == SelectInSeq(labels, LAMBDA x : x >= l)
    IN  IF first = 0 THEN Len(labels) ELSE first - 1
LabelsAhead(l) == SubSeq(labels, Passed(l) + 1, Len(labels))
Unordered(l) == \E i \in 1 .. Smaller(Passed(l), Len(labels) - 1) : labels[i + 1] <= labels[i]
IsGiven(l) == LabelsAhead(l) # <<>> /\ Head(LabelsAhead(l)) = l

Fails(n) ==
    /\ asked.op = "eval_given"
    /\ Unordered(LevelOf(n.uid)) \/ ~IsGiven(LevelOf(n.uid))

EvalChild(n) == IF LevelOf(n.uid) \in asked.true THEN n.high ELSE n.low

(* Membership: gives up on a label of the set that no node stands for.     *)
Upcoming(l) == IF labels # <<>> /\ Head(labels) = l THEN Tail(labels) ELSE labels
ContainsChild(n) ==
    LET l == LevelOf(n.uid)
        next == IF labels # <<>> /\ Head(labels) = l THEN n.high ELSE n.low
        rest == Upcoming(l)
        missedBefore == labels # <<>> /\ n = First(asked.in) /\ Head(labels) < l
        missedAfter == IsNode(next) /\ rest # <<>> /\ l < Head(rest) /\ Head(rest) < LevelOf(next)
    IN  IF missedBefore \/ missedAfter THEN Nil ELSE next

(* The smallest and the largest: low, or high, unless it is false.         *)
ByDefault == asked.op \in {"satmax", "maxelem"}
ExtremeChild(n) ==
    IF ByDefault THEN IF IsFalse(n.high) THEN n.low ELSE n.high
    ELSE IF IsFalse(n.low) THEN n.high ELSE n.low

ChildOf(n) ==
    CASE asked.op \in Evaluations -> EvalChild(n)
      [] asked.op \in Extremes -> ExtremeChild(n)
      [] asked.op = "contains" -> ContainsChild(n)

(* Labels of the domain that the path skips take the default; a set lists  *)
(* the labels where it takes the high arc, for equal children by default.  *)
DefaultsAbove(l) ==
    [i \in DOMAIN SelectSeq(labels, LAMBDA x : x < l) |-> <<labels[i], ~ByDefault>>]
Picked(n, next) ==
    IF IsSat THEN DefaultsAbove(LevelOf(n.uid)) \o <<<<LevelOf(n.uid), next = n.low>>>>
    ELSE IF next = n.high /\ (next # n.low \/ ByDefault) THEN <<<<LevelOf(n.uid), FALSE>>>>
    ELSE <<>>

LabelsAfter(l) ==
    CASE IsSat -> SelectSeq(labels, LAMBDA x : x > l)
      [] asked.op = "contains" -> Upcoming(l)
      [] asked.op = "eval_given" -> LabelsAhead(l)
      [] OTHER -> labels

----------------------------------------------------------------------------
VisitNode ==
    /\ phase = "walk" /\ IsNode(tgt)
    /\ v' = Seek(asked.in, v, tgt)
    /\ ~Fails(v')
    /\ tgt' = ChildOf(v')
    /\ labels' = LabelsAfter(LevelOf(v'.uid))
    /\ stack' = IF asked.op \in Extremes THEN stack \o Picked(v', tgt') ELSE stack
    /\ UNCHANGED <<zdd, asked, phase, bound, pq, label, outId, aw, result, answer, chainVars>>

MissAssignment ==
    /\ phase = "walk" /\ IsNode(tgt)
    /\ Fails(Seek(asked.in, v, tgt))
    /\ phase' = "failed"
    /\ UNCHANGED <<zdd, asked, bound, sweepVars, result, answer, chainVars, walkVars>>

(* A truth value: membership needs every label to have been met.           *)
Decide ==
    /\ phase = "walk" /\ ~IsNode(tgt) /\ asked.op \notin Extremes
    /\ answer' = (IsTrue(tgt) /\ (asked.op = "contains" => labels = <<>>))
    /\ phase' = "done"
    /\ UNCHANGED <<zdd, asked, bound, sweepVars, result, chainVars, walkVars>>

(* An assignment: the rest of the domain is skipped, too; what is on the   *)
(* stack comes off it bottom-up.                                           *)
RestOfDomain == IF IsSat THEN [i \in DOMAIN labels |-> <<labels[i], ~ByDefault>>] ELSE <<>>
BuildFromStack ==
    /\ phase = "walk" /\ ~IsNode(tgt) /\ asked.op \in Extremes
    /\ stack' = stack \o RestOfDomain
    /\ labels' = <<>>
    /\ given' = Reverse(stack')
    /\ policy' = IF IsSat THEN "and" ELSE "vars"
    /\ phase' = "chain"
    /\ UNCHANGED <<zdd, asked, bound, pq, label, outId, v, aw, result, answer, nw, tally, tgt>>

WalkNext == ReturnTerminal \/ BeginWalk \/ VisitNode \/ MissAssignment \/ Decide \/ BuildFromStack

----------------------------------------------------------------------------
(* Reference: with the first level the most significant one.               *)
Precedes(x, y) ==
    \E l \in Level : l \notin x /\ l \in y /\ \A k \in 0 .. l - 1 : k \in x <=> k \in y
Least(f) == CHOOSE x \in f : \A y \in f : x = y \/ Precedes(x, y)
Greatest(f) == CHOOSE x \in f : \A y \in f : x = y \/ Precedes(y, x)
Extreme(f) == IF ByDefault THEN Greatest(f) ELSE Least(f)

Decided ==
    IF asked.op = "contains" THEN LabelSet \in InputFunction(zdd)
    ELSE asked.true \in InputFunction(zdd)

(* The variables a cube says something of.                                 *)
CubeVars(nodes) == {LevelOf(n.uid) : n \in nodes} \cap Level
=============================================================================
