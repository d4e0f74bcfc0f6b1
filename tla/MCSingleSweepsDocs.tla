------------------------- MODULE MCSingleSweepsDocs -------------------------
(* Instances of SingleSweeps where the result is not the documented one,   *)
(* or a queue outgrows its bound.                                          *)
EXTENDS SingleSweeps, TLC

On(l) == Uid(l, MaxId)

(* The sets that have both of two variables, the first of which is above   *)
(* the root: of the family of one set with one or two variables.           *)
OneSet(l, next) == Node(On(l), Terminal(FALSE), next)
Families == {
    {OneSet(1, Terminal(TRUE))}, {OneSet(2, Terminal(TRUE))},
    {OneSet(1, On(2)), OneSet(2, Terminal(TRUE))}}
Onsets == {
    {[op |-> "onset", zdd |-> TRUE, in |-> Handle(1, f, FALSE, 0),
      labels |-> <<0, 1>>, values |-> <<>>] : f \in Families}}

(* The sets other than the empty one.                                      *)
Complements == {
    {[op |-> "complement", zdd |-> TRUE, in |-> Handle(1, {TerminalNode(TRUE)}, FALSE, 0),
      labels |-> <<0, 1>>, values |-> <<>>]}}

(* Many arcs bridged over a node.  On the first K levels, each node has an *)
(* arc to the node on level K and one to the node after itself; that node  *)
(* has one child, on the level before last.  Each of the K nodes between   *)
(* the two has an arc to this child, too, so that the K bridged arcs wait  *)
(* while as many others join them.                                         *)
K == 4
Joint == On(2 * K + 1)

Ladder ==
    {Node(On(l), On(K), On(IF l = K - 1 THEN K + 1 ELSE l + 1)) : l \in 0 .. K - 1} \cup
    {Node(On(K), Joint, Terminal(FALSE))} \cup
    {Node(On(l), Joint, On(IF l = 2 * K THEN 2 * K + 2 ELSE l + 1)) : l \in K + 1 .. 2 * K} \cup
    {Node(Joint, Terminal(FALSE), Terminal(TRUE)),
     Node(On(2 * K + 2), Terminal(TRUE), Terminal(FALSE))}

RestrictLadder == {
    {[op |-> "restrict", zdd |-> FALSE, in |-> Handle(1, Ladder, FALSE, 0),
      labels |-> <<K>>, values |-> [l \in Level |-> FALSE]]}}
=============================================================================
