----------------------------- MODULE MCBuilder -----------------------------
(* Instances of Builder: one phase of three nodes for BDDs, two phases of  *)
(* two nodes in total for ZDDs.                                            *)
EXTENDS Builder

NodesOfKind == [kind \in BOOLEAN |-> IF kind THEN 2 ELSE 3]
PhasesOfKind == [kind \in BOOLEAN |-> IF kind THEN 2 ELSE 1]
=============================================================================
