--------------------------- MODULE ProductSweeps ----------------------------
(***************************************************************************)
(* The sweeps over more than one diagram, one at a time: the product of    *)
(* two (Prod2), if-then-else of three, which becomes the former in its     *)
(* special cases (IfThenElse), and the predicates on two (Pred).           *)
(***************************************************************************)
EXTENDS IfThenElse, Pred

vars == <<inputVars, streamVars, phase, prodVars, iteVars, predVars>>

Init == InputInit /\ ProdInit /\ IteInit /\ PredInit

Done == phase = "done" /\ UNCHANGED vars

Next ==
    \/ ProdNext /\ UNCHANGED <<iteVars, predVars>>
    \/ IteNext /\ UNCHANGED predVars
    \/ PredNext /\ UNCHANGED <<prodVars, iteVars>>
    \/ Done

Spec == Init /\ [][Next]_vars

----------------------------------------------------------------------------
Diagrams == {"apply", "relprod", "ite"}
HasResult == result # NoHandle
OutputNodes == NodesOfArcs(AllArcsIn(aw.file))
OutputFunction ==
    IF HasResult THEN FunctionOf(result)
    ELSE Denotes(OutputNodes, (CHOOSE n \in Roots(OutputNodes) : TRUE).uid)

Promised ==
    LET f == FunctionOf(asked.in0)
        g == FunctionOf(asked.in1)
        h == FunctionOf(asked.in2)
    IN  IF asked.name # "ite"
        THEN {x \in SUBSET Level : asked.op[(x \in f)][(x \in g)]}
        ELSE {x \in SUBSET Level : IF x \in f THEN x \in g ELSE x \in h}

(* A function without what it says of the levels to quantify.              *)
Quantified(f) == {x \ asked.quant : x \in f}

PromisedVerdict ==
    LET f == FunctionOf(asked.in0)
        g == FunctionOf(asked.in1)
        isVar(l, v) == f = {x \in SUBSET Level : (l \in x) = v}
    IN  CASE asked.name = "equal" -> f = g
          [] asked.name = "unequal" -> f # g
          [] asked.name = "subseteq" -> f \subseteq g
          [] asked.name = "subset" -> f \subseteq g /\ f # g
          [] asked.name = "disjoint" -> f \cap g = {}
          [] asked.name = "isvar" -> \E l \in Level, v \in BOOLEAN : isVar(l, v)
          [] asked.name = "isithvar" -> \E l \in Level : isVar(l, TRUE)
          [] asked.name = "isnithvar" -> \E l \in Level : isVar(l, FALSE)
          [] asked.name = "iscube" -> \E s \in SUBSET Level : \E x \in SUBSET s :
                                          f = {y \in SUBSET Level : y \cap s = x}
          [] asked.name = "ispoint" -> Cardinality(f) = 1

(* The result denotes the operator, or the choice, applied to the inputs,  *)
(* whichever variant ran and whatever was shortcut, skipped or carried     *)
(* (prod2.h:804-878, if_then_else.cpp:492-663), and for a relational       *)
(* product, whatever was pruned, once the variables to quantify are        *)
(* (bdd/relprod.cpp:110-117); a predicate holds of what the inputs denote, *)
(* wherever the search stopped (pred.h:58-152).                            *)
ResultIsRight ==
    phase = "done" =>
        IF asked.name \in Diagrams THEN Quantified(OutputFunction) = Quantified(Promised)
        ELSE verdict = PromisedVerdict

(* The arcs are what Reduce asks for, although the arcs of skipped ZDD     *)
(* nodes to terminals come out of order (prod2.h:143-189); the 1-level cut *)
(* Reduce sizes its queue by is no less than the number of arcs between    *)
(* nodes across any cut (prod2.h:304-318, 442-443, 536-540,                *)
(* if_then_else.cpp:239-240).                                              *)
ArcsAcross(l) ==
    Cardinality({a \in ToSet(aw.file.internal) : LevelOf(a.source) < l /\ l <= LevelOf(a.target)})
OutputCanBeReduced ==
    phase = "done" /\ asked.name \in Diagrams /\ ~HasResult =>
        /\ IsSemiTransposed(aw.file)
        /\ \A l \in Level : aw.file.cut1 >= ArcsAcross(l)

(* Three files written one after the other make a file whose meta data is  *)
(* right, the 2-level cut excepted (if_then_else.cpp:59-114).              *)
ConcatenationIsSound ==
    zipped # EmptyFile =>
        /\ CountsAreExact(zipped)
        /\ FlagsMeanCanonical(zipped)
        /\ \A k \in CutKinds : OneLevelCut(InnerNodes(zipped), k) <= zipped.cut1[k]

(* No queue outgrows the size it is allocated with (prod2.h:642-645,       *)
(* 714-755, if_then_else.cpp:584-600, pred.h:210-220).  Not so the queue   *)
(* of a comparison for equality, whose bound holds of equal diagrams only, *)
(* and that of an inclusion in the empty family, which gets the size 0.    *)
QueuesWithinBounds ==
    phase \notin {"begin", "done"} /\ algorithm # "equal" /\ ~(Compares /\ bound1 = 0) =>
        /\ Cardinality(pq1) <= bound1
        /\ access # "ra" => Cardinality(pq2) <= bound2
        /\ Cardinality(pq3) <= bound3

(* All diagrams are read once: no stream is past a node that a request     *)
(* still needs and does not carry (prod2.h:330, 460-470,                   *)
(* if_then_else.cpp:278-284, pred.h:112-118).                              *)
Needs(r, i) ==
    LET t == r.target
        carried == IF IsIte THEN t[i] < SeekTo3(r) ELSE t[i] < SeekTo(r)
    IN  IsNode(t[i]) /\ ~carried
NothingIsPassed ==
    phase \in {"level", "requests"} =>
        \A r \in pq1 \cup pq2 \cup pq3 :
            /\ RequestLevel(r.target) >= label
            /\ Needs(r, 1) => v0.uid <= r.target[1]
            /\ Needs(r, 2) /\ access # "ra" => v1.uid <= r.target[2]
            /\ IsIte /\ Needs(r, 3) => v2.uid <= r.target[3]
=============================================================================
