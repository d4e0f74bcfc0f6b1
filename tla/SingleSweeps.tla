---------------------------- MODULE SingleSweeps ----------------------------
(***************************************************************************)
(* The operations on one diagram that are a single sweep or scan, or none  *)
(* at all, and what they have to get right.                                *)
(***************************************************************************)
EXTENDS Select, Intercut, Replace, Traverse

extraVars == <<answer, chainVars, optVars, walkVars>>
allVars == <<vars, selectVars, hitLevel, extraVars>>

Init ==
    /\ SweepInit /\ SelectInit /\ CutInit
    /\ ChainInit /\ OptInit /\ WalkInit
    /\ answer = 0

Done == phase \in {"done", "failed"} /\ UNCHANGED allVars

Next ==
    \/ SelectNext /\ UNCHANGED <<hitLevel, extraVars>>
    \/ CutNext /\ UNCHANGED <<selectVars, extraVars>>
    \/ EndSweepLevel /\ UNCHANGED <<selectVars, hitLevel, extraVars>>
    \/ CountNext /\ UNCHANGED <<selectVars, hitLevel, chainVars, optVars, walkVars>>
    \/ OptNext /\ UNCHANGED <<selectVars, hitLevel, walkVars>>
    \/ WalkNext /\ UNCHANGED <<selectVars, hitLevel, optVars>>
    \/ ChainNext /\ UNCHANGED <<selectVars, hitLevel, answer, optVars, walkVars>>
    \/ ReplaceNext /\ UNCHANGED <<selectVars, hitLevel, answer, optVars, walkVars>>
    \/ Done

Spec == Init /\ [][Next]_allVars

----------------------------------------------------------------------------
Expected ==
    CASE IsSelection -> Selected
      [] IsCutting -> CutFunction
      [] IsReplace -> Replaced
      [] OTHER -> Built

(* The result denotes what the operation is documented to compute          *)
(* (zdd.h:584-596, 640-648, 723-737, 801-935; bdd.h:724-737, 2309-2321),   *)
(* whatever was skipped, cut or returned without a sweep, and for the      *)
(* basic diagrams and renamed variables, too (bdd.h:84-300, zdd.h:36-330). *)
HasFunction == IsSelection \/ IsCutting \/ IsReplace \/ asked.op \in Chains \cup Basics
DiagramIsRight == phase = "done" /\ HasFunction => OutputFunction = Expected

IsExtreme ==
    LET f == InputFunction(zdd)
        x == Extreme(f)
    IN  IF f = {} THEN OutputFunction = IF IsSat THEN {} ELSE {{}}
        ELSE IF ~IsSat THEN OutputFunction = {x}
        ELSE /\ x \in OutputFunction /\ OutputFunction \subseteq f
             /\ LabelSet \subseteq CubeVars(result.nodes)
             /\ ~IsTerminalDiagram(asked.in) =>
                    OutputFunction = {y \in SUBSET Level :
                        \A l \in CubeVars(result.nodes) : l \in x <=> l \in y}
IsCheapestOfAll ==
    /\ answer = LeastCost
    /\ OutputFunction \subseteq InputFunction(zdd)
    /\ InputFunction(zdd) # {} => \E x \in OutputFunction : CostOfSet(x) = answer

(* What is rejected is what cannot be done.                                *)
CannotBeDone ==
    LET used == {LevelOf(n.uid) : n \in Read(asked.in)} \cap Level
        ascends(related(_, _)) == \E i, j \in DOMAIN asked.labels :
                                      i < j /\ related(asked.labels[i], asked.labels[j])
    IN  CASE asked.op \in Chains -> ascends(LAMBDA k, l : k < l)
          [] IsReplace -> \E k, l \in used : k < l /\ Renamed(k) >= Renamed(l)
          [] Counts -> asked.var < Cardinality(used)
          [] IsOptMin -> \E l \in used : CostOf(l) < 0
          [] asked.op = "eval_given" ->
                ~(used \subseteq LabelSet) \/ ascends(LAMBDA k, l : k >= l)
          [] OTHER -> FALSE

(* Counts, costs and truth values are those of the function                *)
(* (bdd.h:1774-1822, 2188-2295); an extreme assignment is in the function, *)
(* is the extreme one for the variables it leaves open, and tells of every *)
(* variable of the domain (bdd.h:1990-2110, zdd.h:1556-1640); the cheapest *)
(* is in the function and costs what is said.  Labels out of order, maps   *)
(* that reorder, too few variables, negative costs and missing assignments *)
(* are all that is rejected (build.h:91-93, replace.h:239,                 *)
(* bdd/count.cpp:106, bdd/optmin.cpp:38, bdd/evaluate.cpp:79-95).          *)
AnswerIsRight ==
    /\ phase = "done" =>
        CASE Counts -> answer = HowMany
          [] asked.op \in Evaluations \cup {"contains"} -> answer = Decided
          [] asked.op \in Extremes -> IsExtreme
          [] IsOptMin -> (\A l \in Level : CostOf(l) >= 0) => IsCheapestOfAll
          [] OTHER -> TRUE
    /\ phase = "failed" => CannotBeDone

(* What is returned is right, be it a diagram, an answer or an exception.  *)
ResultIsRight == DiagramIsRight /\ AnswerIsRight

(* Nodes that are written one by one, past the checks of the writer, leave *)
(* a file with sound meta data (build.h:150-169, replace.h:155-174).  Two  *)
(* cuts are not what is documented: those of zdd_ithvar count an arc to    *)
(* false only where it begins; and renaming copies the flags of a file     *)
(* although its negation has another order.                                *)
MetaDataIsSound ==
    phase = "done" /\ ~nw.open =>
        /\ CountsAreExact(nw.file)
        /\ ~(IsReplace /\ asked.in.negate) => FlagsMeanCanonical(nw.file)
        /\ asked.op # "zdd_ithvar" => CutsAreBounds(nw.file)

(* The arcs are what Reduce asks for, although those of skipped nodes come *)
(* late, and the cut it sizes its queue by is no less than the arcs across *)
(* any level (select.h:117-166, intercut.h:241-302).                       *)
OutputCanBeReduced ==
    phase = "done" /\ (IsSelection \/ IsCutting) /\ ~HasResult =>
        /\ IsSemiTransposed(aw.file)
        /\ \A l \in Level : aw.file.cut1 >= ArcsAcross(l)

(* The diagram is read once: the stream is not past a node that a request  *)
(* is still for, or that is walked to next (select.h:123-126,              *)
(* intercut.h:247-249, count.h:142, optmin.h:121-127, traverse.h:32-34).   *)
(* And the queue, or stack, of an operation keeps to its allocation,       *)
(* however many levels an arc is cut on (intercut.h:308-316, count.h:190,  *)
(* optmin.h:214, bdd/evaluate.cpp:260).                                    *)
SweepsWithinBounds ==
    /\ phase \in {"level", "requests"} =>
        /\ \A r \in pq : IsNode(r.target) => v.uid <= r.target
        /\ asked.op \in {"expand", "complement"} \/ Counts \/ IsOptMin => Cardinality(pq) <= bound
    /\ phase = "walk" => (IsNode(tgt) => v.uid <= tgt)
    /\ IsWalk => Len(stack) <= bound

(* The queue of a sweep that selects never holds more than the bound it is *)
(* allocated for (select.h:196-197: "We then may derive an upper bound on  *)
(* the size of auxiliary data structures").                                *)
SelectsWithinBound ==
    phase \in {"level", "requests"} /\ IsSelection => Cardinality(pq) <= bound
=============================================================================
