------------------------------ MODULE Replace ------------------------------
(***************************************************************************)
(* Renaming the variables of a diagram (internal/algorithms/replace.h).    *)
(* How much work it is depends on what the map does to the levels there    *)
(* are: nothing, another shift of the handle, or a copy of the file; maps  *)
(* that reorder levels are rejected.                                       *)
(***************************************************************************)
EXTENDS Chain

IsReplace == asked.op = "replace"
Renamed(l) == asked.map[l]

(* __replace__infer_type: the levels in ascending order, each compared     *)
(* with the one before it.                                                 *)
LevelsAscending(d) == SetToSortSeq({LevelOf(n.uid) : n \in Read(d)}, <)

OnEachStep(levels, holds(_, _)) ==
    \A i \in 1 .. Len(levels) - 1 : holds(levels[i], levels[i + 1])

IsMonotone(levels) == OnEachStep(levels, LAMBDA k, l : Renamed(k) < Renamed(l))
IsShift(levels) == OnEachStep(levels, LAMBDA k, l : k - Renamed(k) = l - Renamed(l))
IsIdentity(levels) == \A i \in DOMAIN levels : Renamed(levels[i]) = levels[i]

ReplaceType(levels) ==
    CASE ~IsMonotone(levels) -> "Non_Monotone"
      [] IsMonotone(levels) /\ ~IsShift(levels) -> "Monotone"
      [] IsShift(levels) /\ ~IsIdentity(levels) -> "Shift"
      [] IsIdentity(levels) -> "Identity"

TypeOfMap == ReplaceType(LevelsAscending(asked.in))

----------------------------------------------------------------------------
KeepTerminal ==
    /\ phase = "begin" /\ IsReplace /\ IsTerminalDiagram(asked.in)
    /\ result' = asked.in
    /\ phase' = "done"
    /\ UNCHANGED <<zdd, asked, bound, sweepVars, chainVars>>

Replaces == phase = "begin" /\ IsReplace /\ ~IsTerminalDiagram(asked.in)

RejectMap ==
    /\ Replaces /\ TypeOfMap = "Non_Monotone"
    /\ phase' = "failed"
    /\ UNCHANGED <<zdd, asked, bound, sweepVars, result, chainVars>>

KeepLevels ==
    /\ Replaces /\ TypeOfMap = "Identity"
    /\ result' = asked.in
    /\ phase' = "done"
    /\ UNCHANGED <<zdd, asked, bound, sweepVars, chainVars>>

(* __replace__shift_return: as much further as the root is to be moved.    *)
TopVar == LevelOf(First(asked.in).uid)
MovedVar == TopVar
ShiftLevels ==
    /\ Replaces /\ TypeOfMap = "Shift"
    /\ result' = [asked.in EXCEPT !.shift = @ + Renamed(MovedVar) - MovedVar]
    /\ phase' = "done"
    /\ UNCHANGED <<zdd, asked, bound, sweepVars, chainVars>>

(* __replace__monotonic_scan: the nodes and then the levels are copied in  *)
(* the order of the file; flags and 1-level cuts are taken from it, with   *)
(* the arcs to terminals for what they become by a negation.               *)
RenamedPtr(p) == IF IsNode(p) THEN p + Uid(Renamed(LevelOf(p)) - LevelOf(p), 0) ELSE p
RenamedNode(n) == Node(RenamedPtr(n.uid), RenamedPtr(n.low), RenamedPtr(n.high))

BottomUp(nodes) == SetToSortSeq(nodes, LAMBDA m, n : m.uid > n.uid)
CutsOfFile(d) == [k \in CutKinds |-> ReducedFile(d.nodes).cut1[k]]      \* (mutant)
CutsThrough(d) == [k \in CutKinds |-> ReducedFile(d.nodes).cut1[NegateCutKind(d, k)]]

CopyNodes(w) ==
    FoldLeft(UnsafePushNode, w, [i \in DOMAIN BottomUp(Read(asked.in)) |->
                                    RenamedNode(BottomUp(Read(asked.in))[i])])
CopyLevels(w) ==
    FoldLeft(LAMBDA x, l : UnsafePushLevel(x, Renamed(l), Cardinality(OnLevel(Read(asked.in), l))),
             w, Reverse(LevelsAscending(asked.in)))

ScanNodes ==
    /\ Replaces /\ TypeOfMap = "Monotone"
    /\ LET w == [nw EXCEPT !.file.sorted = SortedByChildren(asked.in.nodes),
                           !.file.indexable = Indexable(asked.in.nodes),
                           !.file.cut1 = CutsThrough(asked.in)]
       IN  nw' = Closed(CopyLevels(CopyNodes(w)))
    /\ result' = Written(FALSE)
    /\ phase' = "done"
    /\ UNCHANGED <<zdd, asked, bound, sweepVars, policy, given, tally>>

ReplaceNext == KeepTerminal \/ RejectMap \/ KeepLevels \/ ShiftLevels \/ ScanNodes

----------------------------------------------------------------------------
(* Reference: for a set of levels that a map does not reorder, the         *)
(* function with its arguments renamed.                                    *)
Replaced ==
    LET used == {LevelOf(n.uid) : n \in Read(asked.in)} \cap Level
        f == InputFunction(zdd)
    IN  IF zdd THEN {{Renamed(l) : l \in x} : x \in f}
        ELSE {x \in SUBSET Level : {l \in used : Renamed(l) \in x} \in f}
=============================================================================
