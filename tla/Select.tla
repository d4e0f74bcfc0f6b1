------------------------------- MODULE Select -------------------------------
(***************************************************************************)
(* The levels of a diagram that are given a value are removed, and the     *)
(* arcs into their nodes go on to one of the children                      *)
(* (internal/algorithms/select.h): bdd_restrict (bdd/restrict.cpp),        *)
(* zdd_offset and zdd_onset (zdd/subset.cpp).                              *)
(***************************************************************************)
EXTENDS SingleInput

VARIABLES
    matched,    \* l_match: some level of the input was among the labels
    changed     \* output_changes: the output is not simply the input

selectVars == <<matched, changed>>

Selections == {"restrict", "offset", "onset"}
IsSelection == asked.op \in Selections

(* Cases that need no sweep.                                               *)
Trivial ==
    CASE asked.op = "restrict" ->
            IF asked.labels = <<>> \/ IsTerminalDiagram(asked.in) THEN asked.in ELSE NoHandle
      [] asked.op = "offset" ->
            IF IsTerminalDiagram(asked.in) \/ asked.labels = <<>> THEN asked.in ELSE NoHandle
      [] asked.op = "onset" ->
            CASE IsTerminalDiagram(asked.in) /\ (~ValueOf(asked.in) \/ asked.labels = <<>>) -> asked.in
              [] ~IsTerminalDiagram(asked.in) /\ asked.labels = <<>> -> asked.in
              [] IsTerminalDiagram(asked.in) /\ ValueOf(asked.in) /\ asked.labels # <<>> ->
                     TerminalHandle(FALSE)
              [] OTHER -> NoHandle

SelectTrivially ==
    /\ phase = "begin" /\ IsSelection /\ Trivial # NoHandle
    /\ result' = Trivial
    /\ phase' = "done"
    /\ UNCHANGED <<zdd, asked, bound, sweepVars, selectVars>>

----------------------------------------------------------------------------
SelectBound == ReducedFile(asked.in.nodes).cut2["Internal"] + 2

BeginSelect ==
    /\ phase = "begin" /\ IsSelection /\ Trivial = NoHandle
    /\ bound' = SelectBound
    /\ v' = First(asked.in)
    /\ pq' = {Request(Nil, v'.uid, LevelOf(v'.uid))}
    /\ aw' = [aw EXCEPT !.file.cut1 = 0]
    /\ phase' = "level"
    /\ UNCHANGED <<zdd, asked, label, outId, labels, result, selectVars>>

(* The labels above the new level are dropped.                             *)
LabelsFrom(l) == SelectSeq(labels, LAMBDA x : x >= l)
Matches(remaining, l) == remaining # <<>> /\ Head(remaining) = l

SelectNextLevel ==
    /\ phase = "level" /\ IsSelection /\ pq # {}
    /\ label' \in {r.level : r \in pq}
    /\ \A r \in pq : label' <= r.level
    /\ outId' = 0
    /\ labels' = LabelsFrom(label')
    /\ matched' = (matched \/ Matches(labels', label'))
    /\ aw' = [aw EXCEPT !.file.cut1 = CutUpToLevel(@)]
    /\ phase' = "requests"
    /\ UNCHANGED <<zdd, asked, bound, pq, v, result, changed>>

----------------------------------------------------------------------------
(* What the policies make of a node: it is skipped, or it is output with   *)
(* other children.                                                         *)
Fixed == Matches(labels, label)
HasLabelAhead == labels # <<>> /\ (label < Head(labels) \/ Len(labels) > 1)
LabelAhead == IF label < Head(labels) THEN Head(labels) ELSE labels[2]

Passes(p, l) == IsTerminal(p) \/ LevelOf(p) > l

(* A set of the onset needs every label: it is lost once an arc passes one *)
(* on its way, and on a label only the high child goes on.                 *)
OnsetLow(n) ==
    IF labels # <<>> /\ (Fixed \/ Passes(n.low, Head(labels))) THEN Terminal(FALSE) ELSE n.low
LosesHigh(n) == HasLabelAhead /\ Passes(n.high, LabelAhead)

Skips(n) == IF asked.op = "onset" THEN LosesHigh(n) ELSE Fixed
SkipTo(n) ==
    CASE asked.op = "restrict" -> IF asked.values[label] THEN n.high ELSE n.low
      [] asked.op = "offset" -> n.low
      [] asked.op = "onset" -> OnsetLow(n)
Kept(n) == IF asked.op = "onset" THEN [n EXCEPT !.low = OnsetLow(n)] ELSE n

RecurseOut(w, source, target) ==
    IF IsTerminal(target) THEN PushTerminal(w, Arc(source, target)) ELSE w
Forwarded(source, target) ==
    IF IsTerminal(target) THEN {} ELSE {Request(source, target, LevelOf(target))}

OutputNode(t, n) ==
    /\ aw' = PushAllInternal(RecurseOut(RecurseOut(aw, n.uid, n.low), n.uid + OutBit, n.high),
                             ArcsIn(t), n.uid)
    /\ pq' = (pq \ With(t)) \cup Forwarded(n.uid, n.low) \cup Forwarded(n.uid + OutBit, n.high)
    /\ outId' = outId + 1
    /\ UNCHANGED <<phase, result>>

(* A terminal below the root ends the sweep; and what the sweep of a ZDD   *)
(* computed is dropped if no label was met.                                *)
TerminalOfPolicy(b) ==
    IF asked.op = "onset" THEN ~HasLabelAhead /\ b ELSE b
IfMatched(d) ==
    CASE asked.op = "offset" /\ ~matched -> asked.in
      [] asked.op = "onset" /\ ~matched -> TerminalHandle(FALSE)
      [] OTHER -> d

Bridge(t, p) ==
    /\ IF IsTerminal(p) /\ \E r \in With(t) : IsRoot(r.source)
       THEN /\ result' = IfMatched(TerminalHandle(TerminalOfPolicy(Value(p))))
            /\ phase' = "done"
            /\ UNCHANGED aw
       ELSE /\ aw' = IF IsTerminal(p) THEN PushAllTerminal(aw, Sources(t), p) ELSE aw
            /\ UNCHANGED <<phase, result>>
    /\ pq' = (pq \ With(t)) \cup UNION {Forwarded(r.source, p) : r \in With(t)}
    /\ UNCHANGED outId

SelectNode ==
    /\ phase = "requests" /\ IsSelection /\ AtLevel # {}
    /\ LET t == Top.target
       IN  /\ v' = Seek(asked.in, v, t)
           /\ IF Skips(v') THEN Bridge(t, SkipTo(v')) ELSE OutputNode(t, Kept(v'))
           /\ changed' = (changed \/ Skips(v') \/ Kept(v') # v')
    /\ UNCHANGED <<zdd, asked, bound, label, labels, matched>>

(* Reduce is skipped if nothing changed.                                   *)
FinishSelect ==
    /\ phase = "level" /\ IsSelection /\ pq = {}
    /\ CloseOutput
    /\ result' = IfMatched(IF changed THEN NoHandle ELSE asked.in)
    /\ phase' = "done"
    /\ UNCHANGED <<zdd, asked, bound, pq, label, outId, v, labels, selectVars>>

SelectInit == matched = FALSE /\ changed = FALSE
SelectNext ==
    SelectTrivially \/ BeginSelect \/ SelectNextLevel \/ SelectNode \/ FinishSelect

----------------------------------------------------------------------------
(* Reference: the sets that are left, with the labels taken out by         *)
(* bdd_restrict only.                                                      *)
Selected ==
    LET f == InputFunction(zdd)
    IN  CASE asked.op = "restrict" ->
                LET trues == {l \in LabelSet : asked.values[l]}
                IN  {x \in SUBSET Level : ((x \ LabelSet) \cup trues) \in f}
          [] asked.op = "offset" -> {x \in f : x \cap LabelSet = {}}
          [] asked.op = "onset" -> {x \in f : LabelSet \subseteq x}
=============================================================================
