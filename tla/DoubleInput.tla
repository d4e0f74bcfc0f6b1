---------------------------- MODULE DoubleInput ----------------------------
(***************************************************************************)
(* What the sweeps over two or three diagrams have in common: Prod2, Pred  *)
(* and IfThenElse.  A request is for a tuple of pointers, one into each    *)
(* diagram; the requests of a level are answered in the order in which the *)
(* two diagrams, read once from top to bottom, get to their nodes.  Two    *)
(* nodes on the same level may not be at the head of both streams at once; *)
(* then the children of the first are carried to the second by a per-level *)
(* queue (data_types/request.h, tuple.h; internal/algorithms/prod2.h,      *)
(* pred.h).                                                                *)
(*                                                                         *)
(* A queue is the set of its requests, told apart by their sources.        *)
(***************************************************************************)
EXTENDS Handle, ArcFile

CONSTANT
    Jobs        \* Sets of what to compute: the operation, the kind of diagram, the handles,
                \* and the levels that are quantified after a product

VARIABLES
    asked,      \* The job
    algorithm,  \* The sweep that does it, or the one part of it under way
    in0, in1,   \* The two inputs, the second one random access, if any is
    access,     \* "ra" with random access, "pq" with two queues
    bound1,     \* max_pq_1_size
    bound2,     \* max_pq_2_size
    phase,      \* Where the sweep is
    pq1, pq2,   \* Requests across levels, and of this level with a carry
    label,      \* The current level
    v0, v1      \* The node at the head of either stream

inputVars == <<zdd, asked, algorithm, in0, in1, access, bound1, bound2>>
streamVars == <<pq1, pq2, label, v0, v1>>

NoLevel == -1

(* Proper inclusion is inclusion and inequality; the latter is the         *)
(* opposite of equality; a relational product starts with a product.       *)
FirstAlgorithm(name) ==
    CASE name = "subset" -> "subseteq" [] name = "unequal" -> "equal"
      [] name = "relprod" -> "apply" [] OTHER -> name

InputInit ==
    /\ \E family \in Jobs : asked \in family
    /\ algorithm = FirstAlgorithm(asked.name)
    /\ zdd = asked.zdd /\ in0 = asked.in0 /\ in1 = asked.in1
    /\ access = "none" /\ bound1 = 0 /\ bound2 = 0
    /\ phase = "begin"
    /\ pq1 = {} /\ pq2 = {}
    /\ label = NoLevel
    /\ v0 = Dummy /\ v1 = Dummy

----------------------------------------------------------------------------
(* Requests and the order of the queues.                                   *)
Request(t, source, carry) == [target |-> t, source |-> source, carry |-> carry]
NoCarry == <<Nil, Nil>>

(* The pointers of a target in ascending order, and the order of targets.  *)
FirstOf(t) == CHOOSE p \in Range(t) : \A q \in Range(t) : p <= q
LastOf(t) == CHOOSE p \in Range(t) : \A q \in Range(t) : q <= p
SecondOf(t) ==
    IF Len(t) = 2 THEN LastOf(t) ELSE t[1] + t[2] + t[3] - FirstOf(t) - LastOf(t)
RequestLevel(t) == LevelOf(FirstOf(t))

Before(t, u) == \E i \in DOMAIN t : t[i] < u[i] /\ \A j \in 1 .. i - 1 : t[j] = u[j]
FirstBefore(t, u) == FirstOf(t) < FirstOf(u) \/ (FirstOf(t) = FirstOf(u) /\ Before(t, u))
SecondBefore(t, u) == SecondOf(t) < SecondOf(u) \/ (SecondOf(t) = SecondOf(u) /\ Before(t, u))

AtLabel == {r \in pq1 : RequestLevel(r.target) = label}
Sooner(t, u) == IF access = "ra" THEN Before(t, u) ELSE FirstBefore(t, u)
Top1 == CHOOSE r \in AtLabel : \A s \in AtLabel : ~Sooner(s.target, r.target)
Top2 == CHOOSE r \in pq2 : \A s \in pq2 : ~SecondBefore(s.target, r.target)

With(requests, t) == {r \in requests : r.target = t}

IsNextLevel(l) ==
    /\ l \in {RequestLevel(r.target) : r \in pq1}
    /\ \A r \in pq1 : l <= RequestLevel(r.target)

----------------------------------------------------------------------------
(* Merging the two queues.                                                 *)
TakesFromFirstIfAny == AtLabel # {}                         \* (mutant)
TakesFromFirst ==
    /\ AtLabel # {}
    /\ pq2 = {} \/ FirstOf(Top1.target) < SecondOf(Top2.target)

NextRequest == IF TakesFromFirst THEN Top1 ELSE Top2
EmptyCarry(r) == r.carry = NoCarry

SeekTo(r) == IF EmptyCarry(r) THEN FirstOf(r.target) ELSE SecondOf(r.target)
SeekBoth(r) == v0' = Seek(in0, v0, SeekTo(r)) /\ v1' = Seek(in1, v1, SeekTo(r))

(* prod2_mixed_level_merger and prod2_same_level_merger: the children of   *)
(* both, those of a pointer on a level its diagram does not have being     *)
(* what the reduction rule suppressed.                                     *)
Suppressed(p) == IF zdd THEN <<p, Terminal(FALSE)>> ELSE <<p, p>>
Children(n) == <<n.low, n.high>>

SameLevel(t) == ~IsTerminal(t[1]) /\ ~IsTerminal(t[2]) /\ LevelOf(t[1]) = LevelOf(t[2])

Merge(r, i, v) ==
    LET t == r.target
    IN  CASE ~SameLevel(t) -> IF t[i] < t[3 - i] THEN Children(v) ELSE Suppressed(t[i])
          [] SameLevel(t) /\ t[i] < SeekTo(r) -> r.carry
          [] OTHER -> Children(v)

(* Only one of the two nodes is at the head of its stream.                 *)
Carries(r) ==
    /\ EmptyCarry(r)
    /\ SameLevel(r.target)
    /\ Seek(in0, v0, SeekTo(r)).uid # r.target[1] \/ Seek(in1, v1, SeekTo(r)).uid # r.target[2]

(* The children of the one at hand, once both streams are there.           *)
AtHand(t) == Children(IF t[1] = v0'.uid THEN v0' ELSE v1')
=============================================================================
