---------------------------- MODULE UnbucketedPQ ----------------------------
(***************************************************************************)
(* The levelized priority queue without buckets (LookAhead = 0), used when *)
(* a sweep's input is small: one ordinary priority queue, and the current  *)
(* level is what keeps a sweep from pulling ahead.  Unlike the bucketed    *)
(* one it knows no level files, so every stop level becomes the current    *)
(* level, also one at which no file has a level.  Elements and stop levels *)
(* are those of LevelizedPQ, with its assumptions on them.                 *)
(***************************************************************************)
EXTENDS Integers, FiniteSets

CONSTANTS
    Element,        \* The elements that can be pushed
    StopLevels      \* The stop levels a sweep may give

NoLabel == -1

VARIABLES
    queue,  \* _priority_queue
    cur     \* _current_level

uvars == <<queue, cur>>

Less(e, f) == e.level < f.level \/ (e.level = f.level /\ e.key < f.key)
QueueTop == {e \in queue : \A f \in queue : ~Less(f, e)}

EmptyLevel == cur = NoLabel \/ \A e \in QueueTop : e.level # cur
HasNextLevel == queue # {} /\ \A e \in QueueTop : cur < e.level

Init ==
    /\ queue = {}
    /\ cur = NoLabel

\* A sweep only pushes ahead of the level it is at
Push(e) ==
    /\ e \notin queue
    /\ cur < e.level
    /\ queue' = queue \union {e}
    /\ UNCHANGED cur

Pull ==
    /\ ~EmptyLevel
    /\ \E e \in QueueTop : queue' = queue \ {e}
    /\ UNCHANGED cur

\* (mutant) compares with the last element instead of the first
StopComesBeforeSome(s) == s # NoLabel /\ (queue # {} => \E e \in queue : s <= e.level)

\* The two edge cases: the stop level is at or before the next element
StopComesFirst(s) ==
    s # NoLabel /\ \A e \in QueueTop : s <= e.level

Setup(s) ==
    /\ EmptyLevel
    /\ s # NoLabel \/ queue # {}
    /\ s # NoLabel => cur < s
    /\ \/ StopComesFirst(s) /\ cur' = s
       \/ ~StopComesFirst(s) /\ \E e \in QueueTop : cur' = e.level
    /\ UNCHANGED queue

Next ==
    \/ \E e \in Element : Push(e)
    \/ Pull
    \/ \E s \in StopLevels \union {NoLabel} : Setup(s)

Spec == Init /\ [][Next]_uvars

-----------------------------------------------------------------------------
AnyLevel == StopLevels \union {e.level : e \in Element}

Queue == INSTANCE LevelizedQueue
            WITH content <- queue, level <- cur, Known <- AnyLevel

(***************************************************************************)
(* The queue without buckets keeps the same promise as the bucketed one,   *)
(* with every level known: a sweep may be run with either.                 *)
(***************************************************************************)
ImplementsLevelizedQueue == Queue!AbsSpec

=============================================================================
