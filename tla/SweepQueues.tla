---------------------------- MODULE SweepQueues ----------------------------
(***************************************************************************)
(* The queues a sweep may be given, side by side.  Depending on the memory *)
(* a sweep needs it runs with the bucketed levelized priority queue, whose *)
(* levels come from a level merger, or with the one without buckets        *)
(* (every algorithm's execution policy).  A behaviour is one of the three  *)
(* at work, with the other two in their initial state.                     *)
(***************************************************************************)
EXTENDS LevelizedPQ, LevelMerger

VARIABLES
    given,      \* "bucketed", "unbucketed" or "merger"
    heap,       \* The elements in the queue without buckets
    heapLevel   \* Its current level

qvars == <<given, heap, heapLevel, vars, mvars>>

Unbucketed == INSTANCE UnbucketedPQ WITH queue <- heap, cur <- heapLevel

QueuesInit ==
    /\ given \in {"bucketed", "unbucketed", "merger"}
    /\ Init
    /\ Unbucketed!Init
    /\ Hook
    /\ given # "merger" => \A f \in Files : hooked[f] = <<>>

QueuesNext ==
    /\ UNCHANGED given
    /\ \/ given = "bucketed" /\ Next /\ UNCHANGED <<heap, heapLevel, mvars>>
       \/ given = "unbucketed" /\ Unbucketed!Next /\ UNCHANGED <<vars, mvars>>
       \/ given = "merger" /\ PullLevel /\ UNCHANGED <<vars, heap, heapLevel>>

(***************************************************************************)
(* A sweep drains its queue, whichever it was given (see Fairness of       *)
(* LevelizedPQ).                                                           *)
(***************************************************************************)
UnbucketedFairness ==
    /\ WF_<<heap, heapLevel>>(Unbucketed!Setup(NoLabel))
    /\ WF_<<heap, heapLevel>>(Unbucketed!Pull)

QueuesSpec ==
    /\ QueuesInit
    /\ [][QueuesNext]_qvars
    /\ Fairness
    /\ UnbucketedFairness

(***************************************************************************)
(* The queue without buckets keeps the same promise as the bucketed one,   *)
(* with every level known: a sweep may be run with either.                 *)
(***************************************************************************)
UnbucketedImplementsLevelizedQueue == Unbucketed!ImplementsLevelizedQueue

(***************************************************************************)
(* A sweep that keeps setting up levels and pulling drains either queue:   *)
(* no element waits forever for its level.                                 *)
(***************************************************************************)
EveryQueueDrains ==
    /\ EveryElementIsPulled
    /\ \A e \in Element : e \in heap ~> e \notin heap
=============================================================================
