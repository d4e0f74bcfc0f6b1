---------------------------- MODULE LevelizedPQ ----------------------------
(***************************************************************************)
(* The bucketed levelized priority queue                                   *)
(* (internal/data_structures/levelized_priority_queue.h): a circular array *)
(* of buckets, one per upcoming level, each a sorter; a merged stream of   *)
(* the levels that have no bucket yet; and an overflow priority queue for  *)
(* elements pushed to a level that has no bucket.  The bucket at the front *)
(* is read-only: it is sorted and merged with the overflow queue.          *)
(*                                                                         *)
(* An element is a record with its level and its key; elements that the    *)
(* comparator cannot tell apart differ in a third field, so a set stands   *)
(* for a multiset.  The loop of forward_to_nonempty_bucket is one action   *)
(* per iteration; every other member function is one action.               *)
(***************************************************************************)
EXTENDS Integers, Sequences, FiniteSets

CONSTANTS
    Element,        \* The elements that can be pushed
    Stream,         \* The levels of the merged level files, in order
    StopLevels,     \* The stop levels a sweep may give; not only known levels
    LevelSkip,      \* How many of them are skipped at the start
    Buckets         \* Number of buckets: LookAhead + 1

NoLabel == -1
Out == -1

Idx == 0 .. Buckets - 1
KnownFrom(i) == {Stream[j] : j \in i .. Len(Stream)}
Known == KnownFrom(LevelSkip + 1)

ASSUME StreamAssumption ==
    /\ Stream \in Seq(Nat)
    /\ \A i, j \in 1 .. Len(Stream) : i < j => Stream[i] < Stream[j]

ASSUME ElementAssumption ==
    /\ \A e \in Element : e.level \in Known /\ e.key \in Nat
    /\ IsFiniteSet(Element)

ASSUME StopAssumption == StopLevels \subseteq Nat

ASSUME SizesAssumption ==
    /\ LevelSkip \in Nat
    /\ Buckets \in Nat /\ Buckets > 1

VARIABLES
    pos,        \* How many levels of Stream the level merger has delivered
    label,      \* _buckets_level
    bucket,     \* The elements each _buckets_sorter still has to deliver
    sorted,     \* Whether a sorter is sorted, i.e. read-only
    front,      \* _front_bucket_idx
    back,       \* _back_bucket_idx
    next,       \* _next_from_bucket: at most one element
    overflow,   \* _overflow_queue
    top,        \* _top_elem: at most one element
    size,       \* _size
    cur,        \* _current_level
    fwd,        \* Whether forward_to_nonempty_bucket is running
    stop        \* Its stop_level

vars == <<pos, label, bucket, sorted, front, back, next, overflow, top, size,
          cur, fwd, stop>>

-----------------------------------------------------------------------------
(* Helper operators                                                        *)

Lesser(a, b) == IF a < b THEN a ELSE b

\* The ring of buckets
Ahead(o) == (front + o) % Buckets
HasFront == front # Out
HasNext == front # back
NextLevel == label[Ahead(1)]

\* (mutant) loses one bucket when the ring wraps around
ActiveOffByOne ==
    IF front = Out THEN back + 1
    ELSE IF front <= back THEN (back - front) + 1
    ELSE (Buckets - front) + back

Active ==
    IF front = Out THEN back + 1
    ELSE IF front <= back THEN (back - front) + 1
    ELSE (Buckets - front) + back + 1

Pushable == Active - (IF HasFront THEN 1 ELSE 0)

\* (mutant) compares levels only
LessByLevelOnly(e, f) == e.level < f.level

\* The comparator on elements: by level, then by key
Less(e, f) == e.level < f.level \/ (e.level = f.level /\ e.key < f.key)
Least(S) == {e \in S : \A f \in S : ~Less(f, e)}
OverflowTop == {e.level : e \in Least(overflow)}

\* (mutant) forgets the overflow queue
EmptyLevelOfBucket == cur = NoLabel \/ (top = {} /\ next = {})

EmptyLevel ==
    \/ cur = NoLabel
    \/ top = {} /\ next = {} /\ cur \notin OverflowTop

Empty == size = 0 /\ top = {}

\* The elements the buckets and the overflow queue hold
InBuckets == UNION {bucket[i] : i \in Idx}
Stored == InBuckets \union next \union overflow

-----------------------------------------------------------------------------
(* Operations                                                              *)

\* (mutant) not bounded by the number of buckets
InitialBucketsUnbounded ==
    IF Len(Stream) < LevelSkip THEN 0 ELSE Len(Stream) - LevelSkip

InitialBuckets ==
    LET left == Len(Stream) - LevelSkip
    IN  IF left < 0 THEN 0 ELSE Lesser(left, Buckets)

Init ==
    /\ pos = Lesser(Len(Stream), LevelSkip + InitialBuckets)
    /\ label = [i \in Idx |-> IF i < InitialBuckets
                              THEN Stream[LevelSkip + i + 1] ELSE NoLabel]
    /\ bucket = [i \in Idx |-> {}]
    /\ sorted = [i \in Idx |-> FALSE]
    /\ front = Out
    /\ back = InitialBuckets - 1
    /\ next = {}
    /\ overflow = {}
    /\ top = {}
    /\ size = 0
    /\ cur = NoLabel
    /\ fwd = FALSE
    /\ stop = NoLabel

\* Offset of the first pushable bucket for level l
IsOffsetOf(o, l) ==
    /\ o \in 1 .. Pushable
    /\ label[Ahead(o)] = l
    /\ \A p \in 1 .. o - 1 : label[Ahead(p)] # l

Push(e) ==
    /\ ~fwd
    /\ e \notin Stored \union top
    /\ HasNext
    /\ NextLevel <= e.level
    /\ size' = size + 1
    /\ \/ \E o \in 1 .. Pushable :
            /\ IsOffsetOf(o, e.level)
            /\ bucket' = [bucket EXCEPT ![Ahead(o)] = @ \union {e}]
            /\ UNCHANGED overflow
       \/ /\ \A o \in 1 .. Pushable : label[Ahead(o)] # e.level
          /\ overflow' = overflow \union {e}
          /\ UNCHANGED bucket
    /\ UNCHANGED <<pos, label, sorted, front, back, next, top, cur, fwd, stop>>

\* The element removed by pull() from the bucket or the overflow queue
PullFromBucket(e) ==
    /\ next = {e}
    /\ \A f \in Least(overflow) : Less(e, f)
    /\ \/ /\ bucket[front] = {}
          /\ next' = {}
          /\ UNCHANGED bucket
       \/ \E f \in Least(bucket[front]) :
            /\ next' = {f}
            /\ bucket' = [bucket EXCEPT ![front] = @ \ {f}]
    /\ UNCHANGED overflow

PullFromOverflow(e) ==
    /\ e \in Least(overflow)
    /\ \A f \in next : ~Less(f, e)
    /\ overflow' = overflow \ {e}
    /\ UNCHANGED <<bucket, next>>

\* (mutant) forgets to count the element out
TakeOutUncounted(e) ==
    /\ size' = size
    /\ PullFromBucket(e) \/ PullFromOverflow(e)

TakeOut(e) ==
    /\ size' = size - 1
    /\ PullFromBucket(e) \/ PullFromOverflow(e)

Top ==
    /\ ~fwd
    /\ ~EmptyLevel
    /\ top = {}
    /\ \E e \in Element : TakeOut(e) /\ top' = {e}
    /\ UNCHANGED <<pos, label, sorted, front, back, cur, fwd, stop>>

PullCached ==
    /\ ~fwd
    /\ top # {}
    /\ ~EmptyLevel
    /\ top' = {}
    /\ UNCHANGED <<pos, label, bucket, sorted, front, back, next, overflow,
                   size, cur, fwd, stop>>

Pull ==
    /\ ~fwd
    /\ ~EmptyLevel
    /\ top = {}
    /\ \E e \in Element : TakeOut(e)
    /\ UNCHANGED <<pos, label, sorted, front, back, top, cur, fwd, stop>>
-----------------------------------------------------------------------------
(* setup_next_level                                                        *)

\* The given stop level s, or the level on top of the overflow queue if that
\* comes first
EffectiveStop(s) ==
    IF \E l \in OverflowTop : s = NoLabel \/ l < s
    THEN CHOOSE l \in OverflowTop : TRUE
    ELSE s

\* What the caller has to guarantee
MaySetup(s) ==
    /\ ~fwd
    /\ EmptyLevel
    /\ s # NoLabel \/ ~Empty
    /\ HasNext
    /\ s # NoLabel /\ HasFront => label[front] < s

StopsBeforeNext(s) == s # NoLabel /\ s < NextLevel

SetupStays(s) ==
    /\ MaySetup(s)
    /\ StopsBeforeNext(EffectiveStop(s))
    /\ UNCHANGED vars

\* relabel_buckets: the buckets up to the stop level are dropped, the others
\* move to the start of the array and the level merger fills what is left.
\* (mutant) takes no notice of the buckets
RelabelsAnyway == TRUE
BucketsAreEmpty == size + Cardinality(top) = Cardinality(overflow)

Skipped(s) == Cardinality({o \in 1 .. Pushable : label[Ahead(o)] <= s})
Passed(s) == Cardinality({i \in pos + 1 .. Len(Stream) : Stream[i] <= s})

\* Whether the read-only bucket is reused once the buckets 0 .. b are relabelled
\* (mutant) off by one
ResetsFrontBefore(b) == HasFront /\ front < b
ResetsFront(b) == HasFront /\ front <= b

SetupRelabels(s) ==
    LET st == EffectiveStop(s)
        kept == Pushable - Skipped(st)
        from == pos + Passed(st)
        filled == kept + Lesser(Buckets - kept, Len(Stream) - from)
    IN  /\ MaySetup(s)
        /\ ~StopsBeforeNext(st)
        /\ BucketsAreEmpty
        /\ cur' = IF Passed(st) > 0 THEN Stream[from]
                  ELSE IF Skipped(st) > 0 THEN label[Ahead(Skipped(st))]
                  ELSE cur
        /\ label' = [i \in Idx |->
                        IF i < kept THEN label[Ahead(Skipped(st) + i + 1)]
                        ELSE IF i < filled THEN Stream[from + i - kept + 1]
                        ELSE label[i]]
        /\ pos' = from + filled - kept
        /\ front' = Out
        /\ back' = filled - 1
        /\ IF ResetsFront(filled - 1)
           THEN /\ sorted' = [sorted EXCEPT ![front] = FALSE]
                /\ bucket' = [bucket EXCEPT ![front] = {}]
           ELSE UNCHANGED <<sorted, bucket>>
        /\ UNCHANGED <<next, overflow, top, size, fwd, stop>>

SetupForwards(s) ==
    /\ MaySetup(s)
    /\ ~StopsBeforeNext(EffectiveStop(s))
    /\ ~BucketsAreEmpty
    /\ fwd' = TRUE
    /\ stop' = EffectiveStop(s)
    /\ UNCHANGED <<pos, label, bucket, sorted, front, back, next, overflow,
                   top, size, cur>>

Setup(s) == SetupStays(s) \/ SetupRelabels(s) \/ SetupForwards(s)

-----------------------------------------------------------------------------
(* forward_to_nonempty_bucket                                              *)

ForwardStops ==
    /\ fwd
    /\ StopsBeforeNext(stop)
    /\ cur' = label[front]
    /\ fwd' = FALSE
    /\ stop' = NoLabel
    /\ UNCHANGED <<pos, label, bucket, sorted, front, back, next, overflow,
                   top, size>>

\* The read-only bucket becomes the last one, for the next level
Replaces == HasFront /\ pos < Len(Stream)

Forward ==
    LET n == Ahead(1)
        refilled == IF Replaces THEN [bucket EXCEPT ![front] = {}] ELSE bucket
    IN  /\ fwd
        /\ HasNext
        /\ ~StopsBeforeNext(stop)
        /\ IF Replaces
           THEN /\ label' = [label EXCEPT ![front] = Stream[pos + 1]]
                /\ pos' = pos + 1
                /\ back' = front
           ELSE UNCHANGED <<label, pos, back>>
        /\ front' = n
        /\ sorted' = [i \in Idx |-> IF i = n THEN TRUE
                                    ELSE IF Replaces /\ i = front THEN FALSE
                                    ELSE sorted[i]]
        /\ \/ /\ refilled[n] = {}
              /\ bucket' = refilled
              /\ next' = {}
           \/ \E e \in Least(refilled[n]) :
                /\ bucket' = [refilled EXCEPT ![n] = @ \ {e}]
                /\ next' = {e}
        /\ IF next' = {} /\ front' # back'
           THEN UNCHANGED <<cur, fwd, stop>>
           ELSE /\ cur' = label'[n]
                /\ fwd' = FALSE
                /\ stop' = NoLabel
        /\ UNCHANGED <<overflow, top, size>>

-----------------------------------------------------------------------------
Next ==
    \/ \E e \in Element : Push(e)
    \/ Top
    \/ PullCached
    \/ Pull
    \/ \E s \in StopLevels \union {NoLabel} : Setup(s)
    \/ ForwardStops
    \/ Forward

Spec == Init /\ [][Next]_vars

(***************************************************************************)
(* The sweeps drain their queue: as long as it is not empty they set up    *)
(* the next level, and they pull until the level is empty.                 *)
(***************************************************************************)
Fairness ==
    /\ WF_vars(Setup(NoLabel))
    /\ WF_vars(Pull \/ PullCached)
    /\ WF_vars(Forward \/ ForwardStops)

FairSpec == Spec /\ Fairness

-----------------------------------------------------------------------------
(* Properties                                                              *)

(***************************************************************************)
(* Every variable keeps its type: indices stay in the array (or "out"),    *)
(* at most one element is cached from the bucket and one by top().         *)
(***************************************************************************)
TypeOK ==
    /\ pos \in 0 .. Len(Stream)
    /\ label \in [Idx -> Nat \union {NoLabel}]
    /\ bucket \in [Idx -> SUBSET Element]
    /\ sorted \in [Idx -> BOOLEAN]
    /\ front \in Idx \union {Out}
    /\ back \in Idx \union {Out}
    /\ next \in {{}} \union {{e} : e \in Element}
    /\ overflow \in SUBSET Element
    /\ top \in {{}} \union {{e} : e \in Element}
    /\ size \in Nat
    /\ cur \in Nat \union {NoLabel}
    /\ fwd \in BOOLEAN
    /\ stop \in Nat \union {NoLabel}

(***************************************************************************)
(* _size counts exactly the elements in the buckets and the overflow       *)
(* queue, and no element is in two places.  setup_next_level decides on    *)
(* size() == _overflow_queue.size() that all buckets are empty and may be  *)
(* relabelled; were the count off, it would relabel buckets with elements. *)
(***************************************************************************)
SizeExact ==
    /\ size = Cardinality(Stored)
    /\ \A i, j \in Idx : i # j => bucket[i] \intersect bucket[j] = {}
    /\ InBuckets \intersect (next \union overflow) = {}
    /\ next \intersect overflow = {}
    /\ top \intersect Stored = {}

(***************************************************************************)
(* A bucket only holds elements of the level it is labelled with, and the  *)
(* element taken from it has the front bucket's level: relabelling and     *)
(* recycling a bucket never moves an element to another level.             *)
(***************************************************************************)
BucketsHoldTheirLevel ==
    /\ \A i \in Idx : \A e \in bucket[i] : e.level = label[i]
    /\ \A e \in next : HasFront /\ e.level = label[front]

(***************************************************************************)
(* The buckets ahead in the ring followed by the levels left in the merger *)
(* are the known levels past the current one, in order: across wrap-around,*)
(* recycling and relabelling no level is lost, repeated or out of order.   *)
(***************************************************************************)
RingCoversTheLevelsAhead ==
    LET ring == {label[Ahead(o)] : o \in 1 .. Pushable}
    IN  /\ \A o, p \in 1 .. Pushable : o < p => label[Ahead(o)] < label[Ahead(p)]
        /\ \A l \in ring, m \in KnownFrom(pos + 1) : l < m
        /\ ~fwd => ring \union KnownFrom(pos + 1) = {l \in Known : l > cur}

(***************************************************************************)
(* A bucket that can be pushed to has not been sorted yet (the assertion   *)
(* can_push in sorter::push and the one in sorter::sort).                  *)
(***************************************************************************)
PushableBucketsAreUnsorted ==
    \A o \in 1 .. Pushable : ~sorted[Ahead(o)]

Queue == INSTANCE LevelizedQueue
            WITH content <- Stored \union top, level <- cur

(***************************************************************************)
(* The bucketed queue implements the levelized queue: it neither loses nor *)
(* invents elements, and it delivers those of the current level in the     *)
(* order of their keys, merged from bucket, overflow queue and top() cache.*)
(***************************************************************************)
ImplementsLevelizedQueue == Queue!AbsSpec

(***************************************************************************)
(* A sweep that keeps setting up levels and pulling drains the queue: no   *)
(* element waits forever for its level.                                    *)
(***************************************************************************)
EveryElementIsPulled ==
    \A e \in Element : e \in Stored \union top ~> e \notin Stored \union top
=============================================================================
