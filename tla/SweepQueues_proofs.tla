------------------------- MODULE SweepQueues_proofs -------------------------
(***************************************************************************)
(* Proofs about the queues a sweep may be given, for every number of       *)
(* buckets, every stream of levels and every finite set of elements: the   *)
(* bucketed queue counts what it holds, keeps its ring in order and        *)
(* implements the levelized queue, so does the queue without buckets, and  *)
(* the level merger delivers the union of its files' levels in order.      *)
(***************************************************************************)
EXTENDS SweepQueues, FiniteSetTheorems, WellFoundedInduction, TLAPS

-----------------------------------------------------------------------------
(* The bucketed levelized priority queue                                   *)

(* Stepping around the ring stays in the array.                            *)
LEMMA ModRange ==
    ASSUME NEW a \in Nat, NEW b \in Nat, b > 0
    PROVE  a % b \in 0 .. b - 1
  OBVIOUS

(* Fewer than b steps around a ring of size b do not return to the start.  *)
LEMMA ModMoves ==
    ASSUME NEW b \in Nat, NEW f \in 0 .. b - 1, NEW o \in 1 .. b - 1
    PROVE  (f + o) % b # f
<1>1. CASE f + o < b
  <2>1. (f + o) % b = f + o
    BY <1>1
  <2> QED BY <2>1
<1>2. CASE f + o >= b
  <2>1. (f + o) % b = f + o - b
    BY <1>2
  <2> QED BY <2>1
<1> QED BY <1>1, <1>2

-----------------------------------------------------------------------------
(* The inductive invariant.  The three checked invariants are not enough:  *)
(* recycling the front bucket loses no element because it is empty before  *)
(* the queue moves on, and relabelling loses none because, when the count  *)
(* says so, all buckets really are empty.                                  *)

(* Without any bucket left there is no front bucket either.                *)
OutTogether == back = Out => front = Out

(* The element taken from the bucket is of the current level.              *)
NextIsCurrent == next # {} => ~fwd /\ HasFront /\ cur = label[front]

(* A front bucket with nothing taken from it has nothing left.             *)
FrontIsSpent == HasFront /\ next = {} => bucket[front] = {}

(* The stop level never ends the loop before its first iteration.          *)
ForwardsAtLeastOnce == fwd /\ StopsBeforeNext(stop) => HasFront

IInv ==
    /\ TypeOK
    /\ SizeExact
    /\ BucketsHoldTheirLevel
    /\ OutTogether
    /\ NextIsCurrent
    /\ FrontIsSpent
    /\ ForwardsAtLeastOnce

-----------------------------------------------------------------------------
(* Lemmas about the ring                                                   *)

(* While there is a next bucket, there are as many pushable ones as fit    *)
(* beside the front bucket.                                                *)
LEMMA PushableRange ==
    ASSUME TypeOK, OutTogether, HasNext
    PROVE  /\ Pushable \in 1 .. Buckets
           /\ HasFront => Pushable \in 1 .. Buckets - 1
  BY SizesAssumption DEF TypeOK, OutTogether, HasNext, HasFront, Pushable, Active, Idx, Out

LEMMA AheadInRing ==
    ASSUME TypeOK, NEW o \in Nat \ {0}
    PROVE  Ahead(o) \in Idx
<1>1. front + o \in Nat
  BY SizesAssumption DEF TypeOK, Idx, Out
<1> QED BY <1>1, ModRange, SizesAssumption DEF Ahead, Idx

LEMMA AheadIsNotFront ==
    ASSUME TypeOK, HasFront, NEW o \in 1 .. Buckets - 1
    PROVE  Ahead(o) # front
  BY ModMoves, SizesAssumption DEF TypeOK, HasFront, Ahead, Idx, Out

(* An element's level is a number.                                         *)
LEMMA LevelsAreNat == \A e \in Element : e.level \in Nat
<1>1. Known \subseteq Nat
  BY StreamAssumption, SizesAssumption DEF Known, KnownFrom
<1> QED BY <1>1, ElementAssumption

(* The elements in the queue are finitely many.                            *)
LEMMA StoredFinite ==
    ASSUME TypeOK
    PROVE  IsFiniteSet(Stored) /\ IsFiniteSet(overflow) /\ IsFiniteSet(top)
<1>1. Stored \subseteq Element /\ overflow \subseteq Element /\ top \subseteq Element
  BY DEF TypeOK, Stored, InBuckets
<1> QED BY <1>1, FS_Subset, ElementAssumption

(* When the sizes agree, the buckets hold nothing.                         *)
LEMMA SizesAgree ==
    ASSUME TypeOK, SizeExact, BucketsAreEmpty
    PROVE  next = {} /\ \A i \in Idx : bucket[i] = {}
<1>1. overflow \subseteq Stored
  BY DEF Stored
<1>2. Cardinality(Stored) + Cardinality(top) = Cardinality(overflow)
  BY DEF SizeExact, BucketsAreEmpty
<1>3. /\ Cardinality(Stored) \in Nat
      /\ Cardinality(top) \in Nat
      /\ Cardinality(overflow) \in Nat
  BY StoredFinite, FS_CardinalityType
<1>4. Cardinality(overflow) = Cardinality(Stored)
  <2>1. Cardinality(overflow) <= Cardinality(Stored)
    BY <1>1, StoredFinite, FS_Subset
  <2> QED BY <2>1, <1>2, <1>3
<1>5. overflow = Stored
  BY <1>1, <1>4, StoredFinite, FS_Subset
<1> QED BY <1>5 DEF SizeExact, Stored, InBuckets

-----------------------------------------------------------------------------
(* Each operation preserves the invariant                                  *)

LEMMA InitEstablishes == Init => IInv
<1> SUFFICES ASSUME Init PROVE IInv
  OBVIOUS
<1> USE StreamAssumption, SizesAssumption
<1>1. InitialBuckets + LevelSkip <= Len(Stream) \/ InitialBuckets = 0
  BY DEF InitialBuckets, Lesser
<1>2. InitialBuckets \in 0 .. Buckets
  BY DEF InitialBuckets, Lesser
<1>3. TypeOK
  <2>1. pos \in 0 .. Len(Stream)
    BY <1>1, <1>2 DEF Init, Lesser
  <2>2. label \in [Idx -> Nat \union {NoLabel}]
    <3>1. \A i \in Idx : i < InitialBuckets => Stream[LevelSkip + i + 1] \in Nat
      BY <1>1, <1>2 DEF Idx
    <3> QED BY <3>1 DEF Init
  <2>3. sorted \in [Idx -> BOOLEAN] /\ bucket \in [Idx -> SUBSET Element]
    BY DEF Init
  <2>4. front \in Idx \union {Out} /\ back \in Idx \union {Out}
    BY <1>2 DEF Init, Idx, Out
  <2> QED BY <2>1, <2>2, <2>3, <2>4 DEF Init, TypeOK
<1>4. SizeExact
  <2>1. Stored = {} /\ InBuckets = {}
    BY DEF Init, Stored, InBuckets
  <2> QED BY <2>1, FS_EmptySet DEF Init, SizeExact
<1> QED BY <1>3, <1>4 DEF Init, IInv, BucketsHoldTheirLevel, OutTogether,
                          NextIsCurrent, FrontIsSpent, HasFront,
                          ForwardsAtLeastOnce

LEMMA PushPreserves ==
    ASSUME IInv, NEW e \in Element, Push(e)
    PROVE  IInv'
<1> USE DEF IInv
<1>1. PICK i \in Idx :
        \/ /\ bucket' = [bucket EXCEPT ![i] = @ \union {e}]
           /\ label[i] = e.level
           /\ HasFront => i # front
           /\ overflow' = overflow
        \/ bucket' = bucket /\ overflow' = overflow \union {e}
  <2>1. CASE \E o \in 1 .. Pushable :
                /\ IsOffsetOf(o, e.level)
                /\ bucket' = [bucket EXCEPT ![Ahead(o)] = @ \union {e}]
                /\ UNCHANGED overflow
    <3>1. PICK o \in 1 .. Pushable :
                /\ IsOffsetOf(o, e.level)
                /\ bucket' = [bucket EXCEPT ![Ahead(o)] = @ \union {e}]
                /\ UNCHANGED overflow
      BY <2>1
    <3>2. o \in 1 .. Buckets /\ (HasFront => o \in 1 .. Buckets - 1)
      BY PushableRange, SizesAssumption DEF Push
    <3>3. Ahead(o) \in Idx /\ (HasFront => Ahead(o) # front)
      BY <3>2, AheadInRing, AheadIsNotFront
    <3> QED BY <3>1, <3>3 DEF IsOffsetOf
  <2>2. CASE overflow' = overflow \union {e} /\ UNCHANGED bucket
    BY <2>2, SizesAssumption DEF Idx
  <2> QED BY <2>1, <2>2 DEF Push
<1>2. /\ InBuckets' \in {InBuckets, InBuckets \union {e}}
      /\ Stored' = Stored \union {e}
      /\ e \notin Stored /\ e \notin top
  <2>1. /\ \/ InBuckets' = InBuckets \union {e} /\ overflow' = overflow
           \/ InBuckets' = InBuckets /\ overflow' = overflow \union {e}
    BY <1>1 DEF InBuckets, TypeOK
  <2> QED BY <2>1 DEF Push, Stored
<1>3. TypeOK'
  BY <1>1 DEF TypeOK, Push
<1>4. SizeExact'
  <2>1. size' = Cardinality(Stored')
    BY <1>2, StoredFinite, FS_AddElement DEF SizeExact, Push
  <2>2. (\A k, j \in Idx : k # j => bucket[k] \intersect bucket[j] = {})'
    BY <1>1, <1>2 DEF SizeExact, TypeOK, Stored, InBuckets, Push
  <2>3. (InBuckets \intersect (next \union overflow) = {})'
    BY <1>1, <1>2 DEF SizeExact, TypeOK, Stored, InBuckets, Push
  <2>4. (next \intersect overflow = {})' /\ (top \intersect Stored = {})'
    BY <1>1, <1>2 DEF SizeExact, Stored, Push
  <2> QED BY <2>1, <2>2, <2>3, <2>4 DEF SizeExact
<1>5. BucketsHoldTheirLevel'
  BY <1>1 DEF BucketsHoldTheirLevel, TypeOK, Push, HasFront
<1>6. FrontIsSpent'
  BY <1>1 DEF FrontIsSpent, TypeOK, Push, HasFront
<1>7. OutTogether' /\ NextIsCurrent' /\ ForwardsAtLeastOnce'
  BY DEF OutTogether, NextIsCurrent, Push, HasFront, ForwardsAtLeastOnce
<1> QED BY <1>3, <1>4, <1>5, <1>6, <1>7

(* Counting one element out keeps the count exact.                         *)
LEMMA CountOut ==
    ASSUME TypeOK, SizeExact, NEW e \in Stored, NEW n, NEW S,
           n = size - 1, S = Stored \ {e}
    PROVE  n = Cardinality(S) /\ n \in Nat
<1>1. IsFiniteSet(S) /\ Cardinality(S) = Cardinality(Stored) - 1
  BY StoredFinite, FS_RemoveElement
<1>2. Cardinality(S) \in Nat
  BY <1>1, FS_CardinalityType
<1> QED BY <1>1, <1>2 DEF SizeExact

(* What taking an element out does to the places it may be in.             *)
LEMMA TakeOutPreserves ==
    ASSUME IInv, NEW e \in Element, TakeOut(e)
    PROVE  /\ e \in Stored
           /\ Stored' = Stored \ {e}
           /\ size' = Cardinality(Stored')
           /\ size' \in Nat
           /\ bucket' \in [Idx -> SUBSET Element]
           /\ next' \in {{}} \union {{f} : f \in Element}
           /\ next' # {} => next # {}
           /\ overflow' \in SUBSET Element
           /\ \A i, j \in Idx : i # j => bucket'[i] \intersect bucket'[j] = {}
           /\ InBuckets' \intersect (next' \union overflow') = {}
           /\ next' \intersect overflow' = {}
           /\ \A i \in Idx : bucket'[i] \subseteq bucket[i]
           /\ next' \subseteq next \/ (HasFront /\ next' \subseteq bucket[front])
           /\ HasFront /\ next' = {} => bucket'[front] = {}
<1> USE DEF IInv
<1>1. CASE PullFromBucket(e)
  <2>1. next = {e} /\ HasFront /\ front \in Idx /\ overflow' = overflow
    BY <1>1 DEF PullFromBucket, NextIsCurrent, TypeOK, HasFront
  <2>2. CASE bucket[front] = {} /\ next' = {} /\ UNCHANGED bucket
    <3>1. /\ Stored' = Stored \ {e} /\ InBuckets' = InBuckets /\ e \in Stored
      BY <2>1, <2>2 DEF Stored, InBuckets, SizeExact
    <3>2. size' = Cardinality(Stored') /\ size' \in Nat
      BY <3>1, CountOut DEF TakeOut
    <3> QED BY <3>1, <3>2, <2>1, <2>2 DEF TypeOK, SizeExact
  <2>3. ASSUME NEW f \in Least(bucket[front]),
               next' = {f}, bucket' = [bucket EXCEPT ![front] = @ \ {f}]
        PROVE  /\ e \in Stored
               /\ Stored' = Stored \ {e}
               /\ InBuckets' = InBuckets \ {f}
               /\ f \in bucket[front]
               /\ f \in Element
    <3>1. f \in bucket[front] /\ f \in Element
      BY <2>1, <2>3 DEF Least, TypeOK
    <3>2. InBuckets' = InBuckets \ {f}
      BY <3>1, <2>1, <2>3 DEF TypeOK, SizeExact, InBuckets
    <3>3. f \in InBuckets /\ e \notin InBuckets /\ e \notin overflow
      BY <3>1, <2>1 DEF InBuckets, SizeExact
    <3> QED BY <3>1, <3>2, <3>3, <2>1, <2>3 DEF Stored
  <2>4. ASSUME NEW f \in Least(bucket[front]),
               next' = {f}, bucket' = [bucket EXCEPT ![front] = @ \ {f}]
        PROVE  /\ size' = Cardinality(Stored')
               /\ size' \in Nat
               /\ bucket' \in [Idx -> SUBSET Element]
               /\ \A i, j \in Idx : i # j => bucket'[i] \intersect bucket'[j] = {}
               /\ InBuckets' \intersect (next' \union overflow') = {}
               /\ next' \intersect overflow' = {}
               /\ \A i \in Idx : bucket'[i] \subseteq bucket[i]
    <3>1. size' = Cardinality(Stored') /\ size' \in Nat
      BY <2>3, <2>4, CountOut DEF TakeOut
    <3>2. f \in InBuckets
      BY <2>1, <2>3, <2>4 DEF InBuckets
    <3>3. bucket' \in [Idx -> SUBSET Element] /\ \A i \in Idx : bucket'[i] \subseteq bucket[i]
      <4>1. bucket \in [Idx -> SUBSET Element]
        BY DEF TypeOK
      <4> QED BY <2>1, <2>4, <4>1
    <3>4. \A i, j \in Idx : i # j => bucket[i] \intersect bucket[j] = {}
      BY DEF SizeExact
    <3>5. \A i, j \in Idx : i # j => bucket'[i] \intersect bucket'[j] = {}
      BY <3>3, <3>4
    <3>6. InBuckets' \intersect (next' \union overflow') = {} /\ next' \intersect overflow' = {}
      <4>1. InBuckets \intersect overflow = {}
        BY DEF SizeExact
      <4> QED BY <2>1, <2>3, <2>4, <3>2, <4>1
    <3> QED BY <3>1, <3>3, <3>5, <3>6
  <2> QED BY <1>1, <2>1, <2>2, <2>3, <2>4, SMTT(30) DEF PullFromBucket, TypeOK
<1>2. CASE PullFromOverflow(e)
  <2>1. e \in overflow /\ overflow' = overflow \ {e} /\ bucket' = bucket /\ next' = next
    BY <1>2 DEF PullFromOverflow, Least
  <2>2. Stored' = Stored \ {e} /\ InBuckets' = InBuckets /\ e \in Stored
    BY <2>1 DEF Stored, InBuckets, SizeExact
  <2>3. size' = Cardinality(Stored') /\ size' \in Nat
    BY <2>2, CountOut DEF TakeOut
  <2> QED BY <2>1, <2>2, <2>3 DEF TypeOK, SizeExact, FrontIsSpent
<1> QED BY <1>1, <1>2 DEF TakeOut

LEMMA TopPreserves == IInv /\ Top => IInv'
<1> SUFFICES ASSUME IInv, Top PROVE IInv'
  OBVIOUS
<1> USE DEF IInv
<1>1. PICK e \in Element : TakeOut(e) /\ top' = {e}
  BY DEF Top
<1>2. TypeOK'
  BY <1>1, TakeOutPreserves DEF TypeOK, Top
<1>3. SizeExact'
  BY <1>1, TakeOutPreserves DEF SizeExact, Top
<1>4. BucketsHoldTheirLevel'
  BY <1>1, TakeOutPreserves DEF BucketsHoldTheirLevel, Top, HasFront, TypeOK
<1>5. OutTogether' /\ NextIsCurrent' /\ ForwardsAtLeastOnce'
  BY <1>1, TakeOutPreserves DEF OutTogether, NextIsCurrent, Top, HasFront,
                                ForwardsAtLeastOnce
<1>6. FrontIsSpent'
  BY <1>1, TakeOutPreserves DEF FrontIsSpent, Top, HasFront
<1> QED BY <1>2, <1>3, <1>4, <1>5, <1>6

LEMMA PullPreserves == IInv /\ Pull => IInv'
<1> SUFFICES ASSUME IInv, Pull PROVE IInv'
  OBVIOUS
<1> USE DEF IInv
<1>1. PICK e \in Element : TakeOut(e)
  BY DEF Pull
<1>2. TypeOK'
  BY <1>1, TakeOutPreserves DEF TypeOK, Pull
<1>3. SizeExact'
  BY <1>1, TakeOutPreserves DEF SizeExact, Pull
<1>4. BucketsHoldTheirLevel'
  BY <1>1, TakeOutPreserves DEF BucketsHoldTheirLevel, Pull, HasFront, TypeOK
<1>5. OutTogether' /\ NextIsCurrent' /\ ForwardsAtLeastOnce'
  BY <1>1, TakeOutPreserves DEF OutTogether, NextIsCurrent, Pull, HasFront,
                                ForwardsAtLeastOnce
<1>6. FrontIsSpent'
  BY <1>1, TakeOutPreserves DEF FrontIsSpent, Pull, HasFront
<1> QED BY <1>2, <1>3, <1>4, <1>5, <1>6

LEMMA PullCachedPreserves == IInv /\ PullCached => IInv'
  BY DEF IInv, PullCached, TypeOK, SizeExact, BucketsHoldTheirLevel, OutTogether,
         NextIsCurrent, FrontIsSpent, HasFront, Stored, InBuckets, ForwardsAtLeastOnce

(* Relabelling happens only with empty buckets, so their labels may change.*)
LEMMA RelabelPreserves ==
    ASSUME IInv, NEW s \in StopLevels \union {NoLabel}, SetupRelabels(s)
    PROVE  IInv'
<1> USE DEF IInv
<1> DEFINE st == EffectiveStop(s)
           kept == Pushable - Skipped(st)
           from == pos + Passed(st)
           filled == kept + Lesser(Buckets - kept, Len(Stream) - from)
<1>1. Pushable \in 1 .. Buckets
  BY PushableRange DEF SetupRelabels, MaySetup
<1>2. Skipped(st) \in 0 .. Pushable
  <2>1. /\ IsFiniteSet(1 .. Pushable)
        /\ Cardinality(1 .. Pushable) = Pushable
    BY <1>1, FS_Interval
  <2>2. {o \in 1 .. Pushable : label[Ahead(o)] <= st} \in SUBSET (1 .. Pushable)
    OBVIOUS
  <2>3. Skipped(st) \in Nat /\ Skipped(st) <= Cardinality(1 .. Pushable)
    BY <2>1, <2>2, FS_Subset, FS_CardinalityType DEF Skipped
  <2> QED BY <2>1, <2>3
<1>3. Passed(st) \in 0 .. Len(Stream) - pos
  <2>1. pos \in Int /\ pos + 1 \in Int /\ Len(Stream) \in Int /\ pos <= Len(Stream)
    BY StreamAssumption DEF TypeOK
  <2>2. /\ IsFiniteSet(pos + 1 .. Len(Stream))
        /\ Cardinality(pos + 1 .. Len(Stream)) = Len(Stream) - pos
    <3>1. ASSUME NEW a \in Int, NEW b \in Int, a <= b
          PROVE  IsFiniteSet(a + 1 .. b) /\ Cardinality(a + 1 .. b) = b - a
      <4>1. a + 1 \in Int /\ (IF a + 1 > b THEN 0 ELSE b - (a + 1) + 1) = b - a
        BY <3>1
      <4> QED BY <4>1, FS_Interval
    <3> QED BY <2>1, <3>1
  <2>3. {i \in pos + 1 .. Len(Stream) : Stream[i] <= st} \in SUBSET (pos + 1 .. Len(Stream))
    OBVIOUS
  <2>4. Passed(st) \in Nat /\ Passed(st) <= Cardinality(pos + 1 .. Len(Stream))
    BY <2>2, <2>3, FS_Subset, FS_CardinalityType DEF Passed
  <2> QED BY <2>1, <2>2, <2>4
<1>4. kept \in 0 .. Buckets /\ from \in 0 .. Len(Stream) /\ from >= pos
  BY <1>1, <1>2, <1>3, StreamAssumption, SizesAssumption DEF TypeOK
<1>5. filled \in kept .. Buckets /\ from + filled - kept \in 0 .. Len(Stream)
  BY <1>4, StreamAssumption, SizesAssumption DEF Lesser
<1>6. label' \in [Idx -> Nat \union {NoLabel}]
  <2> SUFFICES ASSUME NEW i \in Idx
               PROVE  label'[i] \in Nat \union {NoLabel}
    BY DEF SetupRelabels
  <2>1. CASE i < kept
    <3>1. Skipped(st) + i + 1 \in Nat \ {0}
      BY <1>2 DEF Idx
    <3> HIDE DEF st, kept, from, filled
    <3> QED BY <2>1, <3>1, AheadInRing DEF SetupRelabels, TypeOK, st, kept
  <2>2. CASE ~(i < kept) /\ i < filled
    <3>1. from + i - kept + 1 \in 1 .. Len(Stream)
      BY <1>4, <1>5, <2>2 DEF Idx
    <3> QED BY <2>2, <3>1, StreamAssumption DEF SetupRelabels
  <2>3. CASE ~(i < kept) /\ ~(i < filled)
    BY <2>3 DEF SetupRelabels, TypeOK
  <2> QED BY <2>1, <2>2, <2>3
<1>7. cur' \in Nat \union {NoLabel}
  <2>1. CASE Passed(st) > 0
    <3>1. from \in 1 .. Len(Stream)
      BY <2>1, <1>3, <1>4 DEF TypeOK
    <3> QED BY <2>1, <3>1, StreamAssumption DEF SetupRelabels
  <2>2. CASE ~(Passed(st) > 0) /\ Skipped(st) > 0
    <3>1. Ahead(Skipped(st)) \in Idx
      BY <1>2, <2>2, AheadInRing
    <3> QED BY <2>2, <3>1 DEF SetupRelabels, TypeOK
  <2>3. CASE ~(Passed(st) > 0) /\ ~(Skipped(st) > 0)
    BY <2>3 DEF SetupRelabels, TypeOK
  <2> QED BY <2>1, <2>2, <2>3
<1>8. next = {} /\ \A i \in Idx : bucket[i] = {}
  BY SizesAgree DEF SetupRelabels
<1>9. bucket' = bucket
  BY <1>8 DEF SetupRelabels, TypeOK
<1>10. sorted' \in [Idx -> BOOLEAN]
  BY DEF SetupRelabels, TypeOK
<1>11. /\ front' \in Idx \union {Out}
       /\ back' \in Idx \union {Out}
       /\ pos' \in 0 .. Len(Stream)
  BY <1>4, <1>5, SizesAssumption, SMTT(30) DEF SetupRelabels, Idx, Out
<1>12. TypeOK'
  BY <1>6, <1>7, <1>9, <1>10, <1>11 DEF SetupRelabels, TypeOK
<1>13. SizeExact'
  BY <1>9 DEF SizeExact, Stored, InBuckets, SetupRelabels
<1>14. BucketsHoldTheirLevel'
  BY <1>8, <1>9 DEF BucketsHoldTheirLevel, SetupRelabels
<1>15. OutTogether' /\ NextIsCurrent' /\ FrontIsSpent' /\ ForwardsAtLeastOnce'
  BY <1>8 DEF OutTogether, NextIsCurrent, FrontIsSpent, HasFront, SetupRelabels,
              MaySetup, ForwardsAtLeastOnce
<1> QED BY <1>12, <1>13, <1>14, <1>15

LEMMA SetupForwardsPreserves ==
    ASSUME IInv, NEW s \in StopLevels \union {NoLabel}, SetupForwards(s)
    PROVE  IInv'
<1> USE DEF IInv
<1>1. next = {}
  BY LevelsAreNat DEF SetupForwards, MaySetup, EmptyLevel, NextIsCurrent,
                      BucketsHoldTheirLevel, TypeOK, NoLabel
<1>2. EffectiveStop(s) \in Nat \union {NoLabel}
  <2>1. OverflowTop \subseteq Nat
    BY LevelsAreNat DEF OverflowTop, Least, TypeOK
  <2> QED BY <2>1, StopAssumption DEF EffectiveStop
<1>3. TypeOK'
  BY <1>2 DEF SetupForwards, TypeOK
<1>4. SizeExact'
  BY DEF SetupForwards, SizeExact, Stored, InBuckets
<1>5. BucketsHoldTheirLevel' /\ OutTogether' /\ NextIsCurrent' /\ FrontIsSpent'
  BY <1>1 DEF SetupForwards, BucketsHoldTheirLevel, OutTogether, NextIsCurrent,
              FrontIsSpent, HasFront
<1>6. ForwardsAtLeastOnce'
  BY DEF SetupForwards, ForwardsAtLeastOnce, StopsBeforeNext, NextLevel, Ahead
<1> QED BY <1>3, <1>4, <1>5, <1>6

LEMMA ForwardStopsPreserves == IInv /\ ForwardStops => IInv'
<1> SUFFICES ASSUME IInv, ForwardStops PROVE IInv'
  OBVIOUS
<1> USE DEF IInv
<1>1. next = {}
  BY DEF ForwardStops, NextIsCurrent
<1>2. label[front] \in Nat \union {NoLabel}
  BY DEF ForwardStops, ForwardsAtLeastOnce, HasFront, TypeOK
<1>3. TypeOK'
  BY <1>2 DEF ForwardStops, TypeOK
<1>4. SizeExact'
  BY DEF ForwardStops, SizeExact, Stored, InBuckets
<1>5. BucketsHoldTheirLevel' /\ OutTogether' /\ NextIsCurrent' /\ FrontIsSpent'
  BY <1>1 DEF ForwardStops, BucketsHoldTheirLevel, OutTogether, NextIsCurrent,
              FrontIsSpent, HasFront
<1>6. ForwardsAtLeastOnce'
  BY DEF ForwardStops, ForwardsAtLeastOnce
<1> QED BY <1>3, <1>4, <1>5, <1>6

(* Moving to the next bucket empties no bucket that holds an element.      *)
LEMMA ForwardPreserves == IInv /\ Forward => IInv'
<1> SUFFICES ASSUME IInv, Forward PROVE IInv'
  OBVIOUS
<1> USE DEF IInv
<1> DEFINE n == Ahead(1)
<1>1. next = {}
  BY DEF Forward, NextIsCurrent
<1>2. n \in Idx /\ (HasFront => n # front /\ front \in Idx)
  BY AheadInRing, AheadIsNotFront, SizesAssumption DEF HasFront, TypeOK
<1> DEFINE refilled == IF Replaces THEN [bucket EXCEPT ![front] = {}] ELSE bucket
<1>3. refilled = bucket
  BY <1>1, <1>2 DEF FrontIsSpent, Replaces, TypeOK
<1>4. /\ n \in Idx
      /\ front' = n
      /\ \/ /\ bucket[n] = {} /\ bucket' = bucket /\ next' = {}
         \/ \E e \in Least(bucket[n]) :
                bucket' = [bucket EXCEPT ![n] = @ \ {e}] /\ next' = {e}
      /\ overflow' = overflow /\ top' = top /\ size' = size
  BY <1>2, <1>3 DEF Forward
<1>5. /\ label' \in [Idx -> Nat \union {NoLabel}]
      /\ \A i \in Idx : label'[i] = label[i] \/ (i = front /\ bucket[i] = {} /\ i # n)
      /\ pos' \in 0 .. Len(Stream)
      /\ back' \in Idx
  <2>1. CASE Replaces
    <3>1. pos + 1 \in 1 .. Len(Stream) /\ Stream[pos + 1] \in Nat
      BY <2>1, StreamAssumption DEF Replaces, TypeOK
    <3>2. label' = [label EXCEPT ![front] = Stream[pos + 1]] /\ pos' = pos + 1 /\ back' = front
      BY <2>1 DEF Forward
    <3> QED BY <2>1, <3>1, <3>2, <1>1, <1>2 DEF Replaces, TypeOK, FrontIsSpent
  <2>2. CASE ~Replaces
    <3>1. back \in Idx
      BY DEF Forward, HasNext, TypeOK, OutTogether, Out
    <3> QED BY <2>2, <3>1 DEF Forward, TypeOK
  <2> QED BY <2>1, <2>2
<1>6. /\ bucket' \in [Idx -> SUBSET Element]
      /\ next' \in {{}} \union {{e} : e \in Element}
      /\ \A i \in Idx : bucket'[i] \subseteq bucket[i]
      /\ next' \subseteq bucket[n]
      /\ next' = {} => bucket'[n] = {}
      /\ next' \intersect InBuckets' = {}
      /\ InBuckets' \union next' = InBuckets
  <2>1. CASE bucket[n] = {} /\ bucket' = bucket /\ next' = {}
    BY <2>1 DEF TypeOK, InBuckets
  <2>2. ASSUME NEW e \in Least(bucket[n]),
               bucket' = [bucket EXCEPT ![n] = @ \ {e}], next' = {e}
        PROVE  <1>6!:
    <3>1. e \in bucket[n] /\ e \in Element
      BY <2>2, <1>2 DEF Least, TypeOK
    <3>2. InBuckets' = InBuckets \ {e}
      BY <3>1, <2>2, <1>2 DEF TypeOK, SizeExact, InBuckets
    <3>3. e \in InBuckets
      BY <3>1, <1>2 DEF InBuckets
    <3> QED BY <3>1, <3>2, <3>3, <2>2, <1>2 DEF TypeOK
  <2> QED BY <1>4, <2>1, <2>2
<1>7. IF next' = {} /\ front' # back' THEN cur' = cur /\ fwd' = fwd /\ stop' = stop
      ELSE cur' = label'[n] /\ fwd' = FALSE /\ stop' = NoLabel
  BY DEF Forward
<1>8. TypeOK'
  <2>1. sorted' \in [Idx -> BOOLEAN]
    <3>1. \A i \in Idx : sorted'[i] \in BOOLEAN
      BY DEF Forward, TypeOK
    <3>2. sorted' = [i \in Idx |-> sorted'[i]]
      BY DEF Forward
    <3> QED BY <3>1, <3>2
  <2>2. cur' \in Nat \union {NoLabel} /\ fwd' \in BOOLEAN /\ stop' \in Nat \union {NoLabel}
    BY <1>2, <1>5, <1>7 DEF TypeOK
  <2> QED BY <1>2, <1>4, <1>5, <1>6, <2>1, <2>2 DEF TypeOK
<1>9. SizeExact'
  <2>1. Stored' = Stored
    BY <1>1, <1>4, <1>6 DEF Stored
  <2>2. InBuckets' \subseteq InBuckets /\ next' \subseteq InBuckets
    BY <1>6
  <2>3. (\A i, j \in Idx : i # j => bucket[i] \intersect bucket[j] = {})'
    BY <1>6 DEF SizeExact
  <2> QED BY <1>4, <1>6, <2>1, <2>2, <2>3 DEF SizeExact
<1>10. BucketsHoldTheirLevel'
  BY <1>2, <1>4, <1>5, <1>6 DEF BucketsHoldTheirLevel, HasFront, Idx, Out
<1>11. OutTogether' /\ NextIsCurrent' /\ FrontIsSpent' /\ ForwardsAtLeastOnce'
  BY <1>2, <1>4, <1>5, <1>6, <1>7, SizesAssumption
     DEF OutTogether, NextIsCurrent, FrontIsSpent, ForwardsAtLeastOnce, HasFront, Idx, Out
<1> QED BY <1>8, <1>9, <1>10, <1>11

-----------------------------------------------------------------------------
LEMMA StepPreserves == IInv /\ [Next]_vars => IInv'
<1> SUFFICES ASSUME IInv, [Next]_vars PROVE IInv'
  OBVIOUS
<1>1. CASE \E e \in Element : Push(e)
  BY <1>1, PushPreserves
<1>2. CASE Top \/ PullCached \/ Pull
  BY <1>2, TopPreserves, PullCachedPreserves, PullPreserves
<1>3. ASSUME NEW s \in StopLevels \union {NoLabel}, Setup(s)
      PROVE  IInv'
  <2>1. CASE SetupRelabels(s)
    BY <2>1, RelabelPreserves
  <2>2. CASE SetupForwards(s)
    BY <2>2, SetupForwardsPreserves
  <2>3. CASE SetupStays(s)
    <3>1. UNCHANGED vars
      BY <2>3 DEF SetupStays
    <3> QED BY <3>1 DEF vars, IInv, TypeOK, SizeExact, BucketsHoldTheirLevel, OutTogether,
                NextIsCurrent, FrontIsSpent, ForwardsAtLeastOnce, HasFront, Stored,
                InBuckets, StopsBeforeNext, NextLevel, Ahead
  <2> QED BY <1>3, <2>1, <2>2, <2>3 DEF Setup
<1>4. CASE ForwardStops \/ Forward
  BY <1>4, ForwardStopsPreserves, ForwardPreserves
<1>5. CASE UNCHANGED vars
  BY <1>5 DEF vars, IInv, TypeOK, SizeExact, BucketsHoldTheirLevel, OutTogether,
              NextIsCurrent, FrontIsSpent, ForwardsAtLeastOnce, HasFront, Stored,
              InBuckets, StopsBeforeNext, NextLevel, Ahead
<1> QED BY <1>1, <1>2, <1>3, <1>4, <1>5 DEF Next

LEMMA Invariance == Spec => []IInv
<1> QED BY InitEstablishes, StepPreserves, PTL DEF Spec

(***************************************************************************)
(* Every variable keeps its type: front and back index stay in the ring.   *)
(***************************************************************************)
THEOREM TypeCorrect == Spec => []TypeOK
<1>1. IInv => TypeOK
  BY DEF IInv
<1> QED BY <1>1, Invariance, PTL

(***************************************************************************)
(* The element count is exact and no element is in two places, for every   *)
(* number of buckets: so "all buckets are empty", on which relabelling     *)
(* relies, is decided correctly, and no operation loses or doubles an      *)
(* element.                                                                *)
(***************************************************************************)
THEOREM SizeIsExact == Spec => []SizeExact
<1>1. IInv => SizeExact
  BY DEF IInv
<1> QED BY <1>1, Invariance, PTL

(***************************************************************************)
(* A bucket only ever holds elements of the level it is labelled with.     *)
(***************************************************************************)
THEOREM BucketsKeepTheirLevel == Spec => []BucketsHoldTheirLevel
<1>1. IInv => BucketsHoldTheirLevel
  BY DEF IInv
<1> QED BY <1>1, Invariance, PTL

-----------------------------------------------------------------------------
(* The ring of buckets: which levels it covers and which of its buckets    *)
(* may be pushed to                                                        *)

(* The inductive invariant of the ring                                     *)

(* The level the ring has got to: the front bucket's or, without one, the  *)
(* current level.                                                          *)
RingLevel == IF HasFront THEN label[front] ELSE cur

Ring == {label[Ahead(o)] : o \in 1 .. Pushable}

(* Labels ascend around the ring, and the levels left in the merger come   *)
(* after them.                                                             *)
RingAscends ==
    /\ \A o, p \in 1 .. Pushable : o < p => label[Ahead(o)] < label[Ahead(p)]
    /\ \A o \in 1 .. Pushable, m \in KnownFrom(pos + 1) : label[Ahead(o)] < m

(* No known level is lost or repeated, also while the queue moves on.      *)
RingIsAhead == Ring \union KnownFrom(pos + 1) = {l \in Known : l > RingLevel}

(* The front bucket has a known level: the current one, except while the   *)
(* queue moves on.                                                         *)
FrontIsKnown == HasFront => label[front] \in Known /\ (~fwd => cur = label[front])

(* As long as the merger has levels left, every bucket is in use.          *)
RingIsFull == pos < Len(Stream) => Active = Buckets

RingInv == RingAscends /\ RingIsAhead /\ FrontIsKnown /\ RingIsFull

-----------------------------------------------------------------------------
(* Lemmas about the ring                                                   *)

(* A number that goes around once, without the remainder.                  *)
LEMMA ModOnce ==
    ASSUME NEW b \in Nat \ {0}, NEW x \in 0 .. b + b - 1
    PROVE  x % b = IF x < b THEN x ELSE x - b
<1>1. CASE x < b
  BY <1>1
<1>2. CASE ~(x < b)
  <2>1. x - b \in 0 .. b - 1
    BY <1>2
  <2> QED BY <1>2, <2>1
<1> QED BY <1>1, <1>2

(* Going o steps ahead in the ring from f, or from outside of it.          *)
LEMMA StepsAhead ==
    ASSUME NEW f \in -1 .. Buckets - 1, NEW o \in 1 .. Buckets
    PROVE  (f + o) % Buckets = IF f + o < Buckets THEN f + o ELSE f + o - Buckets
<1>1. f + o \in 0 .. Buckets + Buckets - 1 /\ Buckets \in Nat \ {0} /\ f \in Int
  BY SizesAssumption
<1>2. (f + o) % Buckets = IF f + o < Buckets THEN f + o ELSE (f + o) - Buckets
  BY <1>1, ModOnce, Zenon
<1> QED BY <1>1, <1>2

(* The bucket o steps ahead, without the remainder.                        *)
LEMMA AheadIs ==
    ASSUME TypeOK, NEW o \in 1 .. Buckets
    PROVE  Ahead(o) = IF front + o < Buckets THEN front + o ELSE front + o - Buckets
<1>1. front \in -1 .. Buckets - 1
  BY SizesAssumption DEF TypeOK, Idx, Out
<1> QED BY <1>1, StepsAhead DEF Ahead

(* The pushable buckets fit beside the front bucket, and the last one is   *)
(* the one at the back.                                                    *)
LEMMA PushableIs ==
    ASSUME TypeOK, OutTogether
    PROVE  /\ Active \in 0 .. Buckets
           /\ Pushable = IF HasFront THEN Active - 1 ELSE Active
           /\ Pushable \in 0 .. Buckets
           /\ HasFront => Pushable \in 0 .. Buckets - 1
           /\ HasNext <=> Pushable > 0
           /\ Pushable > 0 => Ahead(Pushable) = back
<1>1. /\ Active \in 0 .. Buckets
      /\ Pushable = IF HasFront THEN Active - 1 ELSE Active
      /\ Pushable \in 0 .. Buckets
      /\ HasFront => Pushable \in 0 .. Buckets - 1
      /\ HasNext <=> Pushable > 0
  BY SizesAssumption DEF TypeOK, OutTogether, HasNext, HasFront, Pushable, Active, Idx, Out
<1>2. ASSUME Pushable > 0
      PROVE  Ahead(Pushable) = back
  <2>1. Pushable \in 1 .. Buckets
    BY <1>1, <1>2
  <2>2. Ahead(Pushable) = IF front + Pushable < Buckets THEN front + Pushable
                          ELSE front + Pushable - Buckets
    BY <2>1, AheadIs
  <2>3. CASE front = Out
    BY <1>2, <2>2, <2>3, SizesAssumption DEF TypeOK, HasFront, Pushable, Active, Idx, Out
  <2>4. CASE front # Out /\ front <= back
    BY <1>2, <2>2, <2>4, SizesAssumption DEF TypeOK, HasFront, Pushable, Active, Idx, Out
  <2>5. CASE front # Out /\ ~(front <= back)
    <3>1. front \in Idx /\ back \in Idx
      BY <2>5 DEF TypeOK, OutTogether
    <3>2. Pushable = Buckets - front + back
      BY <2>5, <3>1, SizesAssumption DEF HasFront, Pushable, Active, Idx
    <3> QED BY <2>2, <3>1, <3>2, SizesAssumption DEF Idx
  <2> QED BY <2>3, <2>4, <2>5
<1> QED BY <1>1, <1>2

(* Different buckets ahead are different places in the array.              *)
LEMMA AheadInjective ==
    ASSUME TypeOK, NEW o \in 1 .. Buckets, NEW p \in 1 .. Buckets, Ahead(o) = Ahead(p)
    PROVE  o = p
  BY AheadIs, SizesAssumption DEF TypeOK, Idx, Out

(* The levels from a place in the stream on are that level and later ones. *)
LEMMA KnownFromStep ==
    ASSUME NEW i \in 1 .. Len(Stream)
    PROVE  /\ KnownFrom(i) = {Stream[i]} \union KnownFrom(i + 1)
           /\ \A m \in KnownFrom(i + 1) : Stream[i] < m
           /\ Stream[i] \in Nat
<1>1. Len(Stream) \in Nat /\ i \in Nat
  BY StreamAssumption
<1>2. i .. Len(Stream) = {i} \union (i + 1 .. Len(Stream))
  BY <1>1
<1>3. KnownFrom(i) = {Stream[i]} \union KnownFrom(i + 1)
  BY <1>2, Zenon DEF KnownFrom
<1>4. \A m \in KnownFrom(i + 1) : Stream[i] < m
  BY <1>1, StreamAssumption DEF KnownFrom
<1> QED BY <1>3, <1>4, <1>1, StreamAssumption

(* Labels of the ring and levels of the stream are numbers.                *)
LEMMA RingIsNat ==
    ASSUME TypeOK, OutTogether, RingIsAhead
    PROVE  /\ Known \subseteq Nat
           /\ \A o \in 1 .. Pushable : label[Ahead(o)] \in Known /\ RingLevel < label[Ahead(o)]
           /\ KnownFrom(pos + 1) \subseteq Known
<1>1. Known \subseteq Nat
  BY StreamAssumption, SizesAssumption DEF Known, KnownFrom
<1> QED BY <1>1 DEF RingIsAhead, Ring

-----------------------------------------------------------------------------
(* Turning the ring                                                        *)

(* Moving on to the next bucket shifts the ring by one; a bucket that is   *)
(* left behind and gets a new level is the last one then.                  *)
LEMMA ForwardTurns ==
    ASSUME IInv, RingInv, Forward
    PROVE  /\ Pushable \in 1 .. Buckets
           /\ HasFront' /\ front' = Ahead(1) /\ label'[front'] = label[Ahead(1)]
           /\ \A o \in 1 .. Pushable - 1 : /\ Ahead(o)' = Ahead(o + 1)
                                           /\ label'[Ahead(o + 1)] = label[Ahead(o + 1)]
           /\ Replaces => /\ Pushable' = Pushable /\ Ahead(Pushable)' = front
                          /\ label'[front] = Stream[pos + 1] /\ pos' = pos + 1
                          /\ pos \in 0 .. Len(Stream) - 1
           /\ ~Replaces => Pushable' = Pushable - 1 /\ pos' = pos /\ label' = label
           /\ pos' < Len(Stream) => Active' = Buckets
<1> USE DEF IInv, RingInv
<1> DEFINE P == Pushable
<1>1. /\ P \in 1 .. Buckets /\ (HasFront => P \in 1 .. Buckets - 1)
      /\ P = IF HasFront THEN Active - 1 ELSE Active
  BY PushableIs DEF Forward
<1>2. Ahead(1) \in Idx /\ front' = Ahead(1) /\ HasFront'
  BY AheadInRing, SizesAssumption DEF Forward, HasFront, Idx, Out
<1>3. TypeOK' /\ OutTogether'
  BY ForwardPreserves
<1>4. \A o \in 1 .. P - 1 : Ahead(o)' = Ahead(o + 1)
  <2> SUFFICES ASSUME NEW o \in 1 .. P - 1
               PROVE  Ahead(o)' = Ahead(o + 1)
    OBVIOUS
  <2>1. o \in 1 .. Buckets /\ o + 1 \in 1 .. Buckets /\ 1 \in 1 .. Buckets
    BY <1>1, SizesAssumption
  <2>2. Ahead(o)' = IF front' + o < Buckets THEN front' + o ELSE front' + o - Buckets
    <3>1. front' \in -1 .. Buckets - 1
      BY <1>2, SizesAssumption DEF Idx
    <3> HIDE DEF P
    <3> QED BY <2>1, <3>1, StepsAhead DEF Ahead
  <2>3. /\ Ahead(1) = IF front + 1 < Buckets THEN front + 1 ELSE front + 1 - Buckets
        /\ Ahead(o + 1) = IF front + (o + 1) < Buckets THEN front + (o + 1)
                          ELSE front + (o + 1) - Buckets
    BY <2>1, AheadIs
  <2>4. front \in -1 .. Buckets - 1 /\ o \in 1 .. Buckets - 1
    BY <1>1, SizesAssumption DEF TypeOK, Idx, Out
  <2>5. front + 1 \in 0 .. Buckets /\ Buckets \in Nat
    BY <2>4, SizesAssumption
  <2> HIDE DEF P
  <2> QED BY <1>2, <2>2, <2>3, <2>4, <2>5
<1>5. \A o \in 1 .. P : HasFront => Ahead(o) # front
  <2> SUFFICES ASSUME NEW o \in 1 .. P, HasFront
               PROVE  Ahead(o) # front
    OBVIOUS
  <2>1. o \in 1 .. Buckets - 1
    BY <1>1, SizesAssumption
  <2> QED BY <2>1, AheadIsNotFront
<1>6. \A o \in 1 .. P : label'[Ahead(o)] = label[Ahead(o)]
  <2>1. \A o \in 1 .. P : Ahead(o) \in Idx
    BY <1>1, AheadInRing
  <2> QED BY <1>5, <2>1 DEF Forward, Replaces, TypeOK
<1>7. CASE Replaces
  <2>1. /\ back' = front /\ pos' = pos + 1 /\ label'[front] = Stream[pos + 1]
        /\ pos \in 0 .. Len(Stream) - 1 /\ front \in Idx
    BY <1>7, StreamAssumption DEF Forward, Replaces, TypeOK, HasFront
  <2>2. Active = Buckets /\ P = Buckets - 1
    BY <2>1, <1>1, <1>7, StreamAssumption DEF RingIsFull, Replaces
  <2>3. front' = IF front + 1 < Buckets THEN front + 1 ELSE front + 1 - Buckets
    BY <1>2, AheadIs, SizesAssumption
  <2>4. Active' = Buckets /\ Pushable' = Buckets - 1
    BY <2>1, <2>3, <1>2, SizesAssumption DEF Active, Pushable, HasFront, Idx, Out
  <2>5. Ahead(P)' = back'
    <3>1. front' + P = front + Buckets \/ front' + P = front
      BY <2>2, <2>3, <2>1, SizesAssumption DEF Idx
    <3>2. front' + P \in 0 .. Buckets + Buckets - 1 /\ Buckets \in Nat \ {0}
      BY <2>1, <3>1, SizesAssumption DEF Idx
    <3>3. (front' + P) % Buckets = IF front' + P < Buckets THEN front' + P
                                   ELSE (front' + P) - Buckets
      BY <3>2, ModOnce, Zenon
    <3>4. (front' + P) % Buckets = front
      BY <2>1, <3>1, <3>3, SizesAssumption DEF Idx
    <3>5. Ahead(P)' = (front' + P) % Buckets
      BY <2>2, <2>4 DEF Ahead
    <3> QED BY <2>1, <3>4, <3>5
  <2> QED BY <1>1, <1>2, <1>4, <1>6, <1>7, <2>1, <2>2, <2>4, <2>5
<1>8. CASE ~Replaces
  <2>1. back' = back /\ pos' = pos /\ label' = label
    BY <1>8 DEF Forward
  <2>2. front' = IF front + 1 < Buckets THEN front + 1 ELSE front + 1 - Buckets
    BY <1>2, AheadIs, SizesAssumption
  <2>3. Pushable' = Pushable - 1
    <3>1. HasFront' /\ front \in -1 .. Buckets - 1 /\ back \in 0 .. Buckets - 1
      BY <1>2, SizesAssumption DEF TypeOK, OutTogether, Forward, HasNext, Idx, Out
    <3>2. Pushable' = Active' - 1 /\ Active' = IF front' <= back THEN (back - front') + 1
                                               ELSE (Buckets - front') + back + 1
      BY <1>2, <2>1 DEF Pushable, Active, HasFront
    <3>3. front # back
      BY DEF Forward, HasNext
    <3>4. CASE front = -1
      BY <2>2, <3>1, <3>2, <3>4, SizesAssumption DEF Pushable, Active, HasFront, Out
    <3>5. CASE front # -1
      <4>1. Pushable = IF front <= back THEN back - front ELSE Buckets - front + back
        BY <3>1, <3>5, SizesAssumption DEF Pushable, Active, HasFront, Out
      <4> QED BY <2>2, <3>1, <3>2, <3>3, <3>5, <4>1, SizesAssumption
    <3> QED BY <3>4, <3>5
  <2>4. pos' < Len(Stream) => Active' = Buckets
    <3>1. pos < Len(Stream) => ~HasFront /\ Active = Buckets
      BY <1>8 DEF Replaces, RingIsFull
    <3> QED BY <2>1, <2>2, <3>1, <1>2, SizesAssumption
            DEF Active, HasFront, Idx, Out, TypeOK
  <2> QED BY <1>1, <1>2, <1>4, <1>6, <1>8, <2>1, <2>3, <2>4
<1> QED BY <1>7, <1>8

LEMMA ForwardRing ==
    ASSUME IInv, RingInv, Forward
    PROVE  RingInv'
<1> USE DEF IInv, RingInv
<1> DEFINE P == Pushable
           tail == {label[Ahead(o + 1)] : o \in 1 .. P - 1}
           next1 == label[Ahead(1)]
<1>1. /\ P \in Nat /\ P > 0
      /\ HasFront' /\ label'[front'] = next1
      /\ \A o \in 1 .. P - 1 : label'[Ahead(o)'] = label[Ahead(o + 1)]
      /\ Replaces => /\ Pushable' = P /\ P' = P
                     /\ label'[Ahead(P)'] = Stream[pos + 1]
                     /\ pos' = pos + 1 /\ pos + 1 \in 1 .. Len(Stream)
      /\ ~Replaces => Pushable' = P - 1 /\ pos' = pos
      /\ pos' < Len(Stream) => Active' = Buckets
  BY ForwardTurns, SizesAssumption, StreamAssumption
<1>2. /\ \A o \in 1 .. P : label[Ahead(o)] \in Nat /\ label[Ahead(o)] \in Known
      /\ \A o \in 1 .. P : RingLevel < label[Ahead(o)]
      /\ KnownFrom(pos + 1) \subseteq Nat
  BY RingIsNat
<1>3. \A o, p \in 1 .. P : o < p => label[Ahead(o)] < label[Ahead(p)]
  BY DEF RingAscends
<1>4. \A o \in 1 .. P, m \in KnownFrom(pos + 1) : label[Ahead(o)] < m
  BY DEF RingAscends
<1>5. Replaces => /\ KnownFrom(pos + 1) = {Stream[pos + 1]} \union KnownFrom(pos' + 1)
                  /\ \A m \in KnownFrom(pos' + 1) : Stream[pos + 1] < m
                  /\ Stream[pos + 1] \in KnownFrom(pos + 1)
  BY <1>1, KnownFromStep
<1>6. Ring = {next1} \union tail
  <2>1. Ring = {label[Ahead(o)] : o \in 1 .. P}
    BY DEF Ring
  <2>2. 1 .. P = {1} \union {o + 1 : o \in 1 .. P - 1}
    <3> HIDE DEF P
    <3>1. ASSUME NEW o \in 1 .. P
          PROVE  o = 1 \/ \E q \in 1 .. P - 1 : o = q + 1
      <4>1. CASE o # 1
        <5>1. o - 1 \in 1 .. P - 1 /\ o = (o - 1) + 1
          BY <1>1, <4>1
        <5> QED BY <5>1
      <4> QED BY <4>1
    <3>2. ASSUME NEW q \in 1 .. P - 1
          PROVE  q + 1 \in 1 .. P
      BY <1>1
    <3>3. 1 \in 1 .. P
      BY <1>1
    <3> QED BY <3>1, <3>2, <3>3, Zenon
  <2> HIDE DEF P
  <2> QED BY <2>1, <2>2
<1>7. Ring' \union KnownFrom(pos + 1)' = tail \union KnownFrom(pos + 1)
  <2>1. CASE Replaces
    <3>1. Ring' = tail \union {Stream[pos + 1]}
      <4>1. Ring' = {label'[Ahead(o)'] : o \in 1 .. P}
        BY <1>1, <2>1 DEF Ring
      <4> HIDE DEF P
      <4>2. /\ \A o \in 1 .. P : o \in 1 .. P - 1 \/ o = P
            /\ \A o \in 1 .. P - 1 : o \in 1 .. P
            /\ P \in 1 .. P
        BY <1>1
      <4>3. \A o \in 1 .. P - 1 : label'[Ahead(o)'] = label[Ahead(o + 1)]
        BY <1>1
      <4>4. \A o \in 1 .. P : o = P => label'[Ahead(o)'] = Stream[pos + 1]
        BY <1>1, <2>1 DEF Ahead
      <4>5. Ring' \subseteq tail \union {Stream[pos + 1]}
        BY <4>1, <4>2, <4>3, <4>4
      <4>6. tail \subseteq Ring' /\ Stream[pos + 1] \in Ring'
        BY <4>1, <4>2, <4>3, <4>4
      <4> QED BY <4>5, <4>6
    <3>2. KnownFrom(pos + 1)' = KnownFrom(pos' + 1)
      BY DEF KnownFrom
    <3> QED BY <1>5, <2>1, <3>1, <3>2
  <2>2. CASE ~Replaces
    <3>1. Ring' = tail
      <4>1. Ring' = {label'[Ahead(o)'] : o \in 1 .. P - 1}
        BY <1>1, <2>2 DEF Ring
      <4> HIDE DEF P
      <4> QED BY <1>1, <4>1
    <3>2. KnownFrom(pos + 1)' = KnownFrom(pos + 1)
      BY <1>1, <2>2 DEF KnownFrom
    <3> QED BY <3>1, <3>2
  <2> QED BY <2>1, <2>2
<1>8. /\ next1 \in Nat /\ next1 \in Known /\ RingLevel < next1
      /\ \A l \in tail : l \in Nat /\ l \in Known /\ RingLevel < l /\ next1 < l
      /\ \A m \in KnownFrom(pos + 1) : m \in Nat /\ next1 < m
  <2>1. 1 \in 1 .. P /\ \A o \in 1 .. P - 1 : o + 1 \in 1 .. P /\ 1 < o + 1
    BY <1>1
  <2> HIDE DEF P
  <2> QED BY <1>2, <1>3, <1>4, <2>1
<1>9. RingIsAhead'
  <2>1. {next1} \union tail \union KnownFrom(pos + 1) = {l \in Known : l > RingLevel}
    BY <1>6 DEF RingIsAhead
  <2>2. RingLevel' = next1
    BY <1>1 DEF RingLevel
  <2>3. Known \subseteq Nat /\ RingLevel \in Int
    BY RingIsNat DEF RingLevel, TypeOK, HasFront, NoLabel
  <2>4. tail \union KnownFrom(pos + 1) = {l \in Known : l > next1}
    <3> HIDE DEF next1, tail
    <3>1. ASSUME NEW l \in tail \union KnownFrom(pos + 1)
          PROVE  l \in Known /\ l > next1
      BY <1>8, <2>1
    <3>2. ASSUME NEW l \in Known, l > next1
          PROVE  l \in tail \union KnownFrom(pos + 1)
      <4>1. l \in Nat /\ l > RingLevel /\ l # next1
        BY <1>8, <2>3, <3>2
      <4> QED BY <2>1, <4>1
    <3> QED BY <3>1, <3>2
  <2>5. Ring' \union KnownFrom(pos + 1)' = {l \in Known : l > RingLevel'}
    <3> HIDE DEF next1, tail
    <3> QED BY <1>7, <2>2, <2>4
  <2> QED BY <2>5 DEF RingIsAhead
<1>10. RingAscends'
  <2> HIDE DEF P
  <2>1. ASSUME NEW o \in 1 .. Pushable', NEW p \in 1 .. Pushable', o < p
        PROVE  label'[Ahead(o)'] < label'[Ahead(p)']
    <3>1. o \in 1 .. P - 1 /\ o + 1 \in 1 .. P
      BY <1>1, <2>1
    <3>2. CASE p \in 1 .. P - 1
      <4>1. p + 1 \in 1 .. P /\ o + 1 < p + 1
        BY <2>1, <3>2, <1>1
      <4> QED BY <1>1, <1>3, <3>1, <3>2, <4>1
    <3>3. CASE Replaces /\ p = P
      <4>1. label'[Ahead(p)'] = Stream[pos + 1]
        BY <1>1, <3>3 DEF Ahead
      <4> QED BY <1>1, <1>4, <1>5, <3>1, <3>3, <4>1
    <3> QED BY <1>1, <3>2, <3>3
  <2>2. ASSUME NEW o \in 1 .. Pushable', NEW m \in KnownFrom(pos' + 1)
        PROVE  label'[Ahead(o)'] < m
    <3>1. CASE o \in 1 .. P - 1
      <4>1. o + 1 \in 1 .. P /\ label'[Ahead(o)'] = label[Ahead(o + 1)]
        BY <1>1, <3>1
      <4>2. m \in KnownFrom(pos + 1)
        BY <1>1, <1>5, <2>2
      <4> QED BY <1>4, <4>1, <4>2
    <3>2. CASE Replaces /\ o = P
      <4>1. label'[Ahead(o)'] = Stream[pos + 1]
        BY <1>1, <3>2 DEF Ahead
      <4> QED BY <1>5, <2>2, <3>2, <4>1
    <3> QED BY <1>1, <3>1, <3>2
  <2> QED BY <2>1, <2>2 DEF RingAscends, KnownFrom
<1>11. FrontIsKnown'
  <2>1. fwd' = FALSE => cur' = label'[front']
    BY DEF Forward
  <2>2. fwd' \in BOOLEAN
    BY ForwardPreserves DEF TypeOK
  <2> QED BY <1>1, <1>8, <2>1, <2>2 DEF FrontIsKnown
<1>12. RingIsFull'
  BY <1>1 DEF RingIsFull
<1> QED BY <1>9, <1>10, <1>11, <1>12

-----------------------------------------------------------------------------
(* Counting a prefix                                                       *)

(* A set of numbers that is not empty has a smallest one.                  *)
LEMMA SmallestNumber ==
    ASSUME NEW T \in SUBSET Nat, T # {}
    PROVE  \E m \in T : \A k \in T : m <= k
<1> DEFINE R == OpToRel(<, Nat)
<1>1. \E m \in T : \A k \in T : <<k, m>> \notin R
  <2>1. IsWellFoundedOn(R, Nat)
    BY NatLessThanWellFounded
  <2> HIDE DEF R
  <2> QED BY <2>1, WFMin, Zenon
<1>2. \A k, m \in Nat : <<k, m>> \notin R => m <= k
  BY DEF OpToRel
<1> QED BY <1>1, <1>2

(* A set of numbers past a that leaves no gap is counted off from a.       *)
LEMMA PrefixCount ==
    ASSUME NEW a \in Nat, NEW b \in Nat, a <= b, NEW S \in SUBSET (a + 1 .. b),
           \A i \in S : \A j \in a + 1 .. i : j \in S
    PROVE  /\ Cardinality(S) \in 0 .. b - a
           /\ S = a + 1 .. a + Cardinality(S)
<1> DEFINE T == {j \in Nat : j > a /\ j \notin S}
<1>1. PICK m \in T : \A k \in T : m <= k
  <2>1. b + 1 \in T
    OBVIOUS
  <2> QED BY <2>1, SmallestNumber
<1>2. m \in a + 1 .. b + 1
  <2>1. b + 1 \in T
    OBVIOUS
  <2> QED BY <1>1, <2>1
<1>3. S = a + 1 .. m - 1
  <2>1. ASSUME NEW j \in a + 1 .. m - 1
        PROVE  j \in S
    BY <1>1, <1>2
  <2>2. ASSUME NEW j \in S
        PROVE  j \in a + 1 .. m - 1
    <3>1. CASE m <= j
      <4>1. m \in a + 1 .. j
        BY <1>2, <3>1
      <4> QED BY <1>1, <4>1
    <3> QED BY <1>2, <3>1
  <2> QED BY <2>1, <2>2
<1>4. Cardinality(S) = m - 1 - a
  <2>1. Cardinality(a + 1 .. m - 1) = IF a + 1 > m - 1 THEN 0 ELSE (m - 1) - (a + 1) + 1
    <3>1. a + 1 \in Int /\ m - 1 \in Int
      BY <1>2
    <3> QED BY <3>1, FS_Interval
  <2> QED BY <1>2, <1>3, <2>1
<1> QED BY <1>2, <1>3, <1>4

-----------------------------------------------------------------------------
(* The stop level                                                          *)

(* A set of elements that is not empty has a least element, and its level  *)
(* and key are numbers.                                                    *)
LEMMA LeastExists ==
    ASSUME NEW S \in SUBSET Element, S # {}
    PROVE  Least(S) # {}
<1>1. \A e \in S : e.level \in Nat /\ e.key \in Nat
  BY LevelsAreNat, ElementAssumption
<1>2. PICK l \in {e.level : e \in S} : \A m \in {e.level : e \in S} : l <= m
  <2>1. {e.level : e \in S} \in SUBSET Nat /\ {e.level : e \in S} # {}
    BY <1>1
  <2> QED BY <2>1, SmallestNumber
<1> DEFINE L == {e \in S : e.level = l}
<1>3. PICK k \in {e.key : e \in L} : \A m \in {e.key : e \in L} : k <= m
  <2>1. {e.key : e \in L} \in SUBSET Nat /\ {e.key : e \in L} # {}
    BY <1>1, <1>2
  <2> QED BY <2>1, SmallestNumber
<1>4. PICK e \in L : e.key = k
  BY <1>3
<1>5. \A f \in S : ~Less(f, e)
  <2> SUFFICES ASSUME NEW f \in S, Less(f, e) PROVE FALSE
    OBVIOUS
  <2>1. e.level = l /\ l <= f.level /\ f.level \in Nat /\ l \in Nat
    BY <1>1, <1>2, <1>4
  <2>2. f.level = l /\ f.key < k
    BY <2>1, <1>4 DEF Less
  <2>3. k <= f.key
    BY <2>2, <1>3
  <2> QED BY <2>2, <2>3, <1>1, <1>3
<1> QED BY <1>4, <1>5 DEF Least

(* All least elements of the overflow queue are at its first level.        *)
LEMMA OverflowTopIs ==
    ASSUME TypeOK, overflow # {}
    PROVE  \E e \in overflow : /\ OverflowTop = {e.level}
                               /\ \A f \in overflow : e.level <= f.level
<1>1. \A f \in overflow : f.level \in Nat
  BY LevelsAreNat DEF TypeOK
<1>2. PICK e \in overflow : e \in Least(overflow)
  BY LeastExists DEF TypeOK, Least
<1>3. \A f \in overflow : e.level <= f.level
  BY <1>1, <1>2 DEF Least, Less
<1>4. \A f \in Least(overflow) : f.level <= e.level /\ f \in overflow
  BY <1>1, <1>2 DEF Least, Less
<1>5. OverflowTop = {e.level}
  <2>1. \A f \in Least(overflow) : f.level = e.level
    BY <1>1, <1>3, <1>4
  <2> QED BY <1>2, <2>1 DEF OverflowTop
<1> QED BY <1>3, <1>5

(* The effective stop level is at or before the given one and before all   *)
(* of the overflow queue.                                                  *)
LEMMA EffectiveStopIs ==
    ASSUME TypeOK, NEW s \in StopLevels \union {NoLabel}
    PROVE  /\ EffectiveStop(s) \in {s} \union {e.level : e \in overflow}
           /\ EffectiveStop(s) \in Nat \union {NoLabel}
           /\ \A e \in overflow : EffectiveStop(s) # NoLabel /\ EffectiveStop(s) <= e.level
           /\ s # NoLabel => EffectiveStop(s) # NoLabel /\ EffectiveStop(s) <= s
           /\ overflow = {} => EffectiveStop(s) = s
<1>1. s \in Nat \union {NoLabel} /\ NoLabel = -1
  BY StopAssumption DEF NoLabel
<1>2. CASE overflow = {}
  <2>1. OverflowTop = {}
    BY <1>2 DEF OverflowTop, Least
  <2>2. EffectiveStop(s) = s
    BY <2>1 DEF EffectiveStop
  <2> QED BY <1>1, <1>2, <2>2
<1>3. CASE overflow # {}
  <2>1. PICK e \in overflow : /\ OverflowTop = {e.level}
                              /\ \A f \in overflow : e.level <= f.level
    BY <1>3, OverflowTopIs
  <2>2. \A f \in overflow : f.level \in Nat
    BY LevelsAreNat DEF TypeOK
  <2>3. (CHOOSE l \in OverflowTop : TRUE) = e.level
    BY <2>1
  <2>4. EffectiveStop(s) = IF s = NoLabel \/ e.level < s THEN e.level ELSE s
    BY <2>1, <2>3 DEF EffectiveStop
  <2> QED BY <1>1, <1>3, <2>1, <2>2, <2>4
<1> QED BY <1>2, <1>3

-----------------------------------------------------------------------------
(* Relabelling                                                             *)

(* Relabelling is always up to some level, at or after the next one, and   *)
(* the counts of levels skipped in the ring and passed in the merger are   *)
(* those of the levels up to it, the ring's first.                         *)
LEMMA RelabelCounts ==
    ASSUME IInv, RingInv, NEW s \in StopLevels \union {NoLabel}, SetupRelabels(s),
           NEW st, st = EffectiveStop(s)
    PROVE  /\ st \in Nat /\ NextLevel <= st
           /\ Pushable \in 1 .. Buckets /\ (HasFront => Pushable < Buckets)
           /\ Skipped(st) \in 1 .. Pushable
           /\ \A o \in 1 .. Pushable : label[Ahead(o)] <= st <=> o <= Skipped(st)
           /\ Passed(st) \in 0 .. Len(Stream) - pos
           /\ \A i \in pos + 1 .. Len(Stream) : Stream[i] <= st <=> i <= pos + Passed(st)
           /\ Passed(st) > 0 => Skipped(st) = Pushable
<1> USE DEF IInv, RingInv
<1>1. Pushable \in 1 .. Buckets /\ (HasFront => Pushable < Buckets)
  BY PushableIs, SizesAssumption DEF SetupRelabels, MaySetup
<1>2. st \in Nat
  <2>1. st \in Nat \union {NoLabel} /\ (s # NoLabel => st # NoLabel)
    BY EffectiveStopIs
  <2>2. CASE overflow # {}
    BY <2>1, <2>2, EffectiveStopIs
  <2>3. CASE overflow = {}
    <3>1. Cardinality(overflow) = 0 /\ Cardinality(top) \in Nat /\ size \in Nat
      BY <2>3, FS_EmptySet, FS_CardinalityType, StoredFinite DEF TypeOK
    <3>2. size = 0 /\ Cardinality(top) = 0
      BY <3>1 DEF SetupRelabels, BucketsAreEmpty
    <3>3. top = {}
      BY <3>2, FS_EmptySet, StoredFinite
    <3> QED BY <2>1, <3>2, <3>3 DEF SetupRelabels, MaySetup, Empty
  <2> QED BY <2>2, <2>3
<1>3. \A o \in 1 .. Pushable : label[Ahead(o)] \in Nat
  BY RingIsNat
<1>4. NextLevel <= st
  <2>1. NextLevel \in Nat
    BY <1>1, <1>3 DEF NextLevel
  <2>2. ~(st < NextLevel)
    BY <1>2 DEF SetupRelabels, StopsBeforeNext, NoLabel
  <2> QED BY <1>2, <2>1, <2>2
<1>5. /\ Cardinality({o \in 1 .. Pushable : label[Ahead(o)] <= st}) \in 0 .. Pushable - 0
      /\ {o \in 1 .. Pushable : label[Ahead(o)] <= st}
            = 0 + 1 .. 0 + Cardinality({o \in 1 .. Pushable : label[Ahead(o)] <= st})
  <2> DEFINE S == {o \in 1 .. Pushable : label[Ahead(o)] <= st}
  <2>1. \A i \in S : \A j \in 0 + 1 .. i : j \in S
    <3> SUFFICES ASSUME NEW i \in S, NEW j \in 1 .. i PROVE j \in S
      OBVIOUS
    <3>1. j \in 1 .. Pushable /\ (j < i \/ j = i)
      BY <1>1
    <3>2. label[Ahead(j)] <= label[Ahead(i)]
      BY <1>3, <3>1 DEF RingAscends
    <3> QED BY <1>2, <1>3, <3>1, <3>2
  <2>2. S \in SUBSET (0 + 1 .. Pushable) /\ 0 \in Nat /\ Pushable \in Nat /\ 0 <= Pushable
    BY <1>1
  <2> HIDE DEF S
  <2>3. Cardinality(S) \in 0 .. Pushable - 0 /\ S = 0 + 1 .. 0 + Cardinality(S)
    BY <2>1, <2>2, PrefixCount
  <2> QED BY <2>3 DEF S
<1>6. /\ Skipped(st) \in 1 .. Pushable
      /\ \A o \in 1 .. Pushable : label[Ahead(o)] <= st <=> o <= Skipped(st)
  <2>1. /\ Skipped(st) \in 0 .. Pushable
        /\ {o \in 1 .. Pushable : label[Ahead(o)] <= st} = 1 .. Skipped(st)
    BY <1>1, <1>5 DEF Skipped
  <2>2. 1 \in {o \in 1 .. Pushable : label[Ahead(o)] <= st}
    BY <1>1, <1>4 DEF NextLevel
  <2> QED BY <1>1, <2>1, <2>2
<1>7. pos \in Nat /\ Len(Stream) \in Nat /\ pos <= Len(Stream)
  BY StreamAssumption DEF TypeOK
<1>8. /\ Passed(st) \in 0 .. Len(Stream) - pos
      /\ {i \in pos + 1 .. Len(Stream) : Stream[i] <= st} = pos + 1 .. pos + Passed(st)
  <2> DEFINE S == {i \in pos + 1 .. Len(Stream) : Stream[i] <= st}
  <2>1. \A i \in S : \A j \in pos + 1 .. i : j \in S
    <3> SUFFICES ASSUME NEW i \in S, NEW j \in pos + 1 .. i PROVE j \in S
      OBVIOUS
    <3>1. i \in pos + 1 .. Len(Stream) /\ j \in pos + 1 .. Len(Stream) /\ (j < i \/ j = i)
      BY <1>7
    <3>2. i \in 1 .. Len(Stream) /\ j \in 1 .. Len(Stream)
      BY <1>7, <3>1
    <3>3. Stream[i] \in Nat /\ Stream[j] \in Nat /\ Stream[j] <= Stream[i]
      BY <3>1, <3>2, StreamAssumption
    <3> QED BY <1>2, <3>1, <3>3
  <2>2. S \in SUBSET (pos + 1 .. Len(Stream))
    OBVIOUS
  <2> HIDE DEF S
  <2>3. Cardinality(S) \in 0 .. Len(Stream) - pos /\ S = pos + 1 .. pos + Cardinality(S)
    BY <1>7, <2>1, <2>2, PrefixCount
  <2> QED BY <2>3 DEF S, Passed
<1>9. \A i \in pos + 1 .. Len(Stream) : Stream[i] <= st <=> i <= pos + Passed(st)
  BY <1>7, <1>8
<1>10. ASSUME Passed(st) > 0
       PROVE  Skipped(st) = Pushable
  <2>1. pos + 1 \in pos + 1 .. Len(Stream) /\ pos + 1 \in pos + 1 .. pos + Passed(st)
    BY <1>7, <1>8, <1>10
  <2>2. Stream[pos + 1] <= st /\ Stream[pos + 1] \in KnownFrom(pos + 1)
    BY <1>7, <1>8, <2>1 DEF KnownFrom
  <2>3. Stream[pos + 1] \in Nat
    BY <1>7, <2>1, StreamAssumption
  <2>4. label[Ahead(Pushable)] < Stream[pos + 1]
    BY <1>1, <2>2 DEF RingAscends
  <2>5. label[Ahead(Pushable)] <= st
    BY <1>1, <1>2, <1>3, <2>2, <2>3, <2>4
  <2> QED BY <1>1, <1>6, <2>5
<1> QED BY <1>1, <1>2, <1>4, <1>6, <1>8, <1>9, <1>10

(* Relabelling moves to the last known level up to the stop level.         *)
LEMMA RelabelTarget ==
    ASSUME IInv, RingInv, NEW s \in StopLevels \union {NoLabel}, SetupRelabels(s),
           NEW st, st = EffectiveStop(s)
    PROVE  /\ cur' \in Known /\ cur' <= st /\ RingLevel < cur' /\ RingLevel = cur
           /\ \A l \in Known : l <= st => l <= cur'
<1> USE DEF IInv, RingInv
<1> DEFINE k == Skipped(st)
           m == Passed(st)
<1>1. /\ st \in Nat /\ Pushable \in 1 .. Buckets
      /\ k \in 1 .. Pushable
      /\ \A o \in 1 .. Pushable : label[Ahead(o)] <= st <=> o <= k
      /\ m \in 0 .. Len(Stream) - pos
      /\ \A i \in pos + 1 .. Len(Stream) : Stream[i] <= st <=> i <= pos + m
      /\ m > 0 => k = Pushable
  BY RelabelCounts
<1>2. cur' = IF m > 0 THEN Stream[pos + m] ELSE label[Ahead(k)]
  BY <1>1 DEF SetupRelabels
<1>3. RingLevel = cur
  BY DEF FrontIsKnown, RingLevel, SetupRelabels, MaySetup
<1>4. /\ Known \subseteq Nat
      /\ \A o \in 1 .. Pushable : label[Ahead(o)] \in Known /\ RingLevel < label[Ahead(o)]
      /\ KnownFrom(pos + 1) \subseteq Known
      /\ KnownFrom(pos + 1) = {Stream[i] : i \in pos + 1 .. Len(Stream)}
  BY RingIsNat DEF KnownFrom
<1>5. \A l \in Known : l > RingLevel => l \in Ring \union KnownFrom(pos + 1)
  BY DEF RingIsAhead
<1>6. pos \in Nat /\ Len(Stream) \in Nat /\ RingLevel \in Int
  BY <1>3, StreamAssumption DEF TypeOK, NoLabel
<1>7. ASSUME m > 0
      PROVE  /\ pos + m \in pos + 1 .. Len(Stream)
             /\ Stream[pos + m] \in KnownFrom(pos + 1)
             /\ \A i \in pos + 1 .. pos + m : Stream[i] <= Stream[pos + m]
  <2>1. pos + m \in pos + 1 .. Len(Stream)
    BY <1>1, <1>6, <1>7
  <2>2. ASSUME NEW i \in pos + 1 .. pos + m
        PROVE  Stream[i] <= Stream[pos + m]
    <3>1. /\ i \in 1 .. Len(Stream) /\ pos + m \in 1 .. Len(Stream)
          /\ (i < pos + m \/ i = pos + m)
      BY <1>1, <1>6, <2>1
    <3>2. Stream[i] \in Nat /\ Stream[pos + m] \in Nat
      BY <3>1, StreamAssumption
    <3> HIDE DEF m
    <3> QED BY <3>1, <3>2, StreamAssumption
  <2> HIDE DEF m
  <2> QED BY <1>4, <2>1, <2>2
<1> HIDE DEF k, m
<1>8. cur' \in Known /\ cur' <= st /\ RingLevel < cur'
  <2>1. CASE m > 0
    <3>1. Stream[pos + m] \in KnownFrom(pos + 1) /\ Stream[pos + m] <= st
      BY <1>1, <1>6, <1>7, <2>1
    <3>2. RingLevel < Stream[pos + m]
      BY <3>1 DEF RingIsAhead
    <3> QED BY <1>2, <1>4, <2>1, <3>1, <3>2
  <2>2. CASE ~(m > 0)
    BY <1>1, <1>2, <1>4, <2>2
  <2> QED BY <2>1, <2>2
<1>9. ASSUME NEW l \in Known, l <= st
      PROVE  l <= cur'
  <2>0. l \in Nat /\ cur' \in Nat
    BY <1>4, <1>8
  <2>1. CASE ~(l > RingLevel)
    BY <1>6, <1>8, <2>0, <2>1
  <2>2. CASE l \in Ring
    <3>1. PICK o \in 1 .. Pushable : l = label[Ahead(o)]
      BY <2>2 DEF Ring
    <3>2. o \in 1 .. Pushable /\ k \in 1 .. Pushable /\ (o < k \/ o = k)
      BY <1>1, <1>9, <3>1
    <3>3. l <= label[Ahead(k)] /\ label[Ahead(k)] \in Nat
      <4>1. label[Ahead(k)] \in Nat
        BY <1>4, <3>2
      <4>2. o < k => label[Ahead(o)] < label[Ahead(k)]
        BY <3>2 DEF RingAscends
      <4> QED BY <2>0, <3>1, <3>2, <4>1, <4>2
    <3>4. CASE m > 0
      <4>1. label[Ahead(k)] < Stream[pos + m]
        BY <1>1, <1>7, <3>4 DEF RingAscends
      <4> QED BY <1>2, <2>0, <3>3, <3>4, <4>1
    <3> QED BY <1>2, <3>3, <3>4
  <2>3. CASE l \in KnownFrom(pos + 1)
    <3>1. PICK i \in pos + 1 .. Len(Stream) : l = Stream[i]
      BY <1>4, <2>3
    <3>2. i <= pos + m
      BY <1>1, <1>9, <3>1
    <3>3. m > 0 /\ i \in pos + 1 .. pos + m
      BY <1>1, <1>6, <3>1, <3>2
    <3> QED BY <1>2, <1>7, <3>1, <3>3
  <2> QED BY <1>5, <2>1, <2>2, <2>3
<1> QED BY <1>3, <1>8, <1>9

(* What relabelling makes of the ring: the buckets past the stop level     *)
(* come first, then as many levels of the merger as there is room for.     *)
LEMMA RelabelTurns ==
    ASSUME IInv, RingInv, NEW s \in StopLevels \union {NoLabel}, SetupRelabels(s),
           NEW st, st = EffectiveStop(s)
    PROVE  LET kept == Pushable - Skipped(st)
               from == pos + Passed(st)
               filled == Pushable'
           IN  /\ kept \in 0 .. Buckets - 1 /\ (HasFront => kept < Buckets - 1)
               /\ from \in pos .. Len(Stream)
               /\ filled \in kept .. Buckets
               /\ filled = kept + Lesser(Buckets - kept, Len(Stream) - from)
               /\ pos' = from + filled - kept /\ pos' \in from .. Len(Stream)
               /\ (pos' < Len(Stream) => filled = Buckets)
               /\ front' = Out /\ Active' = filled
               /\ \A o \in 1 .. filled : Ahead(o)' = o - 1
               /\ \A o \in 1 .. kept : label'[o - 1] = label[Ahead(Skipped(st) + o)]
               /\ \A o \in kept + 1 .. filled : label'[o - 1] = Stream[from + o - kept]
<1> USE DEF IInv, RingInv
<1> DEFINE kept == Pushable - Skipped(st)
           from == pos + Passed(st)
           fill == kept + Lesser(Buckets - kept, Len(Stream) - from)
<1>1. /\ Pushable \in 1 .. Buckets /\ Skipped(st) \in 1 .. Pushable
      /\ (HasFront => Pushable < Buckets)
      /\ Passed(st) \in 0 .. Len(Stream) - pos
  BY RelabelCounts
<1>2. pos \in Nat /\ Len(Stream) \in Nat /\ Buckets \in Nat
  BY StreamAssumption, SizesAssumption DEF TypeOK
<1>3. kept \in 0 .. Buckets - 1 /\ (HasFront => kept < Buckets - 1)
  BY <1>1, <1>2
<1>4. from \in pos .. Len(Stream)
  BY <1>1, <1>2
<1> HIDE DEF kept, from
<1>5. fill \in kept .. Buckets /\ from + fill - kept \in from .. Len(Stream)
  BY <1>2, <1>3, <1>4 DEF Lesser
<1>6. from + fill - kept < Len(Stream) => fill = Buckets
  BY <1>2, <1>3, <1>4 DEF Lesser
<1> HIDE DEF fill
<1>7. /\ front' = Out /\ back' = fill - 1 /\ pos' = from + fill - kept
      /\ label' = [i \in Idx |-> IF i < kept THEN label[Ahead(Skipped(st) + i + 1)]
                                 ELSE IF i < fill THEN Stream[from + i - kept + 1]
                                 ELSE label[i]]
  BY DEF SetupRelabels, kept, from, fill
<1>8. Active' = fill /\ Pushable' = fill
  BY <1>2, <1>3, <1>5, <1>7 DEF Active, Pushable, HasFront
<1>9. ASSUME NEW o \in 1 .. fill
      PROVE  Ahead(o)' = o - 1
  <2>1. front' \in -1 .. Buckets - 1 /\ o \in 1 .. Buckets /\ front' + o < Buckets
    BY <1>2, <1>3, <1>5, <1>7 DEF Out
  <2>2. (front' + o) % Buckets = front' + o
    BY <2>1, StepsAhead
  <2> QED BY <1>2, <1>3, <1>5, <1>7, <2>2 DEF Ahead, Out
<1>10. ASSUME NEW o \in 1 .. kept
       PROVE  label'[o - 1] = label[Ahead(Skipped(st) + o)]
  <2>1. o - 1 \in Idx /\ o - 1 < kept /\ Skipped(st) + (o - 1) + 1 = Skipped(st) + o
    BY <1>1, <1>2, <1>3 DEF Idx
  <2>2. label'[o - 1] = label[Ahead(Skipped(st) + (o - 1) + 1)]
    BY <1>7, <2>1
  <2> QED BY <2>1, <2>2
<1>11. ASSUME NEW o \in kept + 1 .. fill
       PROVE  label'[o - 1] = Stream[from + o - kept]
  <2>1. /\ o - 1 \in Idx /\ ~(o - 1 < kept) /\ o - 1 < fill
        /\ from + (o - 1) - kept + 1 = from + o - kept
    BY <1>2, <1>3, <1>4, <1>5 DEF Idx
  <2>2. label'[o - 1] = Stream[from + (o - 1) - kept + 1]
    BY <1>7, <2>1
  <2> QED BY <2>1, <2>2
<1>12. fill = kept + Lesser(Buckets - kept, Len(Stream) - from)
  BY DEF fill
<1> QED BY <1>3, <1>4, <1>5, <1>6, <1>7, <1>8, <1>9, <1>10, <1>11, <1>12 DEF kept, from

LEMMA RelabelRing ==
    ASSUME IInv, RingInv, NEW s \in StopLevels \union {NoLabel}, SetupRelabels(s)
    PROVE  RingInv'
<1> USE DEF IInv, RingInv
<1> DEFINE st == EffectiveStop(s)
           k == Skipped(st)
           kept == Pushable - k
           from == pos + Passed(st)
           filled == Pushable'
<1>1. /\ st \in Nat /\ Pushable \in 1 .. Buckets
      /\ k \in 1 .. Pushable
      /\ \A o \in 1 .. Pushable : label[Ahead(o)] <= st <=> o <= k
      /\ Passed(st) \in 0 .. Len(Stream) - pos
      /\ \A i \in pos + 1 .. Len(Stream) : Stream[i] <= st <=> i <= from
      /\ from > pos => kept = 0
  <2>1. pos \in Nat /\ Len(Stream) \in Nat
    BY StreamAssumption DEF TypeOK
  <2> HIDE DEF st
  <2>2. st = EffectiveStop(s)
    BY DEF st
  <2> QED BY <2>1, <2>2, RelabelCounts
<1>2. /\ kept \in 0 .. Buckets - 1
      /\ from \in pos .. Len(Stream)
      /\ filled \in kept .. Buckets
      /\ pos' = from + filled - kept /\ pos' \in from .. Len(Stream)
      /\ (pos' < Len(Stream) => Active' = Buckets)
      /\ ~HasFront'
      /\ \A o \in 1 .. filled : Ahead(o)' = o - 1
      /\ \A o \in 1 .. kept : label'[o - 1] = label[Ahead(k + o)]
      /\ \A o \in kept + 1 .. filled : label'[o - 1] = Stream[from + o - kept]
  BY RelabelTurns DEF HasFront
<1>3. /\ cur' \in Known /\ cur' <= st /\ RingLevel < cur' /\ RingLevel \in Int
      /\ \A l \in Known : l <= st => l <= cur'
  BY RelabelTarget DEF TypeOK, NoLabel
<1>4. /\ Known \subseteq Nat
      /\ \A o \in 1 .. Pushable : label[Ahead(o)] \in Known /\ RingLevel < label[Ahead(o)]
      /\ KnownFrom(pos + 1) \subseteq Known
      /\ KnownFrom(pos + 1) = {Stream[i] : i \in pos + 1 .. Len(Stream)}
      /\ KnownFrom(pos + 1)' = {Stream[i] : i \in pos' + 1 .. Len(Stream)}
  BY RingIsNat DEF KnownFrom
<1>5. pos \in Nat /\ Len(Stream) \in Nat /\ Buckets \in Nat
  BY StreamAssumption, SizesAssumption DEF TypeOK
<1> DEFINE lab(o) == label'[Ahead(o)']
<1> HIDE DEF st, k, from, filled
<1>6. \A o \in 1 .. filled : o \in 1 .. kept \/ o \in kept + 1 .. filled
  BY <1>1, <1>2, <1>5
<1>7. ASSUME NEW o \in 1 .. kept
      PROVE  /\ o \in 1 .. filled /\ k + o \in k + 1 .. Pushable /\ k + o \in 1 .. Pushable
             /\ lab(o) = label[Ahead(k + o)]
  <2>1. o \in 1 .. filled /\ k + o \in k + 1 .. Pushable /\ k + o \in 1 .. Pushable
    BY <1>1, <1>2, <1>5
  <2> QED BY <1>2, <2>1
<1> HIDE DEF kept
<1>8. ASSUME NEW o \in kept + 1 .. filled
      PROVE  /\ o \in 1 .. filled /\ from + o - kept \in from + 1 .. pos'
             /\ from + o - kept \in pos + 1 .. Len(Stream)
             /\ from + o - kept \in 1 .. Len(Stream)
             /\ lab(o) = Stream[from + o - kept]
  <2>1. /\ o \in 1 .. filled /\ from + o - kept \in from + 1 .. pos'
        /\ from + o - kept \in pos + 1 .. Len(Stream)
        /\ from + o - kept \in 1 .. Len(Stream)
    BY <1>2, <1>5
  <2> QED BY <1>2, <2>1
<1>9. RingAscends'
  <2>1. ASSUME NEW o \in 1 .. filled, NEW p \in 1 .. filled, o < p
        PROVE  lab(o) < lab(p)
    <3>1. CASE o \in 1 .. kept /\ p \in 1 .. kept
      <4>1. k + o < k + p
        BY <1>1, <2>1
      <4>2. lab(o) = label[Ahead(k + o)] /\ lab(p) = label[Ahead(k + p)]
        BY <1>7, <3>1
      <4>3. k + o \in 1 .. Pushable /\ k + p \in 1 .. Pushable
        BY <1>7, <3>1
      <4> QED BY <4>1, <4>2, <4>3 DEF RingAscends
    <3>2. CASE o \in 1 .. kept /\ p \in kept + 1 .. filled
      <4>1. lab(o) = label[Ahead(k + o)] /\ k + o \in 1 .. Pushable
        BY <1>7, <3>2
      <4>2. lab(p) \in KnownFrom(pos + 1)
        BY <1>4, <1>8, <3>2
      <4> QED BY <4>1, <4>2 DEF RingAscends
    <3>3. CASE o \in kept + 1 .. filled /\ p \in kept + 1 .. filled
      <4>1. /\ lab(o) = Stream[from + o - kept] /\ lab(p) = Stream[from + p - kept]
            /\ from + o - kept \in 1 .. Len(Stream) /\ from + p - kept \in 1 .. Len(Stream)
        BY <1>8, <3>3
      <4>2. from + o - kept < from + p - kept
        BY <1>2, <1>5, <2>1
      <4> QED BY <4>1, <4>2, StreamAssumption
    <3> QED BY <1>2, <1>5, <1>6, <2>1, <3>1, <3>2, <3>3
  <2>2. ASSUME NEW o \in 1 .. filled, NEW m \in KnownFrom(pos + 1)'
        PROVE  lab(o) < m
    <3>1. PICK i \in pos' + 1 .. Len(Stream) : m = Stream[i]
      BY <1>4, <2>2
    <3>2. i \in 1 .. Len(Stream) /\ i \in pos + 1 .. Len(Stream) /\ i \in Nat
      BY <1>2, <1>5, <3>1
    <3>3. CASE o \in 1 .. kept
      <4>1. lab(o) = label[Ahead(k + o)] /\ k + o \in 1 .. Pushable
        BY <1>7, <3>3
      <4>2. m \in KnownFrom(pos + 1)
        BY <1>4, <3>1, <3>2
      <4> QED BY <4>1, <4>2 DEF RingAscends
    <3>4. CASE o \in kept + 1 .. filled
      <4>1. /\ lab(o) = Stream[from + o - kept] /\ from + o - kept \in from + 1 .. pos'
            /\ from + o - kept \in 1 .. Len(Stream)
        BY <1>8, <3>4
      <4>2. from + o - kept < i
        BY <1>2, <1>5, <3>1, <4>1
      <4> QED BY <3>1, <3>2, <4>1, <4>2, StreamAssumption
    <3> QED BY <1>6, <3>3, <3>4
  <2> QED BY <2>1, <2>2 DEF RingAscends, filled
<1>10. \A l \in Known : ~(l <= st) => cur' < l
  BY <1>1, <1>3, <1>4
<1>11. \A o \in 1 .. filled : lab(o) \in Known /\ cur' < lab(o)
  <2> SUFFICES ASSUME NEW o \in 1 .. filled
               PROVE  lab(o) \in Known /\ ~(lab(o) <= st)
    BY <1>10
  <2>1. CASE o \in 1 .. kept
    <3>1. lab(o) = label[Ahead(k + o)] /\ k + o \in 1 .. Pushable /\ ~(k + o <= k)
      BY <1>1, <1>7, <2>1
    <3> QED BY <1>1, <1>4, <3>1
  <2>2. CASE o \in kept + 1 .. filled
    <3>1. /\ lab(o) = Stream[from + o - kept] /\ from + o - kept \in from + 1 .. pos'
          /\ from + o - kept \in pos + 1 .. Len(Stream)
      BY <1>8, <2>2
    <3>2. ~(from + o - kept <= from)
      BY <1>2, <1>5, <3>1
    <3> QED BY <1>1, <1>4, <3>1, <3>2
  <2> QED BY <1>6, <2>1, <2>2
<1>12. \A m \in KnownFrom(pos + 1)' : m \in Known /\ cur' < m
  <2> SUFFICES ASSUME NEW m \in KnownFrom(pos + 1)'
               PROVE  m \in Known /\ ~(m <= st)
    BY <1>10
  <2>1. PICK i \in pos' + 1 .. Len(Stream) : m = Stream[i]
    BY <1>4
  <2>2. i \in pos + 1 .. Len(Stream) /\ ~(i <= from)
    BY <1>2, <1>5, <2>1
  <2> QED BY <1>1, <1>4, <2>1, <2>2
<1>13. ASSUME NEW l \in Known, l > cur'
       PROVE  (\E o \in 1 .. filled : l = lab(o)) \/ l \in KnownFrom(pos + 1)'
  <2>1. l \in Nat /\ l > RingLevel /\ ~(l <= st)
    BY <1>3, <1>4, <1>13
  <2>2. l \in Ring \/ l \in KnownFrom(pos + 1)
    BY <2>1 DEF RingIsAhead
  <2>3. CASE l \in Ring
    <3>1. PICK q \in 1 .. Pushable : l = label[Ahead(q)]
      BY <2>3 DEF Ring
    <3>2. ~(q <= k)
      BY <1>1, <2>1, <3>1
    <3>3. q - k \in 1 .. kept /\ k + (q - k) = q
      BY <1>1, <3>1, <3>2 DEF kept
    <3> QED BY <1>7, <3>1, <3>3
  <2>4. CASE l \in KnownFrom(pos + 1)
    <3>1. PICK i \in pos + 1 .. Len(Stream) : l = Stream[i]
      BY <1>4, <2>4
    <3>2. ~(i <= from)
      BY <1>1, <2>1, <3>1
    <3>3. CASE i > pos'
      <4>1. i \in pos' + 1 .. Len(Stream)
        BY <1>2, <1>5, <3>1, <3>3
      <4> QED BY <1>4, <3>1, <4>1
    <3>4. CASE ~(i > pos')
      <4>1. i - from + kept \in kept + 1 .. filled /\ from + (i - from + kept) - kept = i
        BY <1>2, <1>5, <3>1, <3>2, <3>4
      <4> QED BY <1>8, <3>1, <4>1
    <3> QED BY <3>3, <3>4
  <2> QED BY <2>2, <2>3, <2>4
<1>14. RingIsAhead'
  <2>1. Ring' = {lab(o) : o \in 1 .. filled}
    BY DEF Ring, filled
  <2>2. RingLevel' = cur'
    BY <1>2 DEF RingLevel
  <2> HIDE DEF lab
  <2>3. Ring' \union KnownFrom(pos + 1)' = {l \in Known : l > cur'}
    BY <1>11, <1>12, <1>13, <2>1
  <2> QED BY <2>2, <2>3 DEF RingIsAhead
<1>15. FrontIsKnown' /\ RingIsFull'
  BY <1>2 DEF FrontIsKnown, RingIsFull
<1> QED BY <1>9, <1>14, <1>15

-----------------------------------------------------------------------------
(* The invariant of the ring holds                                         *)

LEMMA InitRing == Init => RingInv
<1> SUFFICES ASSUME Init PROVE RingInv
  OBVIOUS
<1> DEFINE n == InitialBuckets
<1>1. LevelSkip \in Nat /\ Buckets \in Nat /\ Len(Stream) \in Nat /\ Buckets > 1
  BY SizesAssumption, StreamAssumption
<1>2. /\ n \in 0 .. Buckets
      /\ LevelSkip + n <= Len(Stream) => pos = LevelSkip + n
      /\ LevelSkip + n > Len(Stream) => n = 0 /\ pos = Len(Stream)
      /\ pos < Len(Stream) => n = Buckets
      /\ pos \in 0 .. Len(Stream)
  BY <1>1 DEF Init, InitialBuckets, Lesser
<1> HIDE DEF n
<1>3. /\ label = [i \in Idx |-> IF i < n THEN Stream[LevelSkip + i + 1] ELSE NoLabel]
      /\ front = Out /\ back = n - 1 /\ cur = -1 /\ fwd = FALSE
  BY DEF Init, n, NoLabel
<1>4. Active = n /\ Pushable = n /\ ~HasFront /\ RingLevel = -1
  BY <1>1, <1>2, <1>3 DEF Active, Pushable, HasFront, RingLevel
<1>5. ASSUME NEW o \in 1 .. n
      PROVE  /\ label[Ahead(o)] = Stream[LevelSkip + o]
             /\ LevelSkip + o \in LevelSkip + 1 .. Len(Stream)
             /\ LevelSkip + o \in 1 .. Len(Stream)
             /\ LevelSkip + o <= pos
  <2>1. front \in -1 .. Buckets - 1 /\ o \in 1 .. Buckets /\ front + o = o - 1 /\ o - 1 < Buckets
    BY <1>1, <1>2, <1>3 DEF Out
  <2>2. Ahead(o) = o - 1
    BY <1>1, <2>1, StepsAhead DEF Ahead
  <2>3. o - 1 \in Idx /\ o - 1 < n /\ LevelSkip + (o - 1) + 1 = LevelSkip + o
    BY <1>1, <1>2 DEF Idx
  <2>4. label[o - 1] = Stream[LevelSkip + (o - 1) + 1]
    BY <1>3, <2>3
  <2> QED BY <1>1, <1>2, <2>2, <2>3, <2>4
<1>6. KnownFrom(pos + 1) = {Stream[i] : i \in pos + 1 .. Len(Stream)}
  BY DEF KnownFrom
<1>7. Known = {Stream[i] : i \in LevelSkip + 1 .. Len(Stream)} /\ Known \subseteq Nat
  BY <1>1, StreamAssumption DEF Known, KnownFrom
<1>8. RingAscends
  <2>1. ASSUME NEW o \in 1 .. n, NEW p \in 1 .. n, o < p
        PROVE  label[Ahead(o)] < label[Ahead(p)]
    <3>1. LevelSkip + o < LevelSkip + p
      BY <1>1, <1>2, <2>1
    <3> QED BY <1>5, <3>1, StreamAssumption
  <2>2. ASSUME NEW o \in 1 .. n, NEW m \in KnownFrom(pos + 1)
        PROVE  label[Ahead(o)] < m
    <3>1. PICK i \in pos + 1 .. Len(Stream) : m = Stream[i]
      BY <1>6, <2>2
    <3>2. LevelSkip + o < i /\ i \in 1 .. Len(Stream)
      BY <1>1, <1>2, <1>5, <3>1
    <3> QED BY <1>5, <3>1, <3>2, StreamAssumption
  <2> QED BY <1>4, <2>1, <2>2 DEF RingAscends
<1>9. RingIsAhead
  <2>1. Ring = {label[Ahead(o)] : o \in 1 .. n}
    BY <1>4 DEF Ring
  <2>2. ASSUME NEW l \in Ring \union KnownFrom(pos + 1)
        PROVE  l \in Known
    <3>1. CASE l \in Ring
      BY <1>5, <1>7, <2>1, <3>1
    <3>2. CASE l \in KnownFrom(pos + 1)
      <4>1. PICK i \in pos + 1 .. Len(Stream) : l = Stream[i]
        BY <1>6, <3>2
      <4>2. i \in LevelSkip + 1 .. Len(Stream)
        BY <1>1, <1>2, <4>1
      <4> QED BY <1>7, <4>1, <4>2
    <3> QED BY <2>2, <3>1, <3>2
  <2>3. ASSUME NEW l \in Known
        PROVE  l \in Ring \union KnownFrom(pos + 1)
    <3>1. PICK i \in LevelSkip + 1 .. Len(Stream) : l = Stream[i]
      BY <1>7
    <3>2. CASE i > pos
      <4>1. i \in pos + 1 .. Len(Stream)
        BY <1>1, <1>2, <3>1, <3>2
      <4> QED BY <1>6, <3>1, <4>1
    <3>3. CASE ~(i > pos)
      <4>1. i - LevelSkip \in 1 .. n /\ LevelSkip + (i - LevelSkip) = i
        BY <1>1, <1>2, <3>1, <3>3
      <4> QED BY <1>5, <2>1, <3>1, <4>1
    <3> QED BY <3>2, <3>3
  <2>4. ASSUME NEW l \in Known
        PROVE  l > RingLevel
    <3>1. l \in Nat /\ RingLevel = -1
      BY <1>4, <1>7
    <3> QED BY <3>1
  <2> QED BY <2>2, <2>3, <2>4 DEF RingIsAhead
<1>10. FrontIsKnown /\ RingIsFull
  BY <1>2, <1>4 DEF FrontIsKnown, RingIsFull
<1> QED BY <1>8, <1>9, <1>10 DEF RingInv

(* Operations that leave ring, merger and level alone.                     *)
LEMMA SameRing ==
    ASSUME RingInv, UNCHANGED <<pos, label, front, back, cur>>, fwd' = fwd \/ fwd'
    PROVE  RingInv'
<1>1. /\ Active' = Active /\ Pushable' = Pushable /\ RingLevel' = RingLevel /\ HasFront' = HasFront
      /\ \A o \in Nat : Ahead(o)' = Ahead(o)
      /\ KnownFrom(pos + 1)' = KnownFrom(pos + 1)
  BY DEF Active, Pushable, RingLevel, HasFront, Ahead, KnownFrom
<1>2. RingAscends' /\ RingIsAhead'
  BY DEF RingInv, RingAscends, RingIsAhead, Ring, Active, Pushable, RingLevel, HasFront,
         Ahead, KnownFrom
<1>3. FrontIsKnown' /\ RingIsFull'
  BY <1>1 DEF RingInv, FrontIsKnown, RingIsFull
<1> QED BY <1>2, <1>3 DEF RingInv

LEMMA ForwardStopsRing ==
    ASSUME IInv, RingInv, ForwardStops
    PROVE  RingInv'
<1>1. HasFront
  BY DEF IInv, ForwardsAtLeastOnce, ForwardStops
<1>2. RingLevel' = RingLevel
  BY <1>1 DEF RingLevel, HasFront, ForwardStops
<1>3. RingAscends' /\ RingIsAhead'
  BY <1>2 DEF RingInv, RingAscends, RingIsAhead, Ring, Active, Pushable, HasFront,
              Ahead, KnownFrom, ForwardStops
<1>4. FrontIsKnown' /\ RingIsFull'
  BY DEF RingInv, FrontIsKnown, RingIsFull, HasFront, ForwardStops, Active
<1> QED BY <1>3, <1>4 DEF RingInv

LEMMA StepRing == IInv /\ RingInv /\ [Next]_vars => RingInv'
<1> SUFFICES ASSUME IInv, RingInv, [Next]_vars PROVE RingInv'
  OBVIOUS
<1>1. CASE \E e \in Element : Push(e)
  BY <1>1, SameRing DEF Push
<1>2. CASE Top \/ PullCached \/ Pull
  BY <1>2, SameRing DEF Top, PullCached, Pull
<1>3. ASSUME NEW s \in StopLevels \union {NoLabel}, Setup(s)
      PROVE  RingInv'
  <2>1. CASE SetupStays(s)
    BY <2>1, SameRing DEF SetupStays, vars
  <2>2. CASE SetupForwards(s)
    BY <2>2, SameRing DEF SetupForwards
  <2> QED BY <1>3, <2>1, <2>2, RelabelRing DEF Setup
<1>4. CASE ForwardStops \/ Forward
  BY <1>4, ForwardStopsRing, ForwardRing
<1>5. CASE UNCHANGED vars
  BY <1>5, SameRing DEF vars
<1> QED BY <1>1, <1>2, <1>3, <1>4, <1>5 DEF Next

LEMMA RingInvariance == Spec => [](IInv /\ RingInv)
<1>1. Init => IInv /\ RingInv
  BY InitEstablishes, InitRing
<1>2. IInv /\ RingInv /\ [Next]_vars => (IInv /\ RingInv)'
  BY StepPreserves, StepRing
<1> QED BY <1>1, <1>2, PTL DEF Spec

(***************************************************************************)
(* The buckets ahead in the ring and the levels left in the merger are the *)
(* known levels past the current one, in order: whatever the number of     *)
(* buckets and of levels skipped, wrapping around, recycling and           *)
(* relabelling lose, repeat or reorder no level.                           *)
(***************************************************************************)
THEOREM RingIsCovered == Spec => []RingCoversTheLevelsAhead
<1>1. IInv /\ RingInv => RingCoversTheLevelsAhead
  <2> SUFFICES ASSUME IInv, RingInv PROVE RingCoversTheLevelsAhead
    OBVIOUS
  <2>1. ~fwd => RingLevel = cur
    BY DEF RingInv, FrontIsKnown, RingLevel
  <2>2. ~fwd => Ring \union KnownFrom(pos + 1) = {l \in Known : l > cur}
    BY <2>1 DEF RingInv, RingIsAhead
  <2>3. \A l \in Ring, m \in KnownFrom(pos + 1) : l < m
    BY DEF RingInv, RingAscends, Ring
  <2>4. \A o, p \in 1 .. Pushable : o < p => label[Ahead(o)] < label[Ahead(p)]
    BY DEF RingInv, RingAscends
  <2> QED BY <2>2, <2>3, <2>4 DEF RingCoversTheLevelsAhead, Ring
<1> QED BY <1>1, RingInvariance, PTL

-----------------------------------------------------------------------------
(* Sorted buckets                                                          *)

(* When all buckets are in use, every one beside the front is ahead of it. *)
LEMMA FullRing ==
    ASSUME TypeOK, HasFront, Pushable = Buckets - 1, NEW i \in Idx, i # front
    PROVE  \E o \in 1 .. Pushable : i = Ahead(o)
<1>1. front \in 0 .. Buckets - 1 /\ i \in 0 .. Buckets - 1 /\ Buckets \in Nat
  BY SizesAssumption DEF TypeOK, HasFront, Idx
<1> DEFINE o == IF i > front THEN i - front ELSE i - front + Buckets
<1>2. o \in 1 .. Buckets - 1 /\ o \in 1 .. Buckets
  BY <1>1
<1>3. Ahead(o) = IF front + o < Buckets THEN front + o ELSE front + o - Buckets
  <2> HIDE DEF o
  <2> QED BY <1>2, AheadIs
<1>4. Ahead(o) = i
  BY <1>1, <1>3
<1> QED BY <1>2, <1>4

LEMMA ForwardUnsorted ==
    ASSUME IInv, RingInv, PushableBucketsAreUnsorted, Forward
    PROVE  PushableBucketsAreUnsorted'
<1> USE DEF IInv, RingInv
<1>1. /\ Pushable \in 1 .. Buckets
      /\ front' = Ahead(1)
      /\ \A o \in 1 .. Pushable - 1 : Ahead(o)' = Ahead(o + 1)
      /\ Replaces => Pushable' = Pushable /\ Ahead(Pushable)' = front
      /\ ~Replaces => Pushable' = Pushable - 1
  BY ForwardTurns
<1>2. sorted' = [i \in Idx |-> IF i = Ahead(1) THEN TRUE
                               ELSE IF Replaces /\ i = front THEN FALSE ELSE sorted[i]]
  BY DEF Forward
<1>3. ASSUME NEW o \in 1 .. Pushable - 1
      PROVE  ~sorted'[Ahead(o + 1)]
  <2>1. o + 1 \in 1 .. Pushable /\ o + 1 \in 1 .. Buckets /\ 1 \in 1 .. Buckets /\ o + 1 # 1
    BY <1>1, SizesAssumption
  <2>2. Ahead(o + 1) # Ahead(1) /\ Ahead(o + 1) \in Idx
    BY <2>1, AheadInjective, AheadInRing
  <2>3. ~sorted[Ahead(o + 1)]
    BY <2>1 DEF PushableBucketsAreUnsorted
  <2> QED BY <1>2, <2>2, <2>3
<1>4. Replaces => ~sorted'[front]
  <2> SUFFICES ASSUME Replaces PROVE ~sorted'[front]
    OBVIOUS
  <2>1. front \in Idx /\ front # Ahead(1)
    BY AheadIsNotFront, SizesAssumption DEF Replaces, TypeOK, HasFront
  <2> QED BY <1>2, <2>1
<1> SUFFICES ASSUME NEW o \in 1 .. Pushable'
             PROVE  ~sorted'[Ahead(o)']
  BY DEF PushableBucketsAreUnsorted
<1>5. CASE o \in 1 .. Pushable - 1
  BY <1>1, <1>3, <1>5
<1>6. CASE Replaces /\ o = Pushable
  <2>1. Ahead(o)' = front
    BY <1>1, <1>6 DEF Ahead
  <2> QED BY <1>4, <1>6, <2>1
<1> QED BY <1>1, <1>5, <1>6

LEMMA RelabelUnsorted ==
    ASSUME Buckets <= 3, IInv, RingInv, PushableBucketsAreUnsorted,
           NEW s \in StopLevels \union {NoLabel}, SetupRelabels(s)
    PROVE  PushableBucketsAreUnsorted'
<1> USE DEF IInv, RingInv
<1> DEFINE st == EffectiveStop(s)
           kept == Pushable - Skipped(st)
           from == pos + Passed(st)
           filled == Pushable'
<1>1. /\ Pushable \in 1 .. Buckets /\ (HasFront => Pushable < Buckets)
      /\ Skipped(st) \in 1 .. Pushable
  BY RelabelCounts
<1>2. /\ kept \in 0 .. Buckets - 1
      /\ from \in pos .. Len(Stream)
      /\ filled \in kept .. Buckets
      /\ filled = kept + Lesser(Buckets - kept, Len(Stream) - from)
      /\ \A o \in 1 .. filled : Ahead(o)' = o - 1
  <2> HIDE DEF st
  <2>1. st = EffectiveStop(s)
    BY DEF st
  <2> QED BY <2>1, RelabelTurns
<1>3. back' = filled - 1
  <2> DEFINE fill == kept + Lesser(Buckets - kept, Len(Stream) - from)
  <2> HIDE DEF st, kept, from, fill
  <2>1. back' = fill - 1
    BY DEF SetupRelabels, st, kept, from, fill
  <2> QED BY <1>2, <2>1 DEF fill
<1>4. sorted' = IF ResetsFront(back') THEN [sorted EXCEPT ![front] = FALSE] ELSE sorted
  BY DEF SetupRelabels
<1>5. Len(Stream) \in Nat /\ pos \in 0 .. Len(Stream) /\ Buckets \in Nat
  BY StreamAssumption, SizesAssumption DEF TypeOK
<1>6. pos < Len(Stream) => Pushable = IF HasFront THEN Buckets - 1 ELSE Buckets
  BY PushableIs DEF RingIsFull
<1> HIDE DEF st, from, filled
<1>7. pos = Len(Stream) => filled = kept /\ kept < Pushable
  BY <1>1, <1>2, <1>5 DEF Lesser
<1> HIDE DEF kept
<1> SUFFICES ASSUME NEW o \in 1 .. filled
             PROVE  ~sorted'[o - 1]
  BY <1>2 DEF PushableBucketsAreUnsorted, filled
<1>8. o - 1 \in Idx /\ o \in 1 .. Buckets
  BY <1>2, <1>5 DEF Idx
<1>9. CASE ~HasFront
  <2>1. o \in 1 .. Pushable
    BY <1>1, <1>2, <1>5, <1>6, <1>7, <1>9
  <2>2. Ahead(o) = o - 1
    BY <1>5, <1>8, <1>9, AheadIs DEF HasFront, Out
  <2>3. ~sorted[o - 1]
    BY <2>1, <2>2 DEF PushableBucketsAreUnsorted
  <2> QED BY <1>4, <1>9, <2>3 DEF ResetsFront
<1>10. CASE HasFront
  <2>1. Pushable = Buckets - 1
    BY <1>1, <1>2, <1>5, <1>6, <1>7, <1>10
  <2>2. CASE o - 1 = front
    <3>1. ResetsFront(back')
      BY <1>2, <1>5, <1>10, <1>3, <2>2 DEF ResetsFront
    <3>2. sorted' = [sorted EXCEPT ![front] = FALSE]
      BY <1>4, <3>1
    <3> QED BY <1>8, <2>2, <3>2 DEF TypeOK
  <2>3. CASE o - 1 # front
    <3>1. \E p \in 1 .. Pushable : o - 1 = Ahead(p)
      BY <1>8, <1>10, <2>1, <2>3, FullRing
    <3>2. ~sorted[o - 1]
      BY <3>1 DEF PushableBucketsAreUnsorted
    <3> QED BY <1>4, <1>8, <2>3, <3>2 DEF TypeOK
  <2> QED BY <2>2, <2>3
<1> QED BY <1>9, <1>10

LEMMA SameUnsorted ==
    ASSUME PushableBucketsAreUnsorted, UNCHANGED <<front, back, sorted>>
    PROVE  PushableBucketsAreUnsorted'
  BY DEF PushableBucketsAreUnsorted, Ahead, Pushable, Active, HasFront

LEMMA StepUnsorted ==
    ASSUME Buckets <= 3
    PROVE  IInv /\ RingInv /\ PushableBucketsAreUnsorted /\ [Next]_vars
                => PushableBucketsAreUnsorted'
<1> SUFFICES ASSUME IInv, RingInv, PushableBucketsAreUnsorted, [Next]_vars
             PROVE  PushableBucketsAreUnsorted'
  OBVIOUS
<1>1. CASE \E e \in Element : Push(e)
  BY <1>1, SameUnsorted DEF Push
<1>2. CASE Top \/ PullCached \/ Pull
  BY <1>2, SameUnsorted DEF Top, PullCached, Pull
<1>3. ASSUME NEW s \in StopLevels \union {NoLabel}, Setup(s)
      PROVE  PushableBucketsAreUnsorted'
  <2>1. CASE SetupStays(s)
    BY <2>1, SameUnsorted DEF SetupStays, vars
  <2>2. CASE SetupForwards(s)
    BY <2>2, SameUnsorted DEF SetupForwards
  <2> QED BY <1>3, <2>1, <2>2, RelabelUnsorted DEF Setup
<1>4. CASE ForwardStops
  BY <1>4, SameUnsorted DEF ForwardStops
<1>5. CASE Forward
  BY <1>5, ForwardUnsorted
<1>6. CASE UNCHANGED vars
  BY <1>6, SameUnsorted DEF vars
<1> QED BY <1>1, <1>2, <1>3, <1>4, <1>5, <1>6 DEF Next

(***************************************************************************)
(* With at most three buckets - the queues of the library have two - no    *)
(* bucket that can be pushed to has been sorted: sorter::push and          *)
(* sorter::sort are never called on a sorter that is read-only.  (With     *)
(* four, relabelling can bring a bucket that was left behind, and never    *)
(* recycled, back into the ring.)                                          *)
(***************************************************************************)
THEOREM PushableAreUnsorted ==
    ASSUME Buckets <= 3
    PROVE  Spec => []PushableBucketsAreUnsorted
<1>1. Init => PushableBucketsAreUnsorted
  <2> SUFFICES ASSUME Init, NEW o \in 1 .. Pushable
               PROVE  ~sorted[Ahead(o)]
    BY DEF PushableBucketsAreUnsorted
  <2>1. o \in Nat \ {0}
    OBVIOUS
  <2>2. Ahead(o) \in Idx
    BY <2>1, AheadInRing, InitEstablishes DEF IInv
  <2> QED BY <2>2 DEF Init
<1>2. IInv /\ RingInv /\ PushableBucketsAreUnsorted /\ [Next]_vars
        => PushableBucketsAreUnsorted'
  BY StepUnsorted
<1> QED BY <1>1, <1>2, RingInvariance, PTL DEF Spec

-----------------------------------------------------------------------------
(* The queue as a whole: where it keeps an element, in which order it      *)
(* takes elements out and to which level it moves                          *)

(* The inductive invariant of what the queue holds                         *)

(* Only the front bucket and those that can be pushed to hold elements.    *)
OutsideIsEmpty ==
    \A i \in Idx : bucket[i] # {} => i = front \/ \E o \in 1 .. Pushable : i = Ahead(o)

(* The element taken from the front bucket comes before those left in it.  *)
NextIsLeast == \A e \in next : \A f \in bucket[front] : ~Less(f, e)

(* The overflow queue holds nothing behind the current level.              *)
OverflowIsAhead == \A e \in overflow : cur <= e.level

(* The cached element is one pull() might return.                          *)
TopIsLeast ==
    \A t \in top : /\ t.level = cur
                   /\ \A f \in Stored : f.level = cur => t.key <= f.key

(* While the queue moves on: there is a bucket with an element to be found,*)
(* at or before the stop level, and nothing is left at the level it is     *)
(* leaving.                                                                *)
ForwardFinds ==
    fwd => /\ HasNext /\ top = {} /\ InBuckets # {}
           /\ HasFront => cur <= label[front]
           /\ \A e \in overflow : cur < e.level /\ stop # NoLabel /\ stop <= e.level
           /\ stop \in {NoLabel} \union StopLevels \union {e.level : e \in overflow}
           /\ StopsBeforeNext(stop) => HasFront /\ cur < label[front]
           /\ HasFront /\ cur < label[front] /\ stop # NoLabel => label[front] <= stop

ContentInv ==
    /\ OutsideIsEmpty
    /\ NextIsLeast
    /\ OverflowIsAhead
    /\ TopIsLeast
    /\ ForwardFinds

-----------------------------------------------------------------------------
(* Where elements are                                                      *)

(* Nothing in the buckets is behind the ring, and what is at its level is  *)
(* in the front bucket.                                                    *)
LEMMA BucketsAreAhead ==
    ASSUME IInv, RingInv, OutsideIsEmpty
    PROVE  /\ RingLevel \in Int
           /\ \A e \in InBuckets :
                /\ e.level \in Nat
                /\ RingLevel <= e.level
                /\ e.level = RingLevel => HasFront /\ e \in bucket[front]
<1> USE DEF IInv, RingInv
<1>1. RingLevel \in Int
  BY DEF RingLevel, TypeOK, HasFront, NoLabel
<1> SUFFICES ASSUME NEW e \in InBuckets
             PROVE  /\ e.level \in Nat
                    /\ RingLevel <= e.level
                    /\ e.level = RingLevel => HasFront /\ e \in bucket[front]
  BY <1>1
<1>2. PICK i \in Idx : e \in bucket[i]
  BY DEF InBuckets
<1>3. e \in Element /\ e.level \in Nat /\ e.level = label[i]
  BY <1>2, LevelsAreNat DEF TypeOK, BucketsHoldTheirLevel
<1>4. i = front \/ \E o \in 1 .. Pushable : i = Ahead(o)
  BY <1>2 DEF OutsideIsEmpty
<1>5. CASE i = front
  BY <1>2, <1>3, <1>5, SizesAssumption DEF RingLevel, HasFront, Idx, Out
<1>6. ASSUME NEW o \in 1 .. Pushable, i = Ahead(o)
      PROVE  RingLevel < e.level
  BY <1>3, <1>6, RingIsNat
<1> QED BY <1>1, <1>3, <1>4, <1>5, <1>6

(* While the queue is not moving on, nothing it holds is behind the        *)
(* current level, and what is at it can be pulled.                         *)
LEMMA StoredIsAhead ==
    ASSUME IInv, RingInv, ContentInv, ~fwd
    PROVE  /\ cur \in Int /\ RingLevel = cur
           /\ \A e \in Stored \union top : e.level \in Int /\ cur <= e.level
           /\ \A e \in Stored : e.level = cur =>
                \/ HasFront /\ e \in bucket[front]
                \/ e \in next
                \/ e \in overflow
<1> USE DEF IInv, RingInv, ContentInv
<1>1. cur \in Int /\ RingLevel = cur
  BY DEF TypeOK, NoLabel, RingLevel, FrontIsKnown
<1>2. \A e \in overflow \union top \union next : e.level \in Nat
  BY LevelsAreNat DEF TypeOK
<1>3. \A e \in next : e.level = cur
  BY DEF NextIsCurrent, BucketsHoldTheirLevel
<1>4. \A e \in top : e.level = cur
  BY DEF TopIsLeast
<1>5. \A e \in overflow : cur <= e.level
  BY DEF OverflowIsAhead
<1>6. \A e \in InBuckets : /\ e.level \in Nat /\ cur <= e.level
                           /\ e.level = cur => HasFront /\ e \in bucket[front]
  BY <1>1, BucketsAreAhead
<1> QED BY <1>1, <1>2, <1>3, <1>4, <1>5, <1>6 DEF Stored

(* Where push() puts an element.                                           *)
LEMMA PushPlaces ==
    ASSUME IInv, RingInv, NEW e \in Element, Push(e)
    PROVE  /\ e.level \in Nat /\ cur < e.level /\ cur \in Int
           /\ Stored' = Stored \union {e}
           /\ e \notin Stored \union top
           /\ \/ /\ overflow' = overflow
                 /\ \E o \in 1 .. Pushable :
                      /\ Ahead(o) \in Idx /\ (HasFront => Ahead(o) # front)
                      /\ bucket' = [bucket EXCEPT ![Ahead(o)] = @ \union {e}]
              \/ bucket' = bucket /\ overflow' = overflow \union {e}
<1> USE DEF IInv, RingInv
<1>1. e.level \in Nat /\ cur \in Int
  BY LevelsAreNat DEF TypeOK, NoLabel
<1>2. Pushable \in 1 .. Buckets /\ (HasFront => Pushable \in 1 .. Buckets - 1)
  BY PushableRange DEF Push
<1>3. cur < e.level
  <2>1. RingLevel < NextLevel /\ NextLevel \in Nat
    BY <1>2, RingIsNat DEF NextLevel
  <2>2. RingLevel = cur
    BY DEF RingLevel, FrontIsKnown, Push
  <2> QED BY <1>1, <2>1, <2>2 DEF Push
<1>4. \A o \in 1 .. Pushable : Ahead(o) \in Idx /\ (HasFront => Ahead(o) # front)
  <2> SUFFICES ASSUME NEW o \in 1 .. Pushable
               PROVE  Ahead(o) \in Idx /\ (HasFront => Ahead(o) # front)
    OBVIOUS
  <2>1. o \in Nat \ {0} /\ (HasFront => o \in 1 .. Buckets - 1)
    BY <1>2, SizesAssumption
  <2> QED BY <2>1, AheadInRing, AheadIsNotFront
<1>5. \/ /\ overflow' = overflow
         /\ \E o \in 1 .. Pushable :
              bucket' = [bucket EXCEPT ![Ahead(o)] = @ \union {e}]
      \/ bucket' = bucket /\ overflow' = overflow \union {e}
  BY DEF Push
<1>6. Stored' = Stored \union {e}
  <2>1. CASE bucket' = bucket /\ overflow' = overflow \union {e}
    BY <2>1 DEF Stored, InBuckets, Push
  <2>2. ASSUME NEW o \in 1 .. Pushable, overflow' = overflow,
               bucket' = [bucket EXCEPT ![Ahead(o)] = @ \union {e}]
        PROVE  Stored' = Stored \union {e}
    <3>1. InBuckets' = InBuckets \union {e}
      BY <1>4, <2>2 DEF InBuckets, TypeOK
    <3> QED BY <2>2, <3>1 DEF Stored, Push
  <2> QED BY <1>5, <2>1, <2>2
<1> QED BY <1>1, <1>3, <1>4, <1>5, <1>6 DEF Push

(* What top() and pull() take out is of the current level and has a least  *)
(* key among what is left at it.                                           *)
LEMMA TakesLeast ==
    ASSUME IInv, RingInv, ContentInv, ~fwd, ~EmptyLevel, top = {},
           NEW e \in Element, TakeOut(e)
    PROVE  /\ e \in Stored /\ e.level = cur
           /\ \A f \in Stored : f.level = cur => e.key <= f.key
<1> USE DEF IInv, RingInv, ContentInv
<1>1. /\ cur \in Int
      /\ \A f \in Stored : f.level \in Int /\ cur <= f.level
      /\ \A f \in Stored : f.level = cur =>
                \/ HasFront /\ f \in bucket[front]
                \/ f \in next
                \/ f \in overflow
  BY StoredIsAhead
<1>2. e \in Stored
  BY TakeOutPreserves
<1>3. \A f \in Element : f.key \in Nat /\ f.level \in Nat
  BY LevelsAreNat, ElementAssumption
<1>4. /\ HasFront => bucket[front] \subseteq Element
      /\ next \subseteq Element /\ overflow \subseteq Element
      /\ next \subseteq Stored /\ overflow \subseteq Stored
      /\ \A f \in next : f.level = cur
  BY DEF TypeOK, Stored, NextIsCurrent, BucketsHoldTheirLevel, HasFront
<1>5. next # {} \/ \E f \in overflow : f.level = cur
  <2>1. next # {} \/ cur \in OverflowTop
    BY DEF EmptyLevel
  <2> QED BY <2>1 DEF OverflowTop, Least
<1>6. CASE PullFromBucket(e)
  <2>1. next = {e} /\ e.level = cur /\ HasFront
    BY <1>4, <1>6 DEF PullFromBucket, NextIsCurrent
  <2>2. \A f \in bucket[front] : ~Less(f, e)
    BY <2>1 DEF NextIsLeast
  <2>3. \A f \in overflow : f.level = cur => e.key <= f.key
    <3> SUFFICES ASSUME NEW f \in overflow, f.level = cur
                 PROVE  e.key <= f.key
      OBVIOUS
    <3>1. PICK h \in Least(overflow) : TRUE
      BY LeastExists DEF TypeOK
    <3>2. h \in overflow /\ Less(e, h) /\ ~Less(f, h)
      BY <1>6, <3>1 DEF PullFromBucket, Least
    <3>3. h \in Stored /\ h \in Element /\ f \in Element
      BY <1>4, <3>2
    <3>4. h.level = cur
      BY <1>1, <2>1, <3>2, <3>3 DEF Less
    <3> QED BY <1>3, <2>1, <3>2, <3>3, <3>4 DEF Less
  <2>4. \A f \in bucket[front] : f.level = cur => e.key <= f.key
    BY <1>3, <1>4, <2>1, <2>2 DEF Less
  <2> QED BY <1>1, <1>2, <1>3, <2>1, <2>3, <2>4
<1>7. CASE PullFromOverflow(e)
  <2>1. e \in overflow /\ \A f \in overflow : ~Less(f, e)
    BY <1>7 DEF PullFromOverflow, Least
  <2>2. \A f \in next : ~Less(f, e)
    BY <1>7 DEF PullFromOverflow
  <2>3. e.level = cur
    <3>1. cur <= e.level /\ e.level \in Int
      BY <1>1, <1>2
    <3>2. PICK f \in next \union overflow : f.level = cur
      BY <1>4, <1>5
    <3>3. ~Less(f, e)
      BY <2>1, <2>2
    <3> QED BY <1>1, <3>1, <3>2, <3>3 DEF Less
  <2>4. \A f \in next \union overflow : f.level = cur => e.key <= f.key
    BY <1>3, <1>4, <2>1, <2>2, <2>3 DEF Less
  <2>5. ASSUME NEW f \in bucket[front], HasFront, f.level = cur
        PROVE  e.key <= f.key
    <3>1. PICK g \in next : TRUE
      BY <2>5 DEF FrontIsSpent
    <3>2. ~Less(f, g) /\ g.level = cur /\ e.key <= g.key
      BY <1>4, <2>4, <2>5, <3>1 DEF NextIsLeast
    <3>3. f \in Element /\ g \in Element
      BY <1>4, <2>5, <3>1
    <3> QED BY <1>3, <2>5, <3>2, <3>3 DEF Less
  <2> QED BY <1>1, <1>2, <2>3, <2>4, <2>5
<1> QED BY <1>6, <1>7 DEF TakeOut

-----------------------------------------------------------------------------
(* Each operation preserves the order                                      *)

LEMMA PushContent ==
    ASSUME IInv, RingInv, ContentInv, NEW e \in Element, Push(e)
    PROVE  ContentInv'
<1> USE DEF IInv, RingInv, ContentInv
<1>1. /\ e.level \in Nat /\ cur < e.level /\ cur \in Int
      /\ Stored' = Stored \union {e}
      /\ UNCHANGED <<front, back, next, top, cur, fwd>> /\ ~fwd
  BY PushPlaces DEF Push
<1>2. CASE bucket' = bucket /\ overflow' = overflow \union {e}
  <2>1. OutsideIsEmpty' /\ NextIsLeast'
    BY <1>1, <1>2 DEF OutsideIsEmpty, NextIsLeast, Ahead, Pushable, Active, HasFront
  <2>2. OverflowIsAhead'
    BY <1>1, <1>2 DEF OverflowIsAhead
  <2>3. TopIsLeast' /\ ForwardFinds'
    BY <1>1 DEF TopIsLeast, ForwardFinds
  <2> QED BY <2>1, <2>2, <2>3
<1>3. ASSUME NEW o \in 1 .. Pushable, overflow' = overflow,
             Ahead(o) \in Idx, HasFront => Ahead(o) # front,
             bucket' = [bucket EXCEPT ![Ahead(o)] = @ \union {e}]
      PROVE  ContentInv'
  <2>1. Pushable' = Pushable /\ \A p \in 1 .. Pushable : Ahead(p)' = Ahead(p)
    BY <1>1 DEF Ahead, Pushable, Active, HasFront
  <2>2. \A i \in Idx : bucket'[i] # {} => bucket[i] # {} \/ i = Ahead(o)
    BY <1>3 DEF TypeOK
  <2>3. OutsideIsEmpty'
    <3> SUFFICES ASSUME NEW i \in Idx, bucket'[i] # {}
                 PROVE  i = front' \/ \E p \in 1 .. Pushable' : i = Ahead(p)'
      BY DEF OutsideIsEmpty
    <3>1. i = front \/ \E p \in 1 .. Pushable : i = Ahead(p)
      BY <1>3, <2>2 DEF OutsideIsEmpty
    <3> QED BY <1>1, <2>1, <3>1
  <2>4. NextIsLeast'
    BY <1>1, <1>3 DEF NextIsLeast, NextIsCurrent, HasFront, TypeOK
  <2>5. OverflowIsAhead' /\ TopIsLeast' /\ ForwardFinds'
    BY <1>1, <1>3 DEF OverflowIsAhead, TopIsLeast, ForwardFinds
  <2> QED BY <2>3, <2>4, <2>5
<1> QED BY <1>2, <1>3, PushPlaces

(* Taking an element out leaves the rest in order.                         *)
LEMMA TakeOutContent ==
    ASSUME IInv, ContentInv, ~fwd, NEW e \in Element, TakeOut(e),
           UNCHANGED <<front, back, cur, fwd>>
    PROVE  OutsideIsEmpty' /\ NextIsLeast' /\ OverflowIsAhead' /\ ForwardFinds'
<1> USE DEF IInv, ContentInv
<1>1. (\A i \in Idx : bucket'[i] \subseteq bucket[i]) /\ bucket' \in [Idx -> SUBSET Element]
  BY TakeOutPreserves
<1>2. OutsideIsEmpty'
  <2>1. Pushable' = Pushable /\ \A p \in 1 .. Pushable : Ahead(p)' = Ahead(p)
    BY DEF Ahead, Pushable, Active, HasFront
  <2> SUFFICES ASSUME NEW i \in Idx, bucket'[i] # {}
               PROVE  i = front' \/ \E p \in 1 .. Pushable' : i = Ahead(p)'
    BY DEF OutsideIsEmpty
  <2>2. i = front \/ \E p \in 1 .. Pushable : i = Ahead(p)
    BY <1>1 DEF OutsideIsEmpty
  <2> QED BY <2>1, <2>2
<1>3. NextIsLeast' /\ OverflowIsAhead'
  <2>1. CASE PullFromBucket(e)
    <3>1. HasFront /\ front \in Idx /\ overflow' = overflow
      BY <2>1 DEF PullFromBucket, NextIsCurrent, HasFront, TypeOK
    <3>2. CASE next' = {}
      BY <3>1, <3>2 DEF NextIsLeast, OverflowIsAhead
    <3>3. ASSUME NEW f \in Least(bucket[front]), next' = {f},
                 bucket' = [bucket EXCEPT ![front] = @ \ {f}]
          PROVE  NextIsLeast' /\ OverflowIsAhead'
      BY <3>1, <3>3 DEF NextIsLeast, OverflowIsAhead, Least, TypeOK
    <3> QED BY <2>1, <3>2, <3>3 DEF PullFromBucket
  <2>2. CASE PullFromOverflow(e)
    BY <2>2 DEF PullFromOverflow, NextIsLeast, OverflowIsAhead
  <2> QED BY <2>1, <2>2 DEF TakeOut
<1>4. ForwardFinds'
  BY DEF ForwardFinds
<1> QED BY <1>2, <1>3, <1>4

LEMMA TopContent == IInv /\ RingInv /\ ContentInv /\ Top => ContentInv'
<1> SUFFICES ASSUME IInv, RingInv, ContentInv, Top PROVE ContentInv'
  OBVIOUS
<1>1. PICK e \in Element : TakeOut(e) /\ top' = {e}
  BY DEF Top
<1>2. OutsideIsEmpty' /\ NextIsLeast' /\ OverflowIsAhead' /\ ForwardFinds'
  BY <1>1, TakeOutContent DEF Top
<1>3. /\ e.level = cur /\ (\A f \in Stored : f.level = cur => e.key <= f.key)
      /\ Stored' \subseteq Stored
  BY <1>1, TakesLeast, TakeOutPreserves DEF Top
<1>4. TopIsLeast'
  BY <1>1, <1>3 DEF TopIsLeast, Top
<1> QED BY <1>2, <1>4 DEF ContentInv

LEMMA PullContent == IInv /\ RingInv /\ ContentInv /\ Pull => ContentInv'
<1> SUFFICES ASSUME IInv, RingInv, ContentInv, Pull PROVE ContentInv'
  OBVIOUS
<1>1. PICK e \in Element : TakeOut(e)
  BY DEF Pull
<1>2. OutsideIsEmpty' /\ NextIsLeast' /\ OverflowIsAhead' /\ ForwardFinds'
  BY <1>1, TakeOutContent DEF Pull
<1>3. TopIsLeast'
  BY DEF TopIsLeast, Pull
<1> QED BY <1>2, <1>3 DEF ContentInv

LEMMA PullCachedContent == ContentInv /\ PullCached => ContentInv'
<1> SUFFICES ASSUME ContentInv, PullCached PROVE ContentInv'
  OBVIOUS
<1> USE DEF ContentInv, PullCached
<1>1. OutsideIsEmpty' /\ NextIsLeast' /\ OverflowIsAhead'
  BY DEF OutsideIsEmpty, NextIsLeast, OverflowIsAhead, Ahead, Pushable, Active, HasFront
<1>2. TopIsLeast' /\ ForwardFinds'
  BY DEF TopIsLeast, ForwardFinds
<1> QED BY <1>1, <1>2

(* setup_next_level is only called with no element cached.                 *)
LEMMA SetupFindsNoTop ==
    ASSUME IInv, ContentInv, NEW s, MaySetup(s)
    PROVE  top = {} /\ next = {}
<1>1. \A e \in next \union top : e.level \in Nat /\ e.level = cur
  BY LevelsAreNat DEF IInv, TypeOK, NextIsCurrent, BucketsHoldTheirLevel, ContentInv, TopIsLeast
<1> QED BY <1>1 DEF MaySetup, EmptyLevel, NoLabel

LEMMA RelabelContent ==
    ASSUME IInv, RingInv, ContentInv, NEW s \in StopLevels \union {NoLabel}, SetupRelabels(s)
    PROVE  ContentInv'
<1> USE DEF IInv, RingInv, ContentInv
<1> DEFINE st == EffectiveStop(s)
<1>1. top = {} /\ next = {}
  BY SetupFindsNoTop DEF SetupRelabels
<1>2. \A i \in Idx : bucket[i] = {}
  BY SizesAgree DEF SetupRelabels
<1>3. bucket' = bucket
  BY <1>2 DEF SetupRelabels, TypeOK
<1>4. cur' <= st /\ cur' \in Nat
  <2> HIDE DEF st
  <2>1. st = EffectiveStop(s)
    BY DEF st
  <2>2. Known \subseteq Nat
    BY RingIsNat
  <2> QED BY <2>1, <2>2, RelabelTarget
<1>5. \A e \in overflow : e.level \in Nat /\ st <= e.level /\ st \in Nat
  BY LevelsAreNat, EffectiveStopIs DEF TypeOK
<1>6. OverflowIsAhead'
  <2>1. overflow' = overflow
    BY DEF SetupRelabels
  <2> HIDE DEF st
  <2> QED BY <1>4, <1>5, <2>1 DEF OverflowIsAhead
<1>7. UNCHANGED <<next, top, fwd>> /\ ~fwd
  BY DEF SetupRelabels, MaySetup
<1> QED BY <1>1, <1>2, <1>3, <1>6, <1>7
        DEF OutsideIsEmpty, NextIsLeast, TopIsLeast, ForwardFinds

LEMMA SetupForwardsContent ==
    ASSUME IInv, RingInv, ContentInv, NEW s \in StopLevels \union {NoLabel}, SetupForwards(s)
    PROVE  ContentInv'
<1> USE DEF IInv, RingInv, ContentInv
<1>1. top = {} /\ next = {} /\ HasNext
  BY SetupFindsNoTop DEF SetupForwards, MaySetup
<1>2. /\ UNCHANGED <<bucket, front, back, next, overflow, top, cur, label>>
      /\ stop' = EffectiveStop(s) /\ fwd'
  BY DEF SetupForwards
<1>3. OutsideIsEmpty' /\ NextIsLeast' /\ OverflowIsAhead' /\ TopIsLeast'
  BY <1>1, <1>2 DEF OutsideIsEmpty, NextIsLeast, OverflowIsAhead, TopIsLeast,
                    Ahead, Pushable, Active, HasFront
<1>4. InBuckets # {}
  <2> SUFFICES ASSUME InBuckets = {} PROVE FALSE
    OBVIOUS
  <2>1. Stored = overflow
    BY <1>1 DEF Stored
  <2>2. Cardinality(top) = 0
    BY <1>1, FS_EmptySet
  <2>3. size = Cardinality(overflow) /\ Cardinality(overflow) \in Nat
    BY <2>1, StoredFinite, FS_CardinalityType DEF SizeExact
  <2> QED BY <2>2, <2>3 DEF SetupForwards, BucketsAreEmpty
<1>5. \A e \in overflow : cur < e.level
  <2> SUFFICES ASSUME NEW e \in overflow
               PROVE  cur < e.level
    OBVIOUS
  <2>1. e.level \in Nat /\ cur <= e.level /\ cur \in Int
    BY LevelsAreNat DEF TypeOK, OverflowIsAhead, NoLabel
  <2>2. PICK f \in overflow : /\ OverflowTop = {f.level}
                              /\ \A g \in overflow : f.level <= g.level
    BY OverflowTopIs
  <2>3. f.level \in Nat /\ cur <= f.level /\ f.level <= e.level
    BY <2>2, LevelsAreNat DEF TypeOK, OverflowIsAhead
  <2>4. f.level # cur
    BY <2>2, <2>3, LevelsAreNat DEF SetupForwards, MaySetup, EmptyLevel, NoLabel
  <2> QED BY <2>1, <2>3, <2>4
<1>6. HasFront => cur = label[front]
  BY DEF FrontIsKnown, SetupForwards, MaySetup
<1>7. ~StopsBeforeNext(stop)'
  BY <1>2 DEF SetupForwards, StopsBeforeNext, NextLevel, Ahead
<1>8. /\ EffectiveStop(s) \in {NoLabel} \union StopLevels \union {e.level : e \in overflow}
      /\ \A e \in overflow : EffectiveStop(s) # NoLabel /\ EffectiveStop(s) <= e.level
  BY EffectiveStopIs
<1>9. cur \in Int
  BY DEF TypeOK, NoLabel
<1>10. ForwardFinds'
  BY <1>1, <1>2, <1>4, <1>5, <1>6, <1>7, <1>8, <1>9
     DEF ForwardFinds, HasNext, HasFront, InBuckets
<1> QED BY <1>3, <1>10

LEMMA ForwardStopsContent == IInv /\ RingInv /\ ContentInv /\ ForwardStops => ContentInv'
<1> SUFFICES ASSUME IInv, RingInv, ContentInv, ForwardStops PROVE ContentInv'
  OBVIOUS
<1> USE DEF IInv, RingInv, ContentInv
<1>1. /\ fwd /\ ~fwd' /\ StopsBeforeNext(stop) /\ cur' = label[front]
      /\ UNCHANGED <<bucket, front, back, next, overflow, top>>
  BY DEF ForwardStops
<1>2. HasFront /\ cur < label[front] /\ stop # NoLabel /\ label[front] <= stop
      /\ top = {} /\ next = {} /\ \A e \in overflow : stop <= e.level
  BY <1>1 DEF ForwardFinds, StopsBeforeNext, NextIsCurrent
<1>3. label[front] \in Nat /\ stop \in Nat /\ \A e \in overflow : e.level \in Nat
  <2>1. label[front] \in Known /\ Known \subseteq Nat
    BY <1>2, RingIsNat DEF FrontIsKnown
  <2> QED BY <1>2, <2>1, LevelsAreNat DEF TypeOK
<1>4. OverflowIsAhead'
  BY <1>1, <1>2, <1>3 DEF OverflowIsAhead
<1>5. OutsideIsEmpty' /\ NextIsLeast' /\ TopIsLeast' /\ ForwardFinds'
  BY <1>1, <1>2 DEF OutsideIsEmpty, NextIsLeast, TopIsLeast, ForwardFinds,
                    Ahead, Pushable, Active, HasFront
<1> QED BY <1>4, <1>5

(* What moving on to the next bucket does to the elements.                 *)
LEMMA ForwardTakes ==
    ASSUME IInv, RingInv, ContentInv, Forward
    PROVE  /\ Ahead(1) \in Idx /\ front' = Ahead(1)
           /\ cur \in Int /\ label[Ahead(1)] \in Nat /\ label[Ahead(1)] \in Known
           /\ cur < label[Ahead(1)]
           /\ stop # NoLabel => stop \in Nat /\ label[Ahead(1)] <= stop
           /\ next = {} /\ (HasFront => bucket[front] = {})
           /\ \/ bucket[Ahead(1)] = {} /\ bucket' = bucket /\ next' = {}
              \/ \E e \in Least(bucket[Ahead(1)]) :
                    /\ bucket' = [bucket EXCEPT ![Ahead(1)] = @ \ {e}]
                    /\ next' = {e}
           /\ UNCHANGED <<overflow, top, size>> /\ fwd /\ top = {}
           /\ IF next' = {} /\ front' # back' THEN UNCHANGED <<cur, fwd, stop>>
              ELSE cur' = label[Ahead(1)] /\ ~fwd'
<1> USE DEF IInv, RingInv, ContentInv
<1>1. Ahead(1) \in Idx /\ front' = Ahead(1) /\ Pushable \in 1 .. Buckets
      /\ label'[front'] = label[Ahead(1)]
  BY ForwardTurns, AheadInRing
<1>2. label[Ahead(1)] \in Known /\ RingLevel < label[Ahead(1)] /\ label[Ahead(1)] \in Nat
  BY <1>1, RingIsNat
<1>3. cur \in Int /\ cur <= RingLevel /\ RingLevel \in Int
  BY DEF TypeOK, NoLabel, RingLevel, ForwardFinds, Forward, HasFront
<1>4. stop # NoLabel => stop \in Nat /\ label[Ahead(1)] <= stop
  <2>1. stop # NoLabel => stop \in Nat
    BY DEF TypeOK
  <2>2. stop # NoLabel => ~(stop < label[Ahead(1)])
    BY DEF Forward, StopsBeforeNext, NextLevel
  <2> QED BY <1>2, <2>1, <2>2
<1>5. next = {} /\ (HasFront => bucket[front] = {})
  BY DEF Forward, NextIsCurrent, FrontIsSpent
<1> DEFINE refilled == IF Replaces THEN [bucket EXCEPT ![front] = {}] ELSE bucket
<1>6. refilled = bucket
  BY <1>5 DEF Replaces, TypeOK, HasFront
<1>7. \/ bucket[Ahead(1)] = {} /\ bucket' = bucket /\ next' = {}
      \/ \E e \in Least(bucket[Ahead(1)]) :
            bucket' = [bucket EXCEPT ![Ahead(1)] = @ \ {e}] /\ next' = {e}
  BY <1>6 DEF Forward
<1>8. /\ UNCHANGED <<overflow, top, size>> /\ fwd /\ top = {}
      /\ IF next' = {} /\ front' # back' THEN UNCHANGED <<cur, fwd, stop>>
         ELSE cur' = label[Ahead(1)] /\ ~fwd'
  <2>1. cur' = label'[Ahead(1)] => cur' = label[Ahead(1)]
    BY <1>1
  <2> QED BY <2>1 DEF Forward, ForwardFinds
<1>9. cur < label[Ahead(1)]
  BY <1>2, <1>3
<1> QED BY <1>1, <1>2, <1>3, <1>4, <1>5, <1>7, <1>8, <1>9

LEMMA ForwardContent == IInv /\ RingInv /\ ContentInv /\ Forward => ContentInv'
<1> SUFFICES ASSUME IInv, RingInv, ContentInv, Forward PROVE ContentInv'
  OBVIOUS
<1> USE DEF IInv, RingInv, ContentInv
<1> DEFINE n == Ahead(1)
<1>1. /\ n \in Idx /\ front' = n
      /\ cur \in Int /\ label[n] \in Nat /\ cur < label[n]
      /\ stop # NoLabel => stop \in Nat /\ label[n] <= stop
      /\ next = {} /\ (HasFront => bucket[front] = {})
      /\ \/ bucket[n] = {} /\ bucket' = bucket /\ next' = {}
         \/ \E e \in Least(bucket[n]) :
               bucket' = [bucket EXCEPT ![n] = @ \ {e}] /\ next' = {e}
      /\ UNCHANGED <<overflow, top>> /\ fwd /\ top = {}
      /\ IF next' = {} /\ front' # back' THEN UNCHANGED <<cur, fwd, stop>>
         ELSE cur' = label[n] /\ ~fwd'
  BY ForwardTakes
<1>2. /\ HasFront' /\ label'[n] = label[n]
      /\ Pushable \in 1 .. Buckets
      /\ \A o \in 1 .. Pushable - 1 : Ahead(o)' = Ahead(o + 1)
      /\ Pushable' = Pushable \/ Pushable' = Pushable - 1
  BY ForwardTurns
<1> HIDE DEF n
<1>3. \A e \in overflow : /\ cur < e.level /\ e.level \in Nat
                          /\ stop # NoLabel /\ stop <= e.level
  BY <1>1, LevelsAreNat DEF ForwardFinds, TypeOK
<1>4. \A i \in Idx : bucket'[i] # {} => bucket[i] # {}
  BY <1>1 DEF TypeOK
<1>5. OutsideIsEmpty'
  <2> SUFFICES ASSUME NEW i \in Idx, bucket'[i] # {}
               PROVE  i = front' \/ \E p \in 1 .. Pushable' : i = Ahead(p)'
    BY DEF OutsideIsEmpty
  <2>1. PICK o \in 1 .. Pushable : i = Ahead(o)
    <3>1. bucket[i] # {} /\ ~(HasFront /\ i = front)
      BY <1>1, <1>4
    <3>2. i # Out
      BY SizesAssumption DEF Idx, Out
    <3> QED BY <3>1, <3>2 DEF OutsideIsEmpty, HasFront
  <2>2. CASE o = 1
    BY <1>1, <2>1, <2>2 DEF n
  <2>3. CASE o # 1
    <3>1. o - 1 \in 1 .. Pushable - 1 /\ (o - 1) + 1 = o /\ o - 1 \in 1 .. Pushable'
      BY <1>2, <2>1, <2>3, SizesAssumption
    <3>2. Ahead(o - 1)' = Ahead((o - 1) + 1)
      BY <1>2, <3>1 DEF Ahead
    <3> QED BY <2>1, <3>1, <3>2
  <2> QED BY <2>2, <2>3
<1>6. NextIsLeast'
  <2> SUFFICES ASSUME NEW e \in Least(bucket[n]), next' = {e},
                      bucket' = [bucket EXCEPT ![n] = @ \ {e}]
               PROVE  NextIsLeast'
    BY <1>1 DEF NextIsLeast
  <2> QED BY <1>1 DEF NextIsLeast, Least, TypeOK
<1>7. OverflowIsAhead'
  <2> SUFFICES ASSUME NEW e \in overflow
               PROVE  cur' <= e.level
    BY <1>1 DEF OverflowIsAhead
  <2>1. cur < e.level /\ e.level \in Nat /\ label[n] <= e.level
    BY <1>1, <1>3
  <2>2. cur' = cur \/ cur' = label[n]
    BY <1>1
  <2> QED BY <1>1, <2>1, <2>2
<1>8. TopIsLeast'
  BY <1>1 DEF TopIsLeast
<1>9. ForwardFinds'
  <2> SUFFICES ASSUME next' = {}, front' # back', UNCHANGED <<cur, fwd, stop>>
               PROVE  ForwardFinds'
    BY <1>1 DEF ForwardFinds
  <2>1. bucket' = bucket /\ InBuckets' = InBuckets
    BY <1>1 DEF InBuckets
  <2>2. HasNext'
    BY DEF HasNext
  <2>3. cur <= label[n]
    BY <1>1
  <2> QED BY <1>1, <1>2, <1>3, <2>1, <2>2, <2>3 DEF ForwardFinds
<1> QED BY <1>5, <1>6, <1>7, <1>8, <1>9

LEMMA StepContent == IInv /\ RingInv /\ ContentInv /\ [Next]_vars => ContentInv'
<1> SUFFICES ASSUME IInv, RingInv, ContentInv, [Next]_vars PROVE ContentInv'
  OBVIOUS
<1>1. ASSUME UNCHANGED vars
      PROVE  ContentInv'
  BY <1>1 DEF vars, ContentInv, OutsideIsEmpty, NextIsLeast, OverflowIsAhead, TopIsLeast,
              ForwardFinds, Ahead, Pushable, Active, HasFront, HasNext, Stored, InBuckets,
              StopsBeforeNext, NextLevel
<1>2. CASE \E e \in Element : Push(e)
  BY <1>2, PushContent
<1>3. CASE Top \/ PullCached \/ Pull
  BY <1>3, TopContent, PullCachedContent, PullContent
<1>4. ASSUME NEW s \in StopLevels \union {NoLabel}, Setup(s)
      PROVE  ContentInv'
  <2>1. CASE SetupStays(s)
    BY <1>1, <2>1 DEF SetupStays
  <2> QED BY <1>4, <2>1, RelabelContent, SetupForwardsContent DEF Setup
<1>5. CASE ForwardStops \/ Forward
  BY <1>5, ForwardStopsContent, ForwardContent
<1> QED BY <1>1, <1>2, <1>3, <1>4, <1>5 DEF Next

LEMMA InitContent == Init => ContentInv
  BY DEF Init, ContentInv, OutsideIsEmpty, NextIsLeast, OverflowIsAhead, TopIsLeast,
         ForwardFinds

QueueInv == IInv /\ RingInv /\ ContentInv

LEMMA QueueInvariance == Spec => []QueueInv
<1>1. Init => QueueInv
  BY InitEstablishes, InitRing, InitContent DEF QueueInv
<1>2. QueueInv /\ [Next]_vars => QueueInv'
  BY StepPreserves, StepRing, StepContent DEF QueueInv
<1> QED BY <1>1, <1>2, PTL DEF Spec

-----------------------------------------------------------------------------
(* Each operation is one of the levelized queue                            *)

Content == Stored \union top

(* A move to the level l, when the queue holds something: everything it    *)
(* holds is past the current level, nothing before l, and something at l.  *)
LEMMA AdvanceToElement ==
    ASSUME NEW l \in Int, cur \in Int, cur < l, cur' = l, Content' = Content,
           \A e \in Content : e.level \in Int /\ l <= e.level,
           NEW s, s = NoLabel \/ (s \in Int /\ l <= s),
           NEW e \in Content, e.level = l
    PROVE  Queue!AbsAdvance(s)
<1>1. Queue!AtLevel(cur) = {}
  BY DEF Queue!AtLevel, Content
<1>2. l \in Queue!Reachable(s) /\ \A m \in Queue!Reachable(s) : m \in Int /\ l <= m
  BY DEF Queue!Reachable, Queue!LevelsOf, Content
<1>3. Queue!Target(s) = l
  <2>1. Queue!Reachable(s) # {} /\ Queue!Target(s) = Queue!Min(Queue!Reachable(s))
    BY <1>2 DEF Queue!Target
  <2>2. \A m \in Queue!Reachable(s) : (\A k \in Queue!Reachable(s) : m <= k) => m = l
    BY <1>2
  <2> QED BY <1>2, <2>1, <2>2 DEF Queue!Min
<1> QED BY <1>1, <1>3 DEF Queue!AbsAdvance, Content

(* A move to the last known level up to the stop level, when the queue     *)
(* holds nothing up to there.                                              *)
LEMMA AdvanceToStop ==
    ASSUME NEW l \in Known, Known \subseteq Nat, cur \in Int, cur < l, cur' = l,
           Content' = Content,
           NEW s \in Nat, l <= s, \A m \in Known : m <= s => m <= l,
           \A e \in Content : e.level \in Int /\ s < e.level
    PROVE  Queue!AbsAdvance(s)
<1>1. Queue!AtLevel(cur) = {}
  BY DEF Queue!AtLevel, Content
<1>2. Queue!Reachable(s) = {}
  BY DEF Queue!Reachable, Queue!LevelsOf, Content, NoLabel
<1>3. Queue!Target(s) = l
  <2> DEFINE S == {m \in Known : m <= s} \union {cur}
  <2>1. Queue!Target(s) = Queue!Max(S)
    BY <1>2 DEF Queue!Target
  <2>2. l \in S /\ \A m \in S : m \in Int /\ m <= l
    OBVIOUS
  <2> HIDE DEF S
  <2>3. \A m \in S : (\A k \in S : m >= k) => m = l
    BY <2>2
  <2> QED BY <2>1, <2>2, <2>3 DEF Queue!Max
<1> QED BY <1>1, <1>3 DEF Queue!AbsAdvance, Content, NoLabel

LEMMA PushImplements ==
    ASSUME QueueInv, NEW e \in Element, Push(e)
    PROVE  Queue!AbsPush(e)
<1>1. /\ e.level \in Nat /\ cur < e.level /\ cur \in Int
      /\ Stored' = Stored \union {e} /\ e \notin Stored \union top
  BY PushPlaces DEF QueueInv
<1>2. top' = top /\ cur' = cur
  BY DEF Push
<1> QED BY <1>1, <1>2 DEF Queue!AbsPush

LEMMA TopImplements ==
    ASSUME QueueInv, Top
    PROVE  UNCHANGED Queue!avars
<1>1. PICK e \in Element : TakeOut(e) /\ top' = {e}
  BY DEF Top
<1>2. e \in Stored /\ Stored' = Stored \ {e}
  BY <1>1, TakeOutPreserves DEF QueueInv
<1> QED BY <1>1, <1>2 DEF Queue!avars, Top

LEMMA PullImplements ==
    ASSUME QueueInv, Pull \/ PullCached
    PROVE  Queue!AbsPull
<1> USE DEF QueueInv, IInv, ContentInv
<1>1. CASE Pull
  <2>1. PICK e \in Element : TakeOut(e)
    BY <1>1 DEF Pull
  <2>2. /\ e \in Stored /\ e.level = cur /\ Stored' = Stored \ {e}
        /\ \A f \in Stored : f.level = cur => e.key <= f.key
    BY <1>1, <2>1, TakesLeast, TakeOutPreserves DEF Pull
  <2>3. top = {} /\ top' = {} /\ cur' = cur
    BY <1>1 DEF Pull
  <2> QED BY <2>2, <2>3 DEF Queue!AbsPull, Queue!AtLevel
<1>2. CASE PullCached
  <2>1. PICK t \in Element : top = {t}
    BY <1>2 DEF PullCached, TypeOK
  <2>2. t.level = cur /\ (\A f \in Stored : f.level = cur => t.key <= f.key) /\ t.key \in Nat
    BY <2>1, ElementAssumption DEF TopIsLeast
  <2>3. t \notin Stored /\ Stored' = Stored /\ top' = {} /\ cur' = cur
    BY <1>2, <2>1 DEF PullCached, SizeExact, Stored, InBuckets
  <2> QED BY <2>1, <2>2, <2>3 DEF Queue!AbsPull, Queue!AtLevel
<1> QED BY <1>1, <1>2

LEMMA RelabelImplements ==
    ASSUME QueueInv, NEW s \in StopLevels \union {NoLabel}, SetupRelabels(s)
    PROVE  Queue!AbsAdvance(s)
<1> USE DEF QueueInv, IInv, ContentInv
<1>1. PICK st : st = EffectiveStop(s)
  OBVIOUS
<1>2. /\ top = {} /\ next = {}
      /\ \A i \in Idx : bucket[i] = {}
  BY SetupFindsNoTop, SizesAgree DEF SetupRelabels
<1>3. Content = overflow /\ Content' = Content
  <2>1. bucket' = bucket
    BY <1>2 DEF SetupRelabels, TypeOK
  <2>2. InBuckets = {} /\ InBuckets' = InBuckets
    BY <1>2, <2>1 DEF InBuckets
  <2> QED BY <1>2, <2>2 DEF Content, Stored, SetupRelabels
<1>4. /\ cur' \in Known /\ cur' <= st /\ cur < cur'
      /\ \A l \in Known : l <= st => l <= cur'
      /\ st \in Nat /\ Known \subseteq Nat /\ cur \in Int
  <2>1. /\ cur' \in Known /\ cur' <= st /\ cur < cur'
        /\ \A l \in Known : l <= st => l <= cur'
    BY <1>1, RelabelTarget
  <2>2. st \in Nat
    BY <1>1, RelabelCounts
  <2>3. Known \subseteq Nat
    BY StreamAssumption, SizesAssumption DEF Known, KnownFrom
  <2>4. cur \in Int
    BY <2>3 DEF TypeOK, NoLabel
  <2> QED BY <2>1, <2>2, <2>3, <2>4
<1>5. /\ st \in {s} \union {e.level : e \in overflow}
      /\ \A e \in overflow : e.level \in Known /\ e.level \in Nat /\ st <= e.level
      /\ s # NoLabel => s \in Nat /\ st <= s
  BY <1>1, EffectiveStopIs, LevelsAreNat, ElementAssumption, StopAssumption DEF TypeOK
<1>6. ASSUME NEW e \in overflow, e.level = st
      PROVE  Queue!AbsAdvance(s)
  <2>1. cur' = e.level
    BY <1>4, <1>5, <1>6
  <2>2. \A f \in Content : f.level \in Int /\ cur' <= f.level
    BY <1>3, <1>4, <1>5, <1>6, <2>1
  <2>3. cur' \in Int /\ (s = NoLabel \/ (s \in Int /\ cur' <= s))
    BY <1>4, <1>5
  <2> QED BY <1>3, <1>4, <2>1, <2>2, <2>3, AdvanceToElement
<1>7. ASSUME \A e \in overflow : e.level # st
      PROVE  Queue!AbsAdvance(s)
  <2>1. st = s
    BY <1>5, <1>7
  <2>2. \A e \in Content : e.level \in Int /\ s < e.level
    BY <1>3, <1>4, <1>5, <1>7, <2>1
  <2> QED BY <1>3, <1>4, <2>1, <2>2, AdvanceToStop
<1> QED BY <1>6, <1>7

(* While the queue moves on, what it holds is at the next level or later,  *)
(* or in the overflow queue.                                               *)
LEMMA ForwardAhead ==
    ASSUME QueueInv, fwd
    PROVE  /\ Known \subseteq Nat /\ NextLevel \in Known /\ cur \in Int
           /\ cur <= RingLevel /\ RingLevel < NextLevel
           /\ \A l \in Known : l > RingLevel => NextLevel <= l
           /\ Content = InBuckets \union overflow
           /\ \A e \in InBuckets : e.level \in Nat /\ NextLevel <= e.level
           /\ \A e \in overflow : e.level \in Nat /\ e.level \in Known /\ stop \in Nat
                                  /\ stop <= e.level
<1> USE DEF QueueInv, IInv, RingInv, ContentInv
<1>1. Pushable \in 1 .. Buckets /\ top = {} /\ next = {} /\ (HasFront => bucket[front] = {})
  BY PushableIs, SizesAssumption DEF ForwardFinds, NextIsCurrent, FrontIsSpent
<1>2. /\ Known \subseteq Nat
      /\ \A o \in 1 .. Pushable : label[Ahead(o)] \in Known /\ RingLevel < label[Ahead(o)]
  BY RingIsNat
<1>3. NextLevel \in Known /\ NextLevel \in Nat /\ RingLevel < NextLevel
  <2>1. 1 \in 1 .. Pushable
    BY <1>1, SizesAssumption
  <2>2. label[Ahead(1)] \in Known /\ RingLevel < label[Ahead(1)]
    BY <1>2, <2>1
  <2> QED BY <1>2, <2>2 DEF NextLevel
<1>4. \A o \in 1 .. Pushable : NextLevel <= label[Ahead(o)]
  <2> SUFFICES ASSUME NEW o \in 1 .. Pushable
               PROVE  NextLevel <= label[Ahead(o)]
    OBVIOUS
  <2>1. CASE o = 1
    BY <1>3, <2>1 DEF NextLevel
  <2>2. CASE o # 1
    <3>1. 1 \in 1 .. Pushable /\ 1 < o
      BY <1>1, <2>2
    <3>2. label[Ahead(1)] < label[Ahead(o)]
      BY <3>1 DEF RingAscends
    <3>3. label[Ahead(o)] \in Nat
      BY <1>2
    <3> QED BY <1>3, <3>2, <3>3 DEF NextLevel
  <2> QED BY <2>1, <2>2
<1>5. ASSUME NEW l \in Known, l > RingLevel
      PROVE  NextLevel <= l
  <2>1. CASE l \in Ring
    BY <1>4, <2>1 DEF Ring
  <2>2. CASE l \in KnownFrom(pos + 1)
    <3>1. label[Ahead(1)] < l
      BY <1>1, <2>2 DEF RingAscends
    <3> QED BY <1>2, <1>3, <1>5, <3>1 DEF NextLevel
  <2> QED BY <1>5, <2>1, <2>2 DEF RingIsAhead
<1>6. Content = InBuckets \union overflow
  BY <1>1 DEF Content, Stored
<1>7. ASSUME NEW e \in InBuckets
      PROVE  e.level \in Nat /\ NextLevel <= e.level
  <2>1. e.level \in Nat /\ RingLevel <= e.level /\ e.level # RingLevel /\ RingLevel \in Int
    BY <1>1, BucketsAreAhead
  <2>2. e \in Element
    BY DEF InBuckets, TypeOK
  <2> QED BY <1>5, <2>1, <2>2, ElementAssumption
<1>8. ASSUME NEW e \in overflow
      PROVE  e.level \in Nat /\ e.level \in Known /\ stop \in Nat /\ stop <= e.level
  BY LevelsAreNat, ElementAssumption DEF ForwardFinds, TypeOK
<1>9. cur \in Int /\ cur <= RingLevel
  BY DEF TypeOK, NoLabel, RingLevel, ForwardFinds, HasFront
<1> QED BY <1>2, <1>3, <1>5, <1>6, <1>7, <1>8, <1>9

LEMMA ForwardStopsImplements ==
    ASSUME QueueInv, ForwardStops
    PROVE  \E s \in StopLevels \union {NoLabel} : Queue!AbsAdvance(s)
<1> USE DEF QueueInv, IInv, RingInv, ContentInv
<1>1. fwd /\ StopsBeforeNext(stop) /\ cur' = label[front] /\ Content' = Content
  BY DEF ForwardStops, Content, Stored, InBuckets
<1>2. /\ HasFront /\ cur < label[front] /\ stop # NoLabel /\ label[front] <= stop
      /\ stop \in StopLevels \union {e.level : e \in overflow}
      /\ label[front] \in Known /\ RingLevel = label[front] /\ stop < NextLevel
  BY <1>1 DEF ForwardFinds, StopsBeforeNext, FrontIsKnown, RingLevel
<1>3. /\ Known \subseteq Nat /\ NextLevel \in Known /\ cur \in Int
      /\ \A l \in Known : l > RingLevel => NextLevel <= l
      /\ Content = InBuckets \union overflow
      /\ \A e \in InBuckets : e.level \in Nat /\ NextLevel <= e.level
      /\ \A e \in overflow : e.level \in Nat /\ e.level \in Known /\ stop <= e.level
  BY <1>1, ForwardAhead
<1>4. stop \in Nat /\ label[front] \in Nat /\ NextLevel \in Nat
  BY <1>2, <1>3 DEF TypeOK
<1>5. \A l \in Known : l <= stop => l <= label[front]
  <2> SUFFICES ASSUME NEW l \in Known, l <= stop
               PROVE  l <= label[front]
    OBVIOUS
  <2>1. l \in Nat
    BY <1>3
  <2>2. l < NextLevel
    BY <1>2, <1>4, <2>1
  <2>3. ~(l > RingLevel)
    BY <1>3, <1>4, <2>1, <2>2
  <2> QED BY <1>2, <1>4, <2>1, <2>3
<1>6. ASSUME NEW e \in overflow, e.level = stop
      PROVE  Queue!AbsAdvance(NoLabel)
  <2>1. label[front] = e.level
    BY <1>2, <1>3, <1>4, <1>5, <1>6
  <2>2. \A f \in Content : f.level \in Int /\ label[front] <= f.level
    BY <1>2, <1>3, <1>4, <1>6, <2>1
  <2>3. e \in Content /\ label[front] \in Int
    BY <1>3, <1>4
  <2> QED BY <1>1, <1>2, <1>3, <2>1, <2>2, <2>3, AdvanceToElement
<1>7. ASSUME \A e \in overflow : e.level # stop
      PROVE  stop \in StopLevels /\ Queue!AbsAdvance(stop)
  <2>1. \A e \in Content : e.level \in Int /\ stop < e.level
    BY <1>2, <1>3, <1>4, <1>7
  <2> QED BY <1>1, <1>2, <1>3, <1>4, <1>5, <1>7, <2>1, AdvanceToStop
<1> QED BY <1>6, <1>7

LEMMA ForwardImplements ==
    ASSUME QueueInv, Forward
    PROVE  UNCHANGED Queue!avars \/ Queue!AbsAdvance(NoLabel)
<1> USE DEF QueueInv, IInv, RingInv, ContentInv
<1> DEFINE n == Ahead(1)
<1>1. /\ n \in Idx /\ front' = n
      /\ label[n] \in Nat /\ cur < label[n]
      /\ stop # NoLabel => stop \in Nat /\ label[n] <= stop
      /\ next = {} /\ (HasFront => bucket[front] = {})
      /\ \/ bucket[n] = {} /\ bucket' = bucket /\ next' = {}
         \/ \E e \in Least(bucket[n]) :
               bucket' = [bucket EXCEPT ![n] = @ \ {e}] /\ next' = {e}
      /\ UNCHANGED <<overflow, top>> /\ fwd /\ top = {}
      /\ IF next' = {} /\ front' # back' THEN UNCHANGED <<cur, fwd, stop>>
         ELSE cur' = label[n] /\ ~fwd'
  BY ForwardTakes
<1>2. /\ Content = InBuckets \union overflow /\ cur \in Int
      /\ \A e \in InBuckets : e.level \in Nat /\ NextLevel <= e.level
      /\ \A e \in overflow : e.level \in Nat /\ stop \in Nat /\ stop <= e.level
      /\ NextLevel = label[n]
  BY <1>1, ForwardAhead DEF NextLevel
<1> HIDE DEF n
<1>3. Content' = Content /\ next' \subseteq Content
  <2>1. CASE bucket' = bucket /\ next' = {}
    BY <1>1, <2>1 DEF Content, Stored, InBuckets
  <2>2. ASSUME NEW e \in Least(bucket[n]),
               bucket' = [bucket EXCEPT ![n] = @ \ {e}], next' = {e}
        PROVE  Content' = Content /\ next' \subseteq Content
    <3>1. e \in bucket[n] /\ e \in InBuckets
      BY <1>1, <2>2 DEF Least, InBuckets
    <3>2. InBuckets' = InBuckets \ {e}
      BY <3>1, <1>1, <2>2 DEF TypeOK, SizeExact, InBuckets
    <3> QED BY <1>1, <2>2, <3>1, <3>2 DEF Content, Stored
  <2> QED BY <1>1, <2>1, <2>2
<1>4. CASE next' = {} /\ front' # back'
  BY <1>1, <1>3, <1>4 DEF Queue!avars, Content
<1>5. CASE next' # {}
  <2>1. PICK e \in bucket[n] : next' = {e}
    BY <1>1, <1>5 DEF Least
  <2>2. e \in Content /\ e.level = label[n]
    BY <1>1, <1>3, <2>1 DEF BucketsHoldTheirLevel
  <2>3. \A f \in Content : f.level \in Int /\ label[n] <= f.level
    <3> SUFFICES ASSUME NEW f \in overflow
                 PROVE  label[n] <= f.level
      BY <1>2
    <3>1. stop # NoLabel
      BY <1>2 DEF NoLabel
    <3> QED BY <1>1, <1>2, <3>1
  <2>4. cur' = label[n] /\ label[n] \in Int
    <3>1. ~(next' = {} /\ front' # back')
      BY <1>5
    <3>2. cur' = label[n]
      BY <1>1, <3>1, Zenon
    <3> QED BY <1>1, <3>2
  <2> QED BY <1>1, <1>2, <1>3, <2>2, <2>3, <2>4, AdvanceToElement
<1>6. CASE next' = {} /\ front' = back'
  <2>1. Pushable' = 0
    <3>1. HasFront'
      BY <1>1, SizesAssumption DEF HasFront, Idx, Out
    <3>2. n \in Int /\ front' = n /\ back' = n
      BY <1>1, <1>6, SizesAssumption DEF Idx
    <3>3. Active' = 1
      BY <3>1, <3>2 DEF Active, HasFront
    <3> QED BY <3>1, <3>3 DEF Pushable
  <2>2. Pushable = 1
    BY <2>1, ForwardTurns, SizesAssumption
  <2>3. bucket[n] = {}
    BY <1>1, <1>6
  <2>4. \A i \in Idx : bucket[i] = {}
    <3> SUFFICES ASSUME NEW i \in Idx, bucket[i] # {}
                 PROVE  FALSE
      OBVIOUS
    <3>1. i # Out
      BY SizesAssumption DEF Idx, Out
    <3>2. i = n
      BY <1>1, <2>2, <3>1 DEF OutsideIsEmpty, HasFront, n
    <3> QED BY <2>3, <3>2
  <2> QED BY <1>1, <2>4 DEF ForwardFinds, InBuckets
<1> QED BY <1>4, <1>5, <1>6

LEMMA StepImplements == QueueInv /\ [Next]_vars => [Queue!AbsNext]_(Queue!avars)
<1> SUFFICES ASSUME QueueInv, [Next]_vars
             PROVE  Queue!AbsNext \/ UNCHANGED Queue!avars
  BY DEF Queue!AbsNext
<1> USE DEF Queue!AbsNext
<1>1. CASE UNCHANGED vars
  BY <1>1 DEF vars, Queue!avars, Stored, InBuckets
<1>2. CASE \E e \in Element : Push(e)
  BY <1>2, PushImplements
<1>3. CASE Top
  BY <1>3, TopImplements
<1>4. CASE PullCached \/ Pull
  BY <1>4, PullImplements
<1>5. ASSUME NEW s \in StopLevels \union {NoLabel}, Setup(s)
      PROVE  Queue!AbsNext \/ UNCHANGED Queue!avars
  <2>1. CASE SetupStays(s)
    BY <2>1 DEF SetupStays, vars, Queue!avars, Stored, InBuckets
  <2>2. CASE SetupForwards(s)
    BY <2>2 DEF SetupForwards, Queue!avars, Stored, InBuckets
  <2>3. CASE SetupRelabels(s)
    BY <2>3, RelabelImplements
  <2> QED BY <1>5, <2>1, <2>2, <2>3 DEF Setup
<1>6. CASE ForwardStops
  BY <1>6, ForwardStopsImplements
<1>7. CASE Forward
  BY <1>7, ForwardImplements
<1> QED BY <1>1, <1>2, <1>3, <1>4, <1>5, <1>6, <1>7 DEF Next

(***************************************************************************)
(* The bucketed queue implements the levelized queue: for every number of  *)
(* buckets, it neither loses nor invents elements, pulls those of the      *)
(* current level in the order of their keys, and moves to the level it is  *)
(* asked for - never past an element, nor past the stop level.             *)
(***************************************************************************)
THEOREM BucketedImplementsQueue == Spec => ImplementsLevelizedQueue
<1>1. Init => Queue!AbsInit
  BY DEF Init, Queue!AbsInit, Stored, InBuckets
<1>2. QueueInv /\ [Next]_vars => [Queue!AbsNext]_(Queue!avars)
  BY StepImplements
<1> QED BY <1>1, <1>2, QueueInvariance, PTL
        DEF Spec, ImplementsLevelizedQueue, Queue!AbsSpec

-----------------------------------------------------------------------------
(* The level merger                                                        *)

Ascending(s) == \A i, j \in 1 .. Len(s) : i < j => s[i] < s[j]

Left == UNION {Elements(rest[f]) : f \in Files}

MergerInv ==
    /\ hooked \in [Files -> LevelFiles]
    /\ rest \in [Files -> Seq(Nat)]
    /\ pulled \in Seq(Nat)
    /\ \A f \in Files : Ascending(rest[f])
    /\ DeliversTheUnionInOrder

(* Taking the head off an ascending stream takes just that level from it.  *)
LEMMA TailOfStream ==
    ASSUME NEW s \in Seq(Nat), s # <<>>, Ascending(s)
    PROVE  /\ Head(s) \in Elements(s)
           /\ \A m \in Elements(s) : Head(s) <= m /\ m \in Nat
           /\ Tail(s) \in Seq(Nat) /\ Ascending(Tail(s))
           /\ Elements(Tail(s)) = Elements(s) \ {Head(s)}
<1>1. /\ Len(s) \in Nat \ {0} /\ Head(s) = s[1] /\ \A i \in 1 .. Len(s) : s[i] \in Nat
      /\ Tail(s) \in Seq(Nat) /\ Len(Tail(s)) = Len(s) - 1
      /\ \A i \in 1 .. Len(s) - 1 : Tail(s)[i] = s[i + 1]
  OBVIOUS
<1>2. Head(s) \in Elements(s) /\ \A m \in Elements(s) : Head(s) <= m /\ m \in Nat
  BY <1>1 DEF Elements, Ascending
<1>3. Ascending(Tail(s))
  BY <1>1 DEF Ascending
<1>4. \A m \in Elements(Tail(s)) : m \in Elements(s) /\ m # Head(s)
  BY <1>1 DEF Elements, Ascending
<1>5. ASSUME NEW m \in Elements(s), m # Head(s)
      PROVE  m \in Elements(Tail(s))
  <2>1. PICK i \in 1 .. Len(s) : m = s[i]
    BY DEF Elements
  <2>2. i - 1 \in 1 .. Len(s) - 1 /\ Tail(s)[i - 1] = m
    BY <1>1, <1>5, <2>1
  <2> QED BY <1>1, <2>2 DEF Elements
<1> QED BY <1>1, <1>2, <1>3, <1>4, <1>5

(* A level delivered is one more, behind all delivered before it.          *)
LEMMA AppendOfStream ==
    ASSUME NEW s \in Seq(Nat), Ascending(s), NEW l \in Nat, \A m \in Elements(s) : m < l
    PROVE  /\ Append(s, l) \in Seq(Nat) /\ Ascending(Append(s, l))
           /\ Elements(Append(s, l)) = Elements(s) \union {l}
<1> DEFINE t == Append(s, l)
<1>1. /\ Len(s) \in Nat /\ t \in Seq(Nat) /\ Len(t) = Len(s) + 1 /\ t[Len(s) + 1] = l
      /\ \A i \in 1 .. Len(s) : t[i] = s[i] /\ s[i] \in Nat /\ s[i] \in Elements(s)
  BY DEF Elements
<1> HIDE DEF t
<1>2. Ascending(t)
  <2> SUFFICES ASSUME NEW i \in 1 .. Len(t), NEW j \in 1 .. Len(t), i < j
               PROVE  t[i] < t[j]
    BY DEF Ascending
  <2>1. i \in 1 .. Len(s) /\ t[i] = s[i] /\ s[i] < l
    BY <1>1, SMTT(30)
  <2>2. CASE j = Len(s) + 1
    BY <1>1, <2>1, <2>2
  <2>3. CASE j # Len(s) + 1
    <3>1. j \in 1 .. Len(s)
      <4>1. Len(t) = Len(s) + 1 /\ Len(s) \in Nat
        BY <1>1
      <4> QED BY <2>3, <4>1
    <3>2. t[j] = s[j]
      BY <1>1, <3>1
    <3> QED BY <2>1, <3>1, <3>2 DEF Ascending
  <2> QED BY <2>2, <2>3
<1>3. Elements(t) \subseteq Elements(s) \union {l}
  <2> SUFFICES ASSUME NEW i \in 1 .. Len(t)
               PROVE  t[i] \in Elements(s) \union {l}
    BY DEF Elements
  <2>1. i = Len(s) + 1 \/ i \in 1 .. Len(s)
    BY <1>1
  <2> QED BY <1>1, <2>1
<1>4. Elements(s) \union {l} \subseteq Elements(t)
  BY <1>1, SMTT(30) DEF Elements
<1> QED BY <1>1, <1>2, <1>3, <1>4 DEF t

LEMMA HookDelivers == Hook => MergerInv
<1> SUFFICES ASSUME Hook PROVE MergerInv
  OBVIOUS
<1>1. /\ hooked \in [Files -> LevelFiles] /\ rest = hooked /\ pulled = <<>>
      /\ rest \in [Files -> Seq(Nat)] /\ \A f \in Files : Ascending(rest[f])
  BY FilesAssumption DEF Hook, Ascending
<1>2. Elements(pulled) = {} /\ Len(pulled) = 0
  BY <1>1 DEF Elements
<1> QED BY <1>1, <1>2 DEF MergerInv, DeliversTheUnionInOrder

LEMMA PullDelivers == MergerInv /\ PullLevel => MergerInv'
<1> SUFFICES ASSUME MergerInv, PullLevel PROVE MergerInv'
  OBVIOUS
<1> USE DEF MergerInv
<1>1. PICK g \in Files, l \in Nat :
        /\ rest[g] # <<>> /\ l = Head(rest[g]) /\ IsPeek(l)
        /\ pulled' = Append(pulled, l) /\ rest' = AdvanceAll(l) /\ hooked' = hooked
  BY DEF PullLevel
<1>2. ASSUME NEW f \in Files
      PROVE  /\ rest'[f] \in Seq(Nat) /\ Ascending(rest'[f])
             /\ Elements(rest'[f]) = Elements(rest[f]) \ {l}
             /\ \A m \in Elements(rest[f]) : l <= m /\ m \in Nat
  <2>1. rest[f] \in Seq(Nat) /\ Ascending(rest[f])
    OBVIOUS
  <2>2. CASE rest[f] = <<>>
    BY <1>1, <2>1, <2>2 DEF AdvanceAll, Elements
  <2>3. CASE rest[f] # <<>> /\ Head(rest[f]) = l
    BY <1>1, <2>1, <2>3, TailOfStream DEF AdvanceAll
  <2>4. CASE rest[f] # <<>> /\ Head(rest[f]) # l
    <3>1. /\ \A m \in Elements(rest[f]) : Head(rest[f]) <= m /\ m \in Nat
          /\ Head(rest[f]) \in Nat /\ l <= Head(rest[f])
      BY <1>1, <2>1, <2>4, TailOfStream DEF IsPeek
    <3>2. rest'[f] = rest[f]
      BY <1>1, <2>4 DEF AdvanceAll
    <3> QED BY <2>1, <2>4, <3>1, <3>2
  <2> QED BY <2>2, <2>3, <2>4
<1>3. l \in Left /\ Left' = Left \ {l} /\ \A m \in Left : l <= m /\ m \in Nat
  <2>1. l \in Elements(rest[g])
    BY <1>1, TailOfStream
  <2>2. l \in Left
    BY <2>1 DEF Left
  <2>3. \A m \in Left : l <= m /\ m \in Nat
    BY <1>2 DEF Left
  <2>4. \A m : m \in Left' <=> \E f \in Files : m \in Elements(rest'[f])
    BY DEF Left
  <2>5. \A m : m \in Left <=> \E f \in Files : m \in Elements(rest[f])
    BY DEF Left
  <2>6. ASSUME NEW m PROVE m \in Left' <=> m \in Left /\ m # l
    <3>1. ASSUME NEW f \in Files
          PROVE  m \in Elements(rest'[f]) <=> m \in Elements(rest[f]) /\ m # l
      <4>1. Elements(rest'[f]) = Elements(rest[f]) \ {l}
        BY <1>2
      <4> QED BY <4>1
    <3> QED BY <2>4, <2>5, <3>1
  <2> QED BY <2>2, <2>3, <2>6
<1>4. /\ Ascending(pulled) /\ \A m \in Elements(pulled), k \in Left : m < k
      /\ Elements(pulled) \union Left = UNION {Elements(hooked[f]) : f \in Files}
  BY DEF DeliversTheUnionInOrder, Left, Ascending
<1>5. /\ pulled' \in Seq(Nat) /\ Ascending(pulled')
      /\ Elements(pulled') = Elements(pulled) \union {l}
  BY <1>1, <1>3, <1>4, AppendOfStream
<1>6. DeliversTheUnionInOrder'
  <2>1. Elements(pulled') \union Left' = UNION {Elements(hooked'[f]) : f \in Files}
    BY <1>1, <1>3, <1>4, <1>5
  <2>2. \A m \in Elements(pulled'), k \in Left' : m < k
    BY <1>3, <1>4, <1>5
  <2> QED BY <1>5, <2>1, <2>2 DEF DeliversTheUnionInOrder, Left, Ascending
<1>7. rest' \in [Files -> Seq(Nat)]
  BY <1>1, <1>2 DEF AdvanceAll
<1> QED BY <1>1, <1>2, <1>5, <1>6, <1>7

(***************************************************************************)
(* For any number of files and any levels in them, the merger delivers     *)
(* each level of the files once and in order, and loses none: the stream   *)
(* of levels that the bucketed queue labels its buckets from is ascending. *)
(***************************************************************************)
THEOREM MergerDelivers == QueuesSpec => []DeliversTheUnionInOrder
<1>1. QueuesInit => MergerInv
  BY HookDelivers DEF QueuesInit
<1>2. MergerInv /\ [QueuesNext]_qvars => MergerInv'
  <2> SUFFICES ASSUME MergerInv, [QueuesNext]_qvars PROVE MergerInv'
    OBVIOUS
  <2>1. CASE UNCHANGED mvars
    BY <2>1 DEF mvars, MergerInv, DeliversTheUnionInOrder
  <2>2. CASE PullLevel
    BY <2>2, PullDelivers
  <2> QED BY <2>1, <2>2 DEF QueuesNext, qvars
<1>3. MergerInv => DeliversTheUnionInOrder
  BY DEF MergerInv
<1> QED BY <1>1, <1>2, <1>3, PTL DEF QueuesSpec

-----------------------------------------------------------------------------
(* The queue without buckets                                               *)

(* A sweep only pushes ahead, and a queue moves on no further than its     *)
(* least level.                                                            *)
HeapInv ==
    /\ heap \subseteq Element
    /\ heapLevel \in Int
    /\ \A e \in heap : heapLevel <= e.level

(* A queue that is not empty has an element on top, and it is least.       *)
LEMMA HeapHasTop ==
    ASSUME HeapInv
    PROVE  /\ \A e \in heap : e.level \in Nat /\ e.key \in Nat
           /\ heap # {} => Unbucketed!QueueTop # {}
           /\ \A e \in Unbucketed!QueueTop : e \in heap /\ \A f \in heap :
                 e.level <= f.level /\ (e.level = f.level => e.key <= f.key)
<1>1. \A e \in heap : e.level \in Nat /\ e.key \in Nat
  BY LevelsAreNat, ElementAssumption DEF HeapInv
<1>2. ASSUME heap # {}
      PROVE  \E e \in heap : \A f \in heap : ~Unbucketed!Less(f, e)
  <2> DEFINE Levels == {e.level : e \in heap}
  <2>1. PICK l \in Levels : \A k \in Levels : l <= k
    <3>1. Levels \in SUBSET Nat /\ Levels # {}
      BY <1>1, <1>2
    <3> HIDE DEF Levels
    <3> QED BY <3>1, SmallestNumber
  <2> DEFINE Keys == {e.key : e \in {f \in heap : f.level = l}}
  <2>2. PICK k \in Keys : \A j \in Keys : k <= j
    <3>1. Keys \in SUBSET Nat /\ Keys # {}
      BY <1>1, <2>1
    <3> HIDE DEF Keys
    <3> QED BY <3>1, SmallestNumber
  <2>3. PICK e \in heap : e.level = l /\ e.key = k
    BY <2>2
  <2>4. ASSUME NEW f \in heap
        PROVE  ~Unbucketed!Less(f, e)
    <3>1. l <= f.level /\ (f.level = l => k <= f.key)
      BY <2>1, <2>2
    <3> QED BY <1>1, <2>3, <3>1 DEF Unbucketed!Less
  <2> QED BY <2>3, <2>4
<1>3. ASSUME NEW e \in Unbucketed!QueueTop, NEW f \in heap
      PROVE  e \in heap /\ e.level <= f.level /\ (e.level = f.level => e.key <= f.key)
  BY <1>1 DEF Unbucketed!QueueTop, Unbucketed!Less
<1>4. \A e \in Unbucketed!QueueTop : e \in heap
  BY DEF Unbucketed!QueueTop
<1> QED BY <1>1, <1>2, <1>3, <1>4 DEF Unbucketed!QueueTop

LEMMA HeapPush ==
    ASSUME HeapInv, NEW e \in Element, Unbucketed!Push(e)
    PROVE  HeapInv' /\ Unbucketed!Queue!AbsPush(e)
<1>1. e.level \in Nat
  BY LevelsAreNat
<1>2. heap' = heap \union {e} /\ heapLevel' = heapLevel /\ e \notin heap /\ heapLevel < e.level
  BY DEF Unbucketed!Push
<1> QED BY <1>1, <1>2 DEF HeapInv, Unbucketed!Queue!AbsPush

LEMMA HeapPull ==
    ASSUME HeapInv, Unbucketed!Pull
    PROVE  HeapInv' /\ Unbucketed!Queue!AbsPull
<1>1. PICK e \in Unbucketed!QueueTop : heap' = heap \ {e}
  BY DEF Unbucketed!Pull
<1>2. PICK t \in Unbucketed!QueueTop : t.level = heapLevel
  BY DEF Unbucketed!Pull, Unbucketed!EmptyLevel
<1>3. e \in heap /\ e.level = heapLevel
  BY <1>1, <1>2, HeapHasTop
<1>4. \A f \in heap : f.level = heapLevel => e.key <= f.key
  BY <1>1, <1>3, HeapHasTop
<1>5. heapLevel' = heapLevel
  BY DEF Unbucketed!Pull
<1> QED BY <1>1, <1>3, <1>4, <1>5
        DEF HeapInv, Unbucketed!Queue!AbsPull, Unbucketed!Queue!AtLevel

(* Setting up a level moves to the first element or, if that one is past   *)
(* the stop level, to the stop level.                                      *)
LEMMA HeapSetup ==
    ASSUME HeapInv, NEW s \in StopLevels \union {NoLabel}, Unbucketed!Setup(s)
    PROVE  HeapInv' /\ Unbucketed!Queue!AbsAdvance(s)
<1>1. /\ Unbucketed!EmptyLevel /\ heap' = heap /\ (s # NoLabel \/ heap # {})
      /\ s # NoLabel => s \in Nat /\ heapLevel < s /\ s \in Unbucketed!AnyLevel
      /\ Unbucketed!NoLabel = NoLabel
  BY StopAssumption DEF Unbucketed!Setup, Unbucketed!NoLabel, NoLabel, Unbucketed!AnyLevel
<1>2. \A e \in heap : e.level \in Nat /\ heapLevel < e.level /\ heapLevel \in Int
  <2>1. heapLevel # NoLabel => \A e \in Unbucketed!QueueTop : e.level # heapLevel
    BY <1>1 DEF Unbucketed!EmptyLevel
  <2> QED BY <1>1, <2>1, HeapHasTop DEF HeapInv, NoLabel
<1>3. Unbucketed!Queue!AtLevel(heapLevel) = {}
  BY <1>2 DEF Unbucketed!Queue!AtLevel
<1>4. ASSUME NEW e \in heap, \A f \in heap : e.level <= f.level, heapLevel' = e.level,
             s = NoLabel \/ e.level <= s
      PROVE  HeapInv' /\ Unbucketed!Queue!AbsAdvance(s)
  <2> DEFINE R == Unbucketed!Queue!Reachable(s)
  <2>1. e.level \in R /\ \A m \in R : m \in Int /\ e.level <= m
    BY <1>1, <1>2, <1>4 DEF Unbucketed!Queue!Reachable, Unbucketed!Queue!LevelsOf
  <2>2. Unbucketed!Queue!Target(s) = Unbucketed!Queue!Min(R)
    BY <2>1 DEF Unbucketed!Queue!Target
  <2> HIDE DEF R
  <2>3. \A m \in R : (\A k \in R : m <= k) => m = e.level
    BY <2>1
  <2>4. Unbucketed!Queue!Target(s) = e.level
    BY <2>1, <2>2, <2>3 DEF Unbucketed!Queue!Min
  <2> QED BY <1>1, <1>2, <1>3, <1>4, <2>4 DEF HeapInv, Unbucketed!Queue!AbsAdvance
<1>5. ASSUME s # NoLabel, \A e \in heap : s < e.level, heapLevel' = s
      PROVE  HeapInv' /\ Unbucketed!Queue!AbsAdvance(s)
  <2>1. Unbucketed!Queue!Reachable(s) = {}
    BY <1>1, <1>2, <1>5 DEF Unbucketed!Queue!Reachable, Unbucketed!Queue!LevelsOf
  <2> DEFINE S == {m \in Unbucketed!AnyLevel : m <= s} \union {heapLevel}
  <2>2. Unbucketed!Queue!Target(s) = Unbucketed!Queue!Max(S)
    BY <2>1 DEF Unbucketed!Queue!Target
  <2>3. s \in S /\ s \in Nat /\ \A m \in S : m \in Int /\ m <= s
    <3>1. \A m \in Unbucketed!AnyLevel : m \in Int
      BY LevelsAreNat, StopAssumption DEF Unbucketed!AnyLevel
    <3> QED BY <1>1, <1>5, <3>1 DEF HeapInv
  <2> HIDE DEF S
  <2>4. \A m \in S : (\A k \in S : m >= k) => m = s
    BY <2>3
  <2>5. Unbucketed!Queue!Target(s) = s
    BY <2>2, <2>3, <2>4 DEF Unbucketed!Queue!Max
  <2> QED BY <1>1, <1>2, <1>3, <1>5, <2>5 DEF HeapInv, Unbucketed!Queue!AbsAdvance
<1>6. CASE Unbucketed!StopComesFirst(s) /\ heapLevel' = s
  <2>1. s # NoLabel /\ \A e \in Unbucketed!QueueTop : s <= e.level
    BY <1>1, <1>6 DEF Unbucketed!StopComesFirst
  <2>2. CASE heap = {}
    BY <1>5, <1>6, <2>1, <2>2
  <2>3. CASE heap # {}
    <3>1. PICK e \in Unbucketed!QueueTop : TRUE
      BY <2>3, HeapHasTop
    <3>2. e \in heap /\ s <= e.level /\ \A f \in heap : e.level <= f.level
      BY <2>1, <3>1, HeapHasTop
    <3>3. CASE s = e.level
      BY <1>4, <1>6, <3>2, <3>3
    <3>4. CASE s # e.level
      <4>1. \A f \in heap : s < f.level
        BY <1>1, <1>2, <2>1, <3>2, <3>4
      <4> QED BY <1>5, <1>6, <2>1, <4>1
    <3> QED BY <3>3, <3>4
  <2> QED BY <2>2, <2>3
<1>7. CASE ~Unbucketed!StopComesFirst(s) /\ \E e \in Unbucketed!QueueTop : heapLevel' = e.level
  <2>1. PICK e \in Unbucketed!QueueTop : heapLevel' = e.level
    BY <1>7
  <2>2. e \in heap /\ \A f \in heap : e.level <= f.level
    BY <2>1, HeapHasTop
  <2>3. s = NoLabel \/ e.level <= s
    <3> SUFFICES ASSUME s # NoLabel PROVE e.level <= s
      OBVIOUS
    <3>1. PICK t \in Unbucketed!QueueTop : ~(s <= t.level)
      BY <1>1, <1>7 DEF Unbucketed!StopComesFirst
    <3>2. t \in heap
      BY <3>1, HeapHasTop
    <3> QED BY <1>1, <1>2, <2>2, <3>1, <3>2
  <2> QED BY <1>4, <2>1, <2>2, <2>3
<1> QED BY <1>6, <1>7 DEF Unbucketed!Setup

(***************************************************************************)
(* The queue without buckets implements the levelized queue, with every    *)
(* level known to it: what a sweep is promised does not depend on which of *)
(* the two queues its memory bounds chose for it.                          *)
(***************************************************************************)
THEOREM UnbucketedImplementsQueue == QueuesSpec => UnbucketedImplementsLevelizedQueue
<1> USE DEF Unbucketed!NoLabel, NoLabel
<1>1. QueuesInit => HeapInv /\ Unbucketed!Queue!AbsInit
  BY DEF QueuesInit, Unbucketed!Init, HeapInv, Unbucketed!Queue!AbsInit
<1>2. HeapInv /\ [QueuesNext]_qvars => HeapInv' /\ [Unbucketed!Queue!AbsNext]_(Unbucketed!Queue!avars)
  <2> SUFFICES ASSUME HeapInv, [QueuesNext]_qvars
               PROVE  HeapInv' /\ (Unbucketed!Queue!AbsNext \/ UNCHANGED <<heap, heapLevel>>)
    BY DEF Unbucketed!Queue!AbsNext, Unbucketed!Queue!avars
  <2>1. CASE UNCHANGED <<heap, heapLevel>>
    BY <2>1 DEF HeapInv
  <2>2. CASE Unbucketed!Next
    BY <2>2, HeapPush, HeapPull, HeapSetup DEF Unbucketed!Next, Unbucketed!Queue!AbsNext
  <2> QED BY <2>1, <2>2 DEF QueuesNext, qvars
<1> QED BY <1>1, <1>2, PTL
        DEF QueuesSpec, UnbucketedImplementsLevelizedQueue,
            Unbucketed!ImplementsLevelizedQueue, Unbucketed!Queue!AbsSpec
(***************************************************************************)
(* Seen beside the other two, the bucketed queue still is LevelizedPQ, so  *)
(* what is proved of LevelizedPQ holds of a sweep's queues.                *)
(***************************************************************************)
THEOREM BucketedAtWork == QueuesSpec => Spec /\ ImplementsLevelizedQueue
<1>1. QueuesInit => Init
  BY DEF QueuesInit
<1>2. [QueuesNext]_qvars => [Next]_vars
  BY DEF QueuesNext, qvars
<1> QED BY <1>1, <1>2, BucketedImplementsQueue, PTL DEF QueuesSpec, Spec
=============================================================================
