---------------------------- MODULE LevelMerger ----------------------------
(***************************************************************************)
(* The merge of the levels of several files                                *)
(* (internal/data_structures/level_merger.h): the source of Stream in      *)
(* LevelizedPQ.  Each file lists its levels in the merger's order; the     *)
(* comparator is the order on the naturals.                                *)
(***************************************************************************)
EXTENDS Integers, Sequences

CONSTANTS
    FileCount,      \* Number of files
    LevelFiles      \* The possible contents of a file: sequences of levels

Files == 1 .. FileCount

ASSUME FilesAssumption ==
    /\ FileCount \in Nat \ {0}
    /\ LevelFiles \subseteq Seq(Nat)
    /\ \A s \in LevelFiles :
        \A i, j \in 1 .. Len(s) : i < j => s[i] < s[j]

VARIABLES
    hooked,     \* The files the merger was hooked into
    rest,       \* What is left of each level stream
    pulled      \* The levels delivered so far

mvars == <<hooked, rest, pulled>>

Hook ==
    /\ hooked \in [Files -> LevelFiles]
    /\ rest = hooked
    /\ pulled = <<>>

CanPull == \E f \in Files : rest[f] # <<>>

IsPeek(l) ==
    /\ \E f \in Files : rest[f] # <<>> /\ Head(rest[f]) = l
    /\ \A f \in Files : rest[f] # <<>> => l <= Head(rest[f])

\* (mutant) moves on in one of the files only
AdvanceFirst(l) ==
    LET f == CHOOSE g \in Files : rest[g] # <<>> /\ Head(rest[g]) = l
    IN  [rest EXCEPT ![f] = Tail(@)]

\* Every stream whose head is the level moves on
AdvanceAll(l) ==
    [f \in Files |-> IF rest[f] # <<>> /\ Head(rest[f]) = l
                     THEN Tail(rest[f]) ELSE rest[f]]

PullLevel ==
    /\ CanPull
    /\ \E l \in {Head(rest[f]) : f \in {g \in Files : rest[g] # <<>>}} :
        /\ IsPeek(l)
        /\ pulled' = Append(pulled, l)
        /\ rest' = AdvanceAll(l)
    /\ UNCHANGED hooked

-----------------------------------------------------------------------------
Elements(s) == {s[i] : i \in 1 .. Len(s)}

(***************************************************************************)
(* The merger delivers each level of the files once, in order, and none is *)
(* lost: what it delivered and what is left in the streams is a partition  *)
(* of the levels of all files, every level left past those delivered.      *)
(***************************************************************************)
DeliversTheUnionInOrder ==
    LET left == UNION {Elements(rest[f]) : f \in Files}
    IN  /\ Elements(pulled) \union left = UNION {Elements(hooked[f]) : f \in Files}
        /\ \A i, j \in 1 .. Len(pulled) : i < j => pulled[i] < pulled[j]
        /\ \A l \in Elements(pulled), m \in left : l < m
=============================================================================
