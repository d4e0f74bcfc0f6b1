--------------------------- MODULE LevelizedQueue ---------------------------
(***************************************************************************)
(* What Adiar's levelized priority queue promises to the sweeps that use   *)
(* it: a priority queue over elements that carry a level.  Only the        *)
(* elements of the current level can be pulled, least key first, and the   *)
(* queue only ever moves on to a later level.                              *)
(*                                                                         *)
(* Levels are numbered in the order of the queue's level comparator, so a  *)
(* bottom-up sweep (comparator "greater") is the same specification with   *)
(* its levels renumbered.                                                  *)
(***************************************************************************)
EXTENDS Integers, FiniteSetsExt

CONSTANTS
    Element,    \* Elements: records with fields "level" and "key"
    Known,      \* The levels the queue's level files contain
    StopLevels, \* The levels a sweep may name as its stop level
    NoLabel     \* The value "no level"; smaller than every level

VARIABLES
    content,    \* The elements pushed and not yet pulled
    level       \* The current level, or NoLabel

avars == <<content, level>>

LevelsOf(S) == {e.level : e \in S}

AtLevel(l) == {e \in content : e.level = l}

AbsInit ==
    /\ content = {}
    /\ level = NoLabel

AbsPush(e) ==
    /\ e \notin content
    /\ e.level > level
    /\ content' = content \union {e}
    /\ UNCHANGED level

AbsPull ==
    \E e \in AtLevel(level) :
        /\ \A f \in AtLevel(level) : e.key <= f.key
        /\ content' = content \ {e}
        /\ UNCHANGED level

(***************************************************************************)
(* Where the queue moves when asked to stop at the latest at level stop    *)
(* (NoLabel: no stop): at the first level with an element or, if that one  *)
(* is past the stop, at the last known level up to the stop.               *)
(***************************************************************************)
Reachable(stop) ==
    {l \in LevelsOf(content) : stop = NoLabel \/ l <= stop}

Target(stop) ==
    IF Reachable(stop) # {}
    THEN Min(Reachable(stop))
    ELSE Max({l \in Known : l <= stop} \union {level})

AbsAdvance(stop) ==
    /\ AtLevel(level) = {}
    /\ stop # NoLabel \/ content # {}
    /\ Target(stop) > level
    /\ level' = Target(stop)
    /\ UNCHANGED content

AbsNext ==
    \/ \E e \in Element : AbsPush(e)
    \/ AbsPull
    \/ \E stop \in StopLevels \union {NoLabel} : AbsAdvance(stop)

AbsSpec == AbsInit /\ [][AbsNext]_avars
=============================================================================
