------------------------------- MODULE Cursor -------------------------------
(***************************************************************************)
(* What a reader promises (src/src/adiar/internal/io/ifstream.h): from its *)
(* attachment on it pulls the elements of its source in their order, each  *)
(* of them once; looking at the next one does not use it up, and seeking   *)
(* passes over those below the target only.                                *)
(*                                                                         *)
(* `source` is what is read, in the direction of reading, `rest` what is   *)
(* still to come, its head what peek answers, and `last` the latest pull.  *)
(***************************************************************************)
EXTENDS Naturals, Sequences, SequencesExt

CONSTANTS Elements, Nothing

VARIABLES source, rest, last

vars == <<source, rest, last>>

Init == source = <<>> /\ rest = <<>> /\ last = Nothing

(* Opened, reset to the beginning, or closed *)
Attach == rest' = source' /\ last' = Nothing

Pull == rest /= <<>> /\ last' = Head(rest) /\ rest' = Tail(rest) /\ UNCHANGED source

(* The first element that is not below the target, or else the last one,   *)
(* is the next to come                                                     *)
Seek(target) ==
    /\ rest /= <<>>
    /\ LET passed == {k \in 1..Len(rest) - 1 : \A j \in 1..k : rest[j] < target}
           n      == IF passed = {} THEN 0 ELSE CHOOSE k \in passed : \A j \in passed : j <= k
       IN  rest' = SubSeq(rest, n + 1, Len(rest))
    /\ UNCHANGED <<source, last>>

Next == Attach \/ Pull \/ \E target \in Elements : Seek(target)

Spec == Init /\ [][Next]_vars
=============================================================================
