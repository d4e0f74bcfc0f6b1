--------------------------- MODULE MCSweepQueues ---------------------------
(* Small instances of SweepQueues for TLC.                                 *)
EXTENDS SweepQueues, SequencesExt

MCStream == <<0, 2, 3, 5, 6, 8>>
MCStopLevels == {2, 4, 6, 7, 9}
MCElement ==
    {[level |-> 2, key |-> 1, id |-> 0],
     [level |-> 3, key |-> 1, id |-> 0],
     [level |-> 5, key |-> 1, id |-> 0],
     [level |-> 5, key |-> 1, id |-> 1],
     [level |-> 6, key |-> 2, id |-> 0],
     [level |-> 8, key |-> 1, id |-> 0],
     [level |-> 8, key |-> 2, id |-> 0]}

\* Every set of levels a file may have
MCLevelFiles == {SetToSortSeq(S, <) : S \in SUBSET (0 .. 3)}
=============================================================================
