---------------------------- MODULE MCNodeWriter ----------------------------
(* Instances of NodeWriter.  Two nodes on each level below the root are    *)
(* the least for which a 2-level cut is larger than every 1-level cut; the *)
(* cuts do not depend on the kind of diagram or on how the writer was      *)
(* attached.  Gaps matter to the canonicity flags only.                    *)
EXTENDS NodeWriter

Client(kind, attach, width, gap) ==
    [zdd |-> kind, attach |-> attach, width |-> width, gap |-> gap]

TwoBelowRoot == [l \in Level |-> IF l = 0 THEN 1 ELSE 2]
TwoAtBottom == [l \in Level |-> IF l = Levels - 1 THEN 2 ELSE 1]

AllClients == {
    Client(FALSE, "constructor", TwoBelowRoot, 0),
    Client(FALSE, "open", TwoAtBottom, 0),
    Client(TRUE, "constructor", TwoAtBottom, 1)}
=============================================================================
