------------------------------ MODULE MCTimer -------------------------------
(* Three packets that share a bucket, and a bucket that stays empty.       *)
EXTENDS RawProtoTimer

CONSTANTS p1, p2, p3

MCPkt == {p1, p2, p3}
MCHash == [p \in MCPkt |-> 0]
=============================================================================
