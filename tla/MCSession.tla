---------------------------- MODULE MCSession ----------------------------
(* Session instances: two peers and two Send calls for the safety run (so *)
(* one Send fans out to two sendTo goroutines); one peer and three calls  *)
(* for the liveness runs (three sendTo goroutines and the drain loops     *)
(* competing for the session mutex on the same relay).  One call of each  *)
(* instance is a RecvPacket of a child's packet, the others are Sends.    *)
EXTENDS Session

CONSTANTS a1, a2, c1, c2, c3

OnePeer == {a1}
TwoPeers == {a1, a2}
TwoCalls == {c1, c2}
ThreeCalls == {c1, c2, c3}
RecvC2 == {c2}
RecvC3 == {c3}
=============================================================================
