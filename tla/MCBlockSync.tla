---------------------------- MODULE MCBlockSync ----------------------------
(* Instantiates BlockSync for TLC.  Two shapes are checked: one player    *)
(* that two concurrent Sync calls of the same leader catch up (the mutex  *)
(* and the latest index are contended), and one Sync over two players     *)
(* (the counting of soft and hard players and the events).               *)
EXTENDS BlockSync

CONSTANTS p1, p2, l1, s1, s2

OnePlayer == {p1}
TwoPlayers == {p1, p2}
OneLeader == {l1}
OneSync == {s1}
TwoSyncs == {s1, s2}
SameLeader == [s \in TwoSyncs |-> l1]
OneOrch == [s \in OneSync |-> l1]
=============================================================================
