--------------------------- MODULE MCPedersenDKG ---------------------------
(* Instantiates PedersenDKG for TLC with three participants.              *)
EXTENDS PedersenDKG, TLC

CONSTANTS n1, n2, n3

TwoNodes == {n1, n2}
ThreeNodes == {n1, n2, n3}

\* The participants are interchangeable: nothing in the handler depends on
\* which address a node has.
NodeSymmetry == Permutations(ThreeNodes)
=============================================================================
