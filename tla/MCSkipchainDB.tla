--------------------------- MODULE MCSkipchainDB ---------------------------
EXTENDS SkipchainDB

CONSTANTS q1, q2, x, y

\* Two goroutines; blocks at indexes 0 and 1 with two possible contents,
\* so a write can append, overwrite or be refused.
MCProcs == {q1, q2}
MCBlocks == [index : 0..1, id : {x, y}]
=============================================================================
