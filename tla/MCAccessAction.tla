--------------------------- MODULE MCAccessAction ---------------------------
EXTENDS AccessAction

CONSTANTS i1, i2, i3, i4, b1, b2, b3, k1, k2, c1, c2

\* i1 and i2 name keys, i3 is base64 of bytes that are no BLS point, i4 is
\* not base64.
MCIdStrs == {i1, i2, i3, i4}
MCBytes == {b1, b2, b3}
MCKeys == {k1, k2}
MCB64Decode == [s \in MCIdStrs |-> CASE s = i1 -> b1 [] s = i2 -> b2
                                     [] s = i3 -> b3 [] s = i4 -> DecodeErr]
MCNewPublicKey == [b \in MCBytes |-> CASE b = b1 -> k1 [] b = b2 -> k2
                                       [] b = b3 -> KeyErr]
MCCalls == {c1, c2}
\* Every --identity list of at most three strings, the empty one included.
MCRequests == UNION {[1..n -> MCIdStrs] : n \in 0..3}
=============================================================================
