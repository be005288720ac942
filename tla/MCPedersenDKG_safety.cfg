SPECIFICATION Spec
CONSTANTS
    n1 = n1
    n2 = n2
    n3 = n3
    Nodes <- ThreeNodes
    ChanSize = 1
    MaxFaults = 0
    MaxDecrypts = 0
    OrchTimeout = FALSE
INVARIANT TypeOK
INVARIANT CertifiedAfterAllResponses
CHECK_DEADLOCK FALSE
SYMMETRY NodeSymmetry
