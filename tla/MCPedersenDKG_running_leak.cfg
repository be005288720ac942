SPECIFICATION Spec
CONSTANTS
    n1 = n1
    n2 = n2
    n3 = n3
    Nodes <- TwoNodes
    ChanSize = 1
    MaxFaults = 0
    MaxDecrypts = 1
    OrchTimeout = FALSE
INVARIANT NoStaleRunning
CHECK_DEADLOCK FALSE
