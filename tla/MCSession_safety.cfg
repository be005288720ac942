CONSTANTS
    a1 = a1
    a2 = a2
    c1 = c1
    c2 = c2
    c3 = c3
    None = None
    Peers <- TwoPeers
    Calls <- TwoCalls
    RecvCalls <- RecvC2
    MaxRelays = 3
    MaxCrashes = 1
    MaxStreamErrors = 1
SPECIFICATION Spec
INVARIANT TypeOK
INVARIANT RefcountBalance
INVARIANT SendAccounted
INVARIANT CloseQuiescence
INVARIANT ErrsWithinCapacity
CHECK_DEADLOCK FALSE
