CONSTANTS
    a1 = a1
    a2 = a2
    c1 = c1
    c2 = c2
    c3 = c3
    None = None
    Peers <- OnePeer
    Calls <- ThreeCalls
    RecvCalls <- RecvC3
    MaxRelays = 2
    MaxCrashes = 1
    MaxStreamErrors = 1
SPECIFICATION Spec
PROPERTY SendCompletes
PROPERTY SessionQuiesces
CHECK_DEADLOCK FALSE
