CONSTANTS
    i1 = i1
    i2 = i2
    i3 = i3
    i4 = i4
    b1 = b1
    b2 = b2
    b3 = b3
    k1 = k1
    k2 = k2
    c1 = c1
    c2 = c2
    DecodeErr = DecodeErr
    KeyErr = KeyErr
    NoKey = NoKey
    IdStrs <- MCIdStrs
    Bytes <- MCBytes
    Keys <- MCKeys
    B64Decode <- MCB64Decode
    NewPublicKey <- MCNewPublicKey
    Calls <- MCCalls
    Requests <- MCRequests
SPECIFICATION Spec
INVARIANT TypeOK
INVARIANT ParseMatchesReference
PROPERTY AllOrNothing
CHECK_DEADLOCK FALSE
