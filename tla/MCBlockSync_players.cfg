CONSTANTS
    p1 = p1
    p2 = p2
    l1 = l1
    s1 = s1
    s2 = s2
    None = None
    Players <- TwoPlayers
    Leaders <- OneLeader
    Syncs <- OneSync
    OrchOf <- OneOrch
    MaxBlock = 3
    MaxSendErrors = 0
SPECIFICATION Spec
INVARIANT HardMeansSynced
INVARIANT FinalEventComplete
PROPERTY LockReleased
CHECK_DEADLOCK FALSE
