CONSTANTS
    p1 = p1
    p2 = p2
    l1 = l1
    s1 = s1
    s2 = s2
    None = None
    Players <- OnePlayer
    Leaders <- OneLeader
    Syncs <- TwoSyncs
    OrchOf <- SameLeader
    MaxBlock = 2
    MaxSendErrors = 1
SPECIFICATION Spec
CHECK_DEADLOCK FALSE
PROPERTY LockReleased
