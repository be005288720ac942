CONSTANTS
    q1 = q1
    q2 = q2
    x = x
    y = y
    Procs <- MCProcs
    Blocks <- MCBlocks
    MaxTxWrites = 1
SPECIFICATION Spec
PROPERTY AtomicIsSerial
CHECK_DEADLOCK FALSE
