CONSTANTS
    t1 = t1
    t2 = t2
    Threads <- MCThreads
    Threshold <- MCThreshold
SPECIFICATION Spec
INVARIANT NoFalseSuccess
CHECK_DEADLOCK FALSE
