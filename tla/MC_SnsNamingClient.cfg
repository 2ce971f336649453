\* The client may be destroyed, after which nothing is left to do.
CONSTANTS
    t1 = t1
    t2 = t2
    Threads <- MCThreads
    Threshold <- MCThreshold
SPECIFICATION Spec
INVARIANT NoRegistrationAfterCancel
PROPERTY EventuallyRegistered
CHECK_DEADLOCK FALSE
