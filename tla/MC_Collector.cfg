\* A collector whose grab thread failed to start is idle once every sample
\* is submitted, and a destroyed one once both joins returned: both are real
\* final states.  ~Collector may run at any point but need not run at all
\* (the program keeps the collector as a leaky singleton).
CONSTANTS
    s1 = s1
    s2 = s2
    s3 = s3
    s4 = s4
    Samples <- MCSamples
    MaxPending <- MCMaxPending
    Base <- MCBase
    Expected <- MCExpected
    USec <- MCUSec
    Intervals <- MCIntervals
SPECIFICATION Spec
INVARIANT PendingExact
INVARIANT PendingBelowMax
PROPERTY EverySampleReleased
PROPERTY DestructorReturns
CHECK_DEADLOCK FALSE
