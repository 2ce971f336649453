\* HttpMessage: progressive body reading by the parse fiber and the user thread.
CONSTANTS
    NParts <- MCNParts
    Limit <- MCLimit
    MaxHeaderCalls <- MCMaxHeaderCalls

SPECIFICATION FairSpec

\* The message's life ends: after ~HttpMessage nothing is enabled.
CHECK_DEADLOCK FALSE

INVARIANT PartsInOrder
INVARIANT WholeBodyOnOk
INVARIANT NoOrphanReader
INVARIANT NoConcurrentReads
PROPERTY WaitEnds
