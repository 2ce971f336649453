\* The fiber ends after fiber_stop and consul's index stops at MaxIndex, so
\* the model has final states.
CONSTANTS
    n1 = n1
    n2 = n2
    Bad = Bad
    Nodes <- MCNodes
    MaxLen <- MCMaxLen
    MaxIndex <- MCMaxIndex
    Degrade = TRUE
    FileServers <- MCFileServers
SPECIFICATION Spec
INVARIANT NoDuplicateServers
PROPERTY FirstBatchReported
PROPERTY StopTerminates
PROPERTY ConsulListResumed
CHECK_DEADLOCK FALSE
