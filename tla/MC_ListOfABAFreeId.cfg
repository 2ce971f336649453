CONSTANTS
    BLOCK_SIZE <- MCBlockSize
    Limits <- MCLimits
    NumIds <- MCNumIds
SPECIFICATION Spec
CHECK_DEADLOCK FALSE
INVARIANT NoLiveIdLost
INVARIANT NoDuplicate
INVARIANT ChainIsAllBlocks
